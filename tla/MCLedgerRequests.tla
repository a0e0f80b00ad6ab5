-------------------------- MODULE MCLedgerRequests --------------------------
(* Small instances of LedgerRequests for TLC. *)
EXTENDS LedgerRefinement, TLC

CONSTANTS e1, e2, q1, q2, q3, l1, w1, w2

\* Every read asks for the row of the embed e1.
MCAskedOne == [q \in Reads |-> e1]

\* The read q3 asks for a row without an image, the others for that of e1.
MCAskedLegacy == [q \in Reads |-> IF q = q3 THEN l1 ELSE e1]

\* Workers are interchangeable.
MCWorkerSymmetry == Permutations(Workers)

=============================================================================
