------------------------- MODULE MCSharedConnection -------------------------
(* Small instances of SharedConnection for TLC. *)
EXTENDS SharedConnection, TLC

CONSTANTS e1, e2, q1, q2

\* The look-ups ask for the two rows.
MCAsked == [q \in Lookups |-> IF q = q1 THEN e1 ELSE e2]

=============================================================================
