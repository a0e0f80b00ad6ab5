-------------------------- MODULE LedgerRefinement --------------------------
(***************************************************************************)
(* LedgerRequests implements AtomicLedger.  The row of an embed is decided *)
(* by its transaction at the server and by nothing else: "in" when it is   *)
(* committed, "out" when it is aborted, open until then, whatever the      *)
(* coroutine, the connection or the process have come to.                  *)
(***************************************************************************)
EXTENDS LedgerRequests

Fate(e) == IF e \in rows THEN "in"
           ELSE IF txn[e] = "aborted" THEN "out" ELSE "open"

Ledger == INSTANCE AtomicLedger WITH
            Lookups <- Images,
            Asked   <- [q \in Images |-> Asked[q]],
            fate    <- [e \in Embeds |-> Fate(e)],
            began   <- [q \in Images |-> atStart[q]],
            answer  <- [r \in Embeds \cup Images |-> heard[r]]

\* Every behaviour of the server, with its crashes, broken connections and
\* lost responses, is a behaviour of the atomic ledger as the clients of
\* /watermark/embed and /asset/{id}/image see it.
ImplementsAtomicLedger == Ledger!Spec

=============================================================================
