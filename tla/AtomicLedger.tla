---------------------------- MODULE AtomicLedger ----------------------------
(***************************************************************************)
(* What the ledger promises its clients, with no workers, sessions,        *)
(* connections or commits: an embed request is decided once, it is in the  *)
(* ledger for good or out of it for good; SUCCESS is only ever said of a   *)
(* row that is in; and a look-up never denies a row that was in before the *)
(* look-up was asked.  Errors and silence promise nothing, except that a   *)
(* request known to have failed is out.                                    *)
(***************************************************************************)
CONSTANTS
    Embeds,     \* requests that register one row each
    Lookups,    \* requests that ask for one row each
    Legacy,     \* rows that are there from the start
    Asked       \* the row each look-up asks for

VARIABLES
    fate,       \* fate[e]: "open", "in" or "out"
    began,      \* began[q]: "unasked", or whether the row was in by then
    answer      \* answer[r]: what the client was told

vars == <<fate, began, answer>>

Rows == Legacy \cup {e \in Embeds : fate[e] = "in"}

Init ==
    /\ fate = [e \in Embeds |-> "open"]
    /\ began = [q \in Lookups |-> "unasked"]
    /\ answer = [r \in Embeds \cup Lookups |-> "none"]

\* The row of e appears, whole and at once.
Register(e) ==
    /\ fate[e] = "open"
    /\ fate' = [fate EXCEPT ![e] = "in"]
    /\ UNCHANGED <<began, answer>>

\* The requests of S, a process's worth of them perhaps, will have no row.
Drop(S) ==
    /\ \A e \in S : fate[e] = "open"
    /\ fate' = [e \in Embeds |-> IF e \in S THEN "out" ELSE fate[e]]
    /\ UNCHANGED <<began, answer>>

Ask(q) ==
    /\ began[q] = "unasked"
    /\ began' = [began EXCEPT ![q] =
                   IF Asked[q] \in Rows THEN "present" ELSE "absent"]
    /\ UNCHANGED <<fate, answer>>

AnswerEmbed(e) ==
    /\ answer[e] = "none"
    /\ \/ fate[e] = "in" /\ answer' = [answer EXCEPT ![e] = "success"]
       \/ answer' = [answer EXCEPT ![e] = "error"]
    /\ UNCHANGED <<fate, began>>

AnswerLookup(q) ==
    /\ answer[q] = "none"
    /\ began[q] # "unasked"
    /\ \/ Asked[q] \in Rows /\ answer' = [answer EXCEPT ![q] = "success"]
       \/ Asked[q] \in Legacy /\ answer' = [answer EXCEPT ![q] = "gone"]
       \/ began[q] = "absent" /\ answer' = [answer EXCEPT ![q] = "missing"]
       \/ answer' = [answer EXCEPT ![q] = "error"]
    /\ UNCHANGED <<fate, began>>

Next ==
    \/ \E e \in Embeds : Register(e) \/ AnswerEmbed(e)
    \/ \E S \in SUBSET Embeds : Drop(S)
    \/ \E q \in Lookups : Ask(q) \/ AnswerLookup(q)

Spec == Init /\ [][Next]_vars

=============================================================================
