-------------------------- MODULE SharedConnection --------------------------
(***************************************************************************)
(* The SQLite configuration of get_engine, the one the tests run on.  With *)
(* StaticPool every session is given the same connection, so there is one  *)
(* transaction for all the requests in flight: a session's commit commits  *)
(* what the others have flushed, its rollback drops it, and so does the    *)
(* ROLLBACK the pool issues each time a session returns the connection,    *)
(* also after a commit.                                                    *)
(*                                                                         *)
(* The handlers are the embed (INSERT, then read the row back) and a       *)
(* look-up by id; get_db ends each of them as it does on Postgres.         *)
(***************************************************************************)
EXTENDS Naturals, FiniteSets

CONSTANTS
    Embeds,      \* embed requests; an embed also names the row it inserts
    Lookups,     \* requests that look a row up by its id
    Asked,       \* Asked[q]: the row the look-up q asks for
    MaxInFlight  \* the requests the clients have under way at a time

Requests == Embeds \cup Lookups

ASSUME SharedAssumption ==
    /\ Embeds \cap Lookups = {}
    /\ IsFiniteSet(Requests)
    /\ Asked \in [Lookups -> Embeds]
    /\ MaxInFlight \in Nat

VARIABLES
    pc,       \* pc[r]: where the coroutine of r is
    status,   \* status[r]: the response it is heading for
    flushed,  \* rows in the connection's open transaction
    rows,     \* rows committed to the database
    atStart   \* history: was the row asked by q committed when q arrived?

vars == <<pc, status, flushed, rows, atStart>>

InFlight == {r \in Requests : pc[r] \notin {"idle", "done"}}

TypeOK ==
    /\ pc \in [Requests -> {"idle", "handling", "inserted", "returning",
                            "raising", "closing", "answering", "done"}]
    /\ status \in [Requests -> {"none", "success", "missing", "error"}]
    /\ flushed \subseteq Embeds
    /\ rows \subseteq Embeds
    /\ atStart \in [Lookups -> {"unasked", "present", "absent"}]

Init ==
    /\ pc = [r \in Requests |-> "idle"]
    /\ status = [r \in Requests |-> "none"]
    /\ flushed = {}
    /\ rows = {}
    /\ atStart = [q \in Lookups |-> "unasked"]

Goto(r, from, to) == pc[r] = from /\ pc' = [pc EXCEPT ![r] = to]

Answer(r, response) == status' = [status EXCEPT ![r] = response]

-----------------------------------------------------------------------------
(* Handlers *)

Accept(r) ==
    /\ Cardinality(InFlight) < MaxInFlight
    /\ Goto(r, "idle", "handling")
    /\ atStart' = [q \in Lookups |->
                     IF q # r THEN atStart[q]
                     ELSE IF Asked[q] \in rows THEN "present" ELSE "absent"]
    /\ UNCHANGED <<status, flushed, rows>>

\* The handler raises before its first statement.  The session never took
\* the connection, so neither get_db nor the pool has anything to undo.
Refuse(r) ==
    /\ Goto(r, "handling", "answering")
    /\ Answer(r, "error")
    /\ UNCHANGED <<flushed, rows, atStart>>

\* register: flush.  SQLite begins the transaction if none is open.
Insert(e) ==
    /\ Goto(e, "handling", "inserted")
    /\ flushed' = flushed \cup {e}
    /\ UNCHANGED <<status, rows, atStart>>

\* register: refresh.  It sees the row wherever it is, or raises.
Refresh(e) ==
    /\ pc[e] = "inserted"
    /\ \/ e \in flushed \cup rows /\ Goto(e, "inserted", "returning") /\ Answer(e, "success")
       \/ e \notin flushed \cup rows /\ Goto(e, "inserted", "raising") /\ Answer(e, "error")
    /\ UNCHANGED <<flushed, rows, atStart>>

\* get_by_id: on the shared connection the flushed rows show as well.
Lookup(q) ==
    /\ \/ /\ Asked[q] \in flushed \cup rows
          /\ Goto(q, "handling", "returning")
          /\ Answer(q, "success")
       \/ /\ Asked[q] \notin flushed \cup rows
          /\ Goto(q, "handling", "raising")
          /\ Answer(q, "missing")
    /\ UNCHANGED <<flushed, rows, atStart>>

\* A statement raises; an INSERT that does leaves the rest of the
\* transaction as it was.
StatementFails(r) ==
    /\ \/ Goto(r, "handling", "raising")
       \/ Goto(r, "inserted", "raising")
    /\ Answer(r, "error")
    /\ UNCHANGED <<flushed, rows, atStart>>

-----------------------------------------------------------------------------
(* get_db and the pool *)

\* Mutant: get_db yields the session and closes it without a commit.
CommitSkipped(r) ==
    /\ Goto(r, "returning", "closing")
    /\ UNCHANGED <<status, flushed, rows, atStart>>

\* await session.commit(): it is the connection that commits.
Commit(r) ==
    /\ Goto(r, "returning", "closing")
    /\ rows' = rows \cup flushed
    /\ flushed' = {}
    /\ UNCHANGED <<status, atStart>>

CommitFails(r) ==
    /\ Goto(r, "returning", "raising")
    /\ Answer(r, "error")
    /\ UNCHANGED <<flushed, rows, atStart>>

\* await session.rollback(), and the exception goes on.
Rollback(r) ==
    /\ Goto(r, "raising", "closing")
    /\ flushed' = {}
    /\ UNCHANGED <<status, rows, atStart>>

\* The session lets go of its connection, the pool resets it with a ROLLBACK
\* (reset_on_return).
Close(r) ==
    /\ Goto(r, "closing", "answering")
    /\ flushed' = {}
    /\ UNCHANGED <<status, rows, atStart>>

Respond(r) ==
    /\ Goto(r, "answering", "done")
    /\ UNCHANGED <<status, flushed, rows, atStart>>

Next ==
    \/ \E r \in Requests :
          \/ Accept(r) \/ Refuse(r) \/ StatementFails(r)
          \/ Commit(r) \/ CommitFails(r) \/ Rollback(r)
          \/ Close(r) \/ Respond(r)
    \/ \E e \in Embeds : Insert(e) \/ Refresh(e)
    \/ \E q \in Lookups : Lookup(q)

Spec == Init /\ [][Next]_vars

-----------------------------------------------------------------------------
(* Properties *)

Fate(e) == IF e \in rows THEN "in"
           ELSE IF pc[e] \in {"raising", "closing", "answering", "done"} THEN "out" ELSE "open"

Ledger == INSTANCE AtomicLedger WITH
            Legacy <- {},
            fate   <- [e \in Embeds |-> Fate(e)],
            began  <- atStart,
            answer <- [r \in Requests |-> IF pc[r] = "done" THEN status[r] ELSE "none"]

\* While the clients wait for each answer before they ask again, as the tests
\* do, the shared connection behaves like the atomic ledger.
ImplementsAtomicLedger == Ledger!Spec

\* get_db's "commits on clean exit, rolls back on exception" for its own
\* session: an embed that exits cleanly has its row.
CleanExitCommits ==
    \A e \in Embeds : pc[e] = "done" /\ status[e] = "success" => e \in rows

=============================================================================
