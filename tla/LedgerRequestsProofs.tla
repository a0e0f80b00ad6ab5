------------------------ MODULE LedgerRequestsProofs ------------------------
(***************************************************************************)
(* Proofs about LedgerRequests, for any number of requests, workers and    *)
(* connections.  The properties are not inductive as they stand: that      *)
(* SUCCESS is durable needs to know that a coroutine awaiting its commit   *)
(* has sent it, and that an exception never carries a success; that no     *)
(* connection leaks needs to know which coroutines hold one.  IInv says    *)
(* so, in six parts.  The last section proves the refinement.               *)
(***************************************************************************)
EXTENDS LedgerRefinement, TLAPS

-----------------------------------------------------------------------------
(* The inductive invariant *)

\* Where the coroutine is determines what its transaction can be.
PhaseInv ==
    \A r \in Requests :
        /\ pc[r] \in {"idle", "handling", "waiting"} => txn[r] = "none"
        /\ pc[r] = "connected"  => txn[r] = "begun"
        /\ pc[r] = "inserted"   => txn[r] = "written"
        /\ pc[r] = "returning"  => txn[r] \in TxnOpen
        /\ pc[r] = "committing" => txn[r] \in {"committing", "committed", "aborted"}
        /\ txn[r] \in TxnOpen =>
              pc[r] \in {"connected", "inserted", "returning", "raising"}

\* Who holds a connection, and of which process.
ConnectionInv ==
    /\ \A r \in Requests :
          pc[r] \in Running => \E w \in Workers : worker[r] = {w} /\ up[w]
    /\ \A r \in Requests :
          pc[r] \in Holding \/ txn[r] \in TxnOpen =>
              \E w \in Workers : worker[r] = {w} /\ r \in pool[w]
    /\ \A w \in Workers : \A r \in pool[w] :
          worker[r] = {w} /\ pc[r] \in Holding \cup {"raising"}

\* A row is a committed transaction, an exception is no success, and a success
\* beyond the commit is a committed row.
DurableInv ==
    /\ Legacy \subseteq rows
    /\ \A e \in Embeds : e \in rows <=> txn[e] = "committed"
    /\ \A r \in Requests : pc[r] = "raising" => status[r] # "success"
    /\ SuccessIsDurable

\* A handler that raised has sent no COMMIT and will send none.
RaisedInv ==
    \A r \in raised :
        /\ pc[r] \in {"raising", "answering", "done", "dead"}
        /\ txn[r] \notin {"committing", "committed"}

\* What a read knows is still so, rows being there for good.
ReadInv ==
    /\ \A q \in Reads : atStart[q] = "unasked" <=> pc[q] = "idle"
    /\ \A q \in Reads : atStart[q] = "present" => Asked[q] \in rows
    /\ \A q \in Reads : pc[q] = "idle" => status[q] = "none"
    /\ ReadsAreRegular

\* A client hears only what its coroutine answered, when it is done.
AnswerInv ==
    /\ \A r \in Requests :
          /\ heard[r] # "none" => pc[r] = "done"
          /\ status[r] = "none" =>
                pc[r] \notin {"returning", "committing", "raising", "answering"}
    /\ \A e \in Embeds : status[e] \in {"none", "success", "error"}
    /\ \A q \in Images : status[q] = "gone" => Asked[q] \in Legacy

IInv ==
    /\ PhaseInv
    /\ ConnectionInv
    /\ DurableInv
    /\ RaisedInv
    /\ ReadInv
    /\ AnswerInv

-----------------------------------------------------------------------------
(* Types and invariant are kept by every step *)

\* Every step keeps the types.
LEMMA TypeStep ==
  ASSUME TypeOK, [Next]_vars
  PROVE  TypeOK'
<1> USE RequestsAssumption
    DEF TypeOK, Pcs, Running, Holding, Settled, Txns, TxnOpen, Responses, Assets, Requests, Reads
<1>1. ASSUME NEW r \in Requests, NEW w \in Workers, Accept(r, w)
      PROVE  TypeOK'
  BY <1>1 DEF Accept, Goto
<1>2. ASSUME NEW r \in Requests, Refuse(r)
      PROVE  TypeOK'
  BY <1>2 DEF Refuse, HandlerRaises, Raise, server
<1>3. ASSUME NEW e \in Embeds, Prepare(e)
      PROVE  TypeOK'
  BY <1>3 DEF Prepare, Goto, server
<1>4. ASSUME NEW q \in Reads, Lookup(q)
      PROVE  TypeOK'
  BY <1>4 DEF Lookup, Goto, server
<1>5. ASSUME NEW r \in Requests, Checkout(r)
      PROVE  TypeOK'
  BY <1>5 DEF Checkout, Goto, server
<1>6. ASSUME NEW r \in Requests, CheckoutFails(r)
      PROVE  TypeOK'
  BY <1>6 DEF CheckoutFails, HandlerRaises, Raise, DatabaseError, server
<1>7. ASSUME NEW e \in Embeds, Insert(e)
      PROVE  TypeOK'
  BY <1>7 DEF Insert, Goto, server
<1>8. ASSUME NEW e \in Embeds, Refresh(e)
      PROVE  TypeOK'
  BY <1>8 DEF Refresh, Goto, server
<1>9. ASSUME NEW q \in Reads, Found(q)
      PROVE  TypeOK'
  BY <1>9 DEF Found, Goto, server
<1>10. ASSUME NEW q \in Reads, NotFound(q)
       PROVE  TypeOK'
  BY <1>10 DEF NotFound, HandlerRaises, Raise, server
<1>11. ASSUME NEW q \in Verifies, BadUpload(q)
       PROVE  TypeOK'
  BY <1>11 DEF BadUpload, HandlerRaises, Raise, server
<1>12. ASSUME NEW r \in Requests, StatementFails(r)
       PROVE  TypeOK'
  BY <1>12 DEF StatementFails, HandlerRaises, Raise, DatabaseError, server
<1>13. ASSUME NEW r \in Requests, SendCommit(r)
       PROVE  TypeOK'
  BY <1>13 DEF SendCommit, Goto, server
<1>14. ASSUME NEW r \in Requests, DbCommit(r)
       PROVE  TypeOK'
  BY <1>14 DEF DbCommit, server
<1>15. ASSUME NEW r \in Requests, DbAbort(r)
       PROVE  TypeOK'
  BY <1>15 DEF DbAbort, server
<1>16. ASSUME NEW r \in Requests, CommitReturns(r)
       PROVE  TypeOK'
  BY <1>16 DEF CommitReturns, Goto, Release, server
<1>17. ASSUME NEW r \in Requests, CommitRaises(r)
       PROVE  TypeOK'
  BY <1>17 DEF CommitRaises, Raise, server
<1>18. ASSUME NEW r \in Requests, Rollback(r)
       PROVE  TypeOK'
  BY <1>18 DEF Rollback, Goto, Release, server
<1>19. ASSUME NEW r \in Requests, Respond(r)
       PROVE  TypeOK'
  BY <1>19 DEF Respond, Goto, server
<1>20. ASSUME NEW w \in Workers, Crash(w)
       PROVE  TypeOK'
  BY <1>20 DEF Crash, Inflight
<1>21. ASSUME Restart
       PROVE  TypeOK'
  BY <1>21 DEF Restart
<1>22. CASE UNCHANGED vars
  BY <1>22 DEF vars
<1> QED
  BY <1>1, <1>2, <1>3, <1>4, <1>5, <1>6, <1>7, <1>8, <1>9, <1>10, <1>11, <1>12,
     <1>13, <1>14, <1>15, <1>16, <1>17, <1>18, <1>19, <1>20, <1>21, <1>22
  DEF Next, Progress, Failure, EmbedStep, ReadStep

\* Every step keeps the invariant: a statement or a COMMIT is sent only from
\* the await that sends it, a connection is taken at Checkout alone, a row
\* appears with its commit, and a coroutine that reaches its answer with a
\* success has seen that commit return.
LEMMA InvStep ==
  ASSUME TypeOK, IInv, [Next]_vars
  PROVE  IInv'
<1> USE RequestsAssumption
    DEF TypeOK, IInv, PhaseInv, ConnectionInv, DurableInv,
        SuccessIsDurable, RaisedInv, ReadInv, ReadsAreRegular, AnswerInv,
        TxnOpen, Running, Holding, Requests, Reads
<1>1. ASSUME NEW r \in Requests, NEW w \in Workers, Accept(r, w)
      PROVE  IInv'
  BY <1>1 DEF Accept, Goto
<1>2. ASSUME NEW r \in Requests, Refuse(r)
      PROVE  IInv'
  BY <1>2 DEF Refuse, HandlerRaises, Raise, server
<1>3. ASSUME NEW e \in Embeds, Prepare(e)
      PROVE  IInv'
  BY <1>3 DEF Prepare, Goto, server
<1>4. ASSUME NEW q \in Reads, Lookup(q)
      PROVE  IInv'
  BY <1>4 DEF Lookup, Goto, server
<1>5. ASSUME NEW r \in Requests, Checkout(r)
      PROVE  IInv'
  BY <1>5 DEF Checkout, Goto, server
<1>6. ASSUME NEW r \in Requests, CheckoutFails(r)
      PROVE  IInv'
  BY <1>6 DEF CheckoutFails, HandlerRaises, Raise, DatabaseError, server
<1>7. ASSUME NEW e \in Embeds, Insert(e)
      PROVE  IInv'
  BY <1>7 DEF Insert, Goto, server
<1>8. ASSUME NEW e \in Embeds, Refresh(e)
      PROVE  IInv'
  BY <1>8 DEF Refresh, Goto, server
<1>9. ASSUME NEW q \in Reads, Found(q)
      PROVE  IInv'
  BY <1>9 DEF Found, Goto, server
<1>10. ASSUME NEW q \in Reads, NotFound(q)
       PROVE  IInv'
  <2> USE <1>10 DEF NotFound, HandlerRaises, Raise, server
  <2>1. PhaseInv' /\ ConnectionInv'
    OBVIOUS
  <2>2. DurableInv' /\ RaisedInv'
    OBVIOUS
  <2>3. ReadInv' /\ AnswerInv'
    OBVIOUS
  <2> QED
    BY <2>1, <2>2, <2>3
<1>11. ASSUME NEW q \in Verifies, BadUpload(q)
       PROVE  IInv'
  BY <1>11 DEF BadUpload, HandlerRaises, Raise, server
<1>12. ASSUME NEW r \in Requests, StatementFails(r)
       PROVE  IInv'
  BY <1>12 DEF StatementFails, HandlerRaises, Raise, DatabaseError, server
<1>13. ASSUME NEW r \in Requests, SendCommit(r)
       PROVE  IInv'
  BY <1>13 DEF SendCommit, Goto, server
<1>14. ASSUME NEW r \in Requests, DbCommit(r)
       PROVE  IInv'
  BY <1>14 DEF DbCommit, server
<1>15. ASSUME NEW r \in Requests, DbAbort(r)
       PROVE  IInv'
  BY <1>15 DEF DbAbort, server
<1>16. ASSUME NEW r \in Requests, CommitReturns(r)
       PROVE  IInv'
  BY <1>16 DEF CommitReturns, Goto, Release, server
<1>17. ASSUME NEW r \in Requests, CommitRaises(r)
       PROVE  IInv'
  BY <1>17 DEF CommitRaises, Raise, server
<1>18. ASSUME NEW r \in Requests, Rollback(r)
       PROVE  IInv'
  BY <1>18 DEF Rollback, Goto, Release, server
<1>19. ASSUME NEW r \in Requests, Respond(r)
       PROVE  IInv'
  BY <1>19 DEF Respond, Goto, server
<1>20. ASSUME NEW w \in Workers, Crash(w)
       PROVE  IInv'
  BY <1>20 DEF Crash, Inflight
<1>21. ASSUME Restart
       PROVE  IInv'
  BY <1>21 DEF Restart
<1>22. CASE UNCHANGED vars
  BY <1>22 DEF vars
<1> QED
  BY <1>1, <1>2, <1>3, <1>4, <1>5, <1>6, <1>7, <1>8, <1>9, <1>10, <1>11, <1>12,
     <1>13, <1>14, <1>15, <1>16, <1>17, <1>18, <1>19, <1>20, <1>21, <1>22
  DEF Next, Progress, Failure, EmbedStep, ReadStep

-----------------------------------------------------------------------------
(* Theorems *)

LEMMA InitIInv == Init => TypeOK /\ IInv
<1> SUFFICES ASSUME Init
             PROVE  TypeOK /\ IInv
  OBVIOUS
<1> USE RequestsAssumption DEF Init
<1>1. TypeOK
  BY DEF TypeOK, Pcs, Txns, TxnOpen, Assets, Requests, Reads
<1>2. PhaseInv /\ ConnectionInv
  BY DEF PhaseInv, ConnectionInv, Running, Holding, TxnOpen
<1>3. DurableInv /\ RaisedInv
  BY DEF DurableInv, RaisedInv, SuccessIsDurable, Requests
<1>4. ReadInv /\ AnswerInv
  BY DEF ReadInv, ReadsAreRegular, AnswerInv, Requests, Reads
<1> QED
  BY <1>1, <1>2, <1>3, <1>4 DEF IInv

LEMMA NextIInv == TypeOK /\ IInv /\ [Next]_vars
                  => TypeOK' /\ IInv'
BY TypeStep, InvStep

\* The types and the inductive invariant hold in every reachable state.
THEOREM Invariance == Spec => [](TypeOK /\ IInv)
<1> DEFINE Inv == TypeOK /\ IInv
<1>1. Init => Inv
  BY InitIInv
<1>2. Inv /\ [Next]_vars => Inv'
  BY NextIInv
<1> QED
  BY <1>1, <1>2, PTL DEF Spec

\* Type correctness of the request coroutines, pools and transactions.
THEOREM TypeCorrect == Spec => []TypeOK
BY Invariance, PTL

\* get_db and register: a client told SUCCESS owns a committed row.
THEOREM SuccessDurable == Spec => []SuccessIsDurable
<1>1. IInv => SuccessIsDurable
  BY DEF IInv, DurableInv
<1> QED
  BY <1>1, Invariance, PTL

\* get_db's rollback: an embed whose handler raised never has a row.
THEOREM FailureAtomic == Spec => []FailureLeavesNoRow
<1>1. TypeOK /\ IInv => FailureLeavesNoRow
  BY RequestsAssumption
  DEF TypeOK, IInv, DurableInv, RaisedInv, FailureLeavesNoRow, Assets
<1> QED
  BY <1>1, Invariance, PTL

\* get_db's finally: whatever is checked out or open belongs to a request that
\* is still running in the same process.
THEOREM ConnectionsReturn == Spec => []NoLeak
<1>1. TypeOK /\ IInv => NoLeak
  <2> SUFFICES ASSUME TypeOK, ConnectionInv
               PROVE  NoLeak
    BY DEF IInv
  <2>1. ASSUME NEW w \in Workers, NEW r \in pool[w]
        PROVE  worker[r] = {w} /\ up[w] /\ pc[r] \in Holding \cup {"raising"}
    <3>1. r \in Requests
      BY DEF TypeOK
    <3>2. worker[r] = {w} /\ pc[r] \in Holding \cup {"raising"}
      BY DEF ConnectionInv
    <3>3. PICK v \in Workers : worker[r] = {v} /\ up[v]
      BY <3>1, <3>2 DEF ConnectionInv, Running
    <3> QED
      BY <3>2, <3>3
  <2>2. ASSUME NEW r \in Requests, txn[r] \in TxnOpen
        PROVE  \E w \in Workers : r \in pool[w]
    BY <2>2 DEF ConnectionInv
  <2> QED
    BY <2>1, <2>2 DEF NoLeak
<1> QED
  BY <1>1, Invariance, PTL

\* The public read routes: no 404 for a row committed before the request.
THEOREM ReadsRegular == Spec => []ReadsAreRegular
<1>1. IInv => ReadsAreRegular
  BY DEF IInv, ReadInv
<1> QED
  BY <1>1, Invariance, PTL

-----------------------------------------------------------------------------
(* LedgerRequests implements AtomicLedger: the initial states correspond, and
   each step is one step of the atomic ledger or leaves it alone. *)

\* The states whose invariants the step argument uses.
Reachable == TypeOK /\ IInv

\* The abstract ledger holds exactly the committed rows.
LEMMA RowsAgree == Reachable => Ledger!Rows = rows
BY RequestsAssumption
DEF Reachable, TypeOK, IInv, DurableInv, Ledger!Rows, Fate, Assets

\* A transaction that is open, or was never begun, has an open fate.
LEMMA OpenFate ==
  ASSUME Reachable, NEW e \in Embeds
  PROVE  /\ Fate(e) = "in"   <=> txn[e] = "committed"
         /\ Fate(e) = "out"  <=> txn[e] = "aborted"
         /\ Fate(e) = "open" <=> txn[e] \notin {"committed", "aborted"}
BY DEF Reachable, IInv, DurableInv, Fate

\* A step that commits and aborts nothing, starts no image request and
\* delivers no answer is invisible.
LEMMA Invisible ==
  ASSUME UNCHANGED <<rows, heard, atStart>>,
         \A e \in Embeds : txn'[e] = "aborted" <=> txn[e] = "aborted"
  PROVE  UNCHANGED Ledger!vars
BY DEF Ledger!vars, Fate

LEMMA InitRefines == Init => Ledger!Init
BY RequestsAssumption
DEF Init, Ledger!Init, Fate, Requests, Reads

\* An image request that arrives is asked; other arrivals are invisible.
LEMMA AcceptRefines ==
  ASSUME Reachable, NEW r \in Requests, NEW w \in Workers, Accept(r, w)
  PROVE  Ledger!Next \/ UNCHANGED Ledger!vars
<1>1. CASE r \in Images
  <2>1. atStart[r] = "unasked"
    BY <1>1 DEF Accept, Goto, Reachable, IInv, ReadInv, Reads
  <2>2. /\ [q \in Images |-> atStart[q]]' =
              [[q \in Images |-> atStart[q]] EXCEPT ![r] =
                 IF Asked[r] \in rows THEN "present" ELSE "absent"]
        /\ UNCHANGED <<rows, txn, heard>>
    BY <1>1 DEF Accept, Reads
  <2>3. Ledger!Ask(r)
    BY <1>1, <2>1, <2>2, RowsAgree DEF Ledger!Ask, Fate
  <2> QED
    BY <1>1, <2>3 DEF Ledger!Next
<1>2. CASE r \notin Images
  BY <1>2 DEF Accept, Ledger!vars, Fate, Reads
<1> QED
  BY <1>1, <1>2

\* The server's decision is the abstract one.
LEMMA DbCommitRefines ==
  ASSUME Reachable, NEW r \in Requests, DbCommit(r)
  PROVE  Ledger!Next \/ UNCHANGED Ledger!vars
<1>1. CASE r \in Embeds
  <2>1. Ledger!Register(r)
    BY <1>1, OpenFate DEF DbCommit, Ledger!Register, Fate, Reachable, TypeOK, Requests
  <2> QED
    BY <1>1, <2>1 DEF Ledger!Next
<1>2. CASE r \notin Embeds
  BY <1>2 DEF DbCommit, Ledger!vars, Fate
<1> QED
  BY <1>1, <1>2

\* Requests whose transactions become aborted are dropped, one or many.
LEMMA AbortRefines ==
  ASSUME Reachable, Reachable', NEW S \in SUBSET Embeds,
         UNCHANGED <<rows, heard, atStart>>,
         \A e \in S : Fate(e) = "open" /\ txn'[e] = "aborted",
         \A e \in Embeds \ S : txn'[e] = "aborted" <=> txn[e] = "aborted"
  PROVE  Ledger!Next
<1>1. \A e \in S : Fate(e)' = "out"
  BY DEF Fate
<1>2. \A e \in Embeds \ S : Fate(e)' = Fate(e)
  BY DEF Fate
<1>3. Ledger!Drop(S)
  BY <1>1, <1>2 DEF Ledger!Drop
<1> QED
  BY <1>3 DEF Ledger!Next

LEMMA CrashRefines ==
  ASSUME Reachable, Reachable', NEW w \in Workers, Crash(w)
  PROVE  Ledger!Next \/ UNCHANGED Ledger!vars
<1> DEFINE S == {e \in Embeds : /\ e \in Inflight(w)
                                /\ txn[e] \notin {"committing", "committed", "aborted"}}
<1>1. \A e \in S : Fate(e) = "open" /\ txn'[e] = "aborted"
  BY OpenFate DEF Crash, Requests
<1>2. \A e \in Embeds \ S : txn'[e] = "aborted" <=> txn[e] = "aborted"
  BY DEF Crash, Requests
<1> QED
  BY <1>1, <1>2, AbortRefines DEF Crash

LEMMA RollbackRefines ==
  ASSUME Reachable, Reachable', NEW r \in Requests, Rollback(r) \/ DbAbort(r)
  PROVE  Ledger!Next \/ UNCHANGED Ledger!vars
<1> DEFINE S == {e \in Embeds \cap {r} : txn'[e] = "aborted" /\ txn[e] # "aborted"}
<1>1. \A e \in S : Fate(e) = "open" /\ txn'[e] = "aborted"
  BY OpenFate DEF Rollback, DbAbort, Requests, Reachable, TypeOK
<1>2. \A e \in Embeds \ S : txn'[e] = "aborted" <=> txn[e] = "aborted"
  BY DEF Rollback, DbAbort, Requests, Reachable, TypeOK
<1> QED
  BY <1>1, <1>2, AbortRefines DEF Rollback, DbAbort

\* What a client hears is what the atomic ledger could have told it.
LEMMA RespondRefines ==
  ASSUME Reachable, NEW r \in Requests, Respond(r)
  PROVE  Ledger!Next \/ UNCHANGED Ledger!vars
<1> USE RequestsAssumption DEF Respond, Goto, Reachable, TypeOK, IInv, AnswerInv
<1>1. CASE UNCHANGED heard
  BY <1>1, Invisible
<1>2. CASE heard' = [heard EXCEPT ![r] = status[r]] /\ r \in Embeds
  <2>1. status[r] = "success" => Fate(r) = "in"
    BY <1>2 DEF DurableInv, SuccessIsDurable, Fate
  <2>2. Ledger!AnswerEmbed(r)
    BY <1>2, <2>1 DEF Ledger!AnswerEmbed, Fate, Requests, Reads
  <2> QED
    BY <1>2, <2>2 DEF Ledger!Next
<1>3. CASE heard' = [heard EXCEPT ![r] = status[r]] /\ r \in Images
  <2>1. /\ status[r] = "success" => Asked[r] \in Ledger!Rows
        /\ status[r] = "missing" => atStart[r] = "absent"
        /\ status[r] = "gone" => Asked[r] \in Legacy
        /\ status[r] \in {"success", "missing", "gone", "error"}
        /\ atStart[r] # "unasked"
    BY <1>3, RowsAgree DEF ReadInv, ReadsAreRegular, Reads, Requests, Responses
  <2>2. Ledger!AnswerLookup(r)
    BY <1>3, <2>1 DEF Ledger!AnswerLookup, Fate, Requests, Reads
  <2> QED
    BY <1>3, <2>2 DEF Ledger!Next
<1>4. CASE heard' = [heard EXCEPT ![r] = status[r]] /\ r \in Verifies
  BY <1>4 DEF Ledger!vars, Fate, Requests, Reads
<1> QED
  BY <1>1, <1>2, <1>3, <1>4 DEF Requests, Reads

\* Everything else the server does is invisible.
LEMMA OtherRefines ==
  ASSUME Reachable, NEW r \in Requests,
         \/ r \in Embeds /\ EmbedStep(r)
         \/ r \in Reads /\ ReadStep(r)
         \/ Refuse(r)
         \/ Checkout(r) \/ CheckoutFails(r) \/ StatementFails(r) \/ BadUpload(r)
         \/ SendCommit(r) \/ CommitReturns(r) \/ CommitRaises(r)
  PROVE  UNCHANGED Ledger!vars
<1>1. UNCHANGED <<rows, heard, atStart>>
  BY DEF Refuse, EmbedStep, Prepare, Insert, Refresh, ReadStep, Lookup, Found,
     NotFound, Checkout, CheckoutFails, StatementFails, BadUpload, SendCommit,
     CommitReturns, CommitRaises
<1>2. \/ UNCHANGED txn
      \/ Checkout(r) \/ SendCommit(r) \/ Insert(r)
  BY DEF Refuse, EmbedStep, Prepare, Refresh, ReadStep, Lookup, Found, NotFound,
     CheckoutFails, StatementFails, BadUpload, CommitReturns, CommitRaises
<1>3. Checkout(r) \/ SendCommit(r) \/ Insert(r) =>
        /\ txn[r] # "aborted"
        /\ \E t \in {"begun", "written", "committing"} : txn' = [txn EXCEPT ![r] = t]
  BY DEF Checkout, SendCommit, Insert, Goto, Reachable, IInv, PhaseInv, TxnOpen
<1>4. \A e \in Embeds : txn'[e] = "aborted" <=> txn[e] = "aborted"
  BY <1>2, <1>3 DEF Reachable, TypeOK, Requests
<1> QED
  BY <1>1, <1>4, Invisible

LEMMA NextRefines ==
  ASSUME Reachable, Reachable', [Next]_vars
  PROVE  Ledger!Next \/ UNCHANGED Ledger!vars
<1>1. CASE \E r \in Requests, w \in Workers : Accept(r, w)
  BY <1>1, AcceptRefines
<1>2. CASE \E r \in Requests : Progress(r) \/ Failure(r)
  BY <1>2, DbCommitRefines, RollbackRefines, RespondRefines, OtherRefines
  DEF Progress, Failure
<1>3. CASE \E w \in Workers : Crash(w)
  BY <1>3, CrashRefines
<1>4. CASE Restart \/ UNCHANGED vars
  BY <1>4, Invisible DEF Restart, vars
<1> QED
  BY <1>1, <1>2, <1>3, <1>4 DEF Next

\* The server with its crashes, broken connections and lost responses is, to
\* the clients of /watermark/embed and /asset/{id}/image, an atomic ledger.
THEOREM Refinement == Spec => ImplementsAtomicLedger
<1>1. Spec => []Reachable
  BY Invariance, PTL DEF Reachable
<1>2. Init => Ledger!Init
  BY InitRefines
<1>3. Reachable /\ Reachable' /\ [Next]_vars => [Ledger!Next]_Ledger!vars
  BY NextRefines
<1> QED
  BY <1>1, <1>2, <1>3, PTL DEF Spec, ImplementsAtomicLedger, Ledger!Spec

=============================================================================
