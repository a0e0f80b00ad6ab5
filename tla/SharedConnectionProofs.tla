----------------------- MODULE SharedConnectionProofs -----------------------
(***************************************************************************)
(* One request at a time, the shared connection implements AtomicLedger.   *)
(* The invariant says whose rows the open transaction holds: nobody's but  *)
(* the one running request's own, which is why nothing else can end it.    *)
(***************************************************************************)
EXTENDS SharedConnection, FiniteSetTheorems, TLAPS

\* At most one request is under way.
SerialInv == \A r, s \in InFlight : r = s

\* The open transaction holds the row of a running embed, and all of it.
FlushedInv ==
    /\ \A e \in flushed : pc[e] \in {"inserted", "returning", "raising"}
    /\ \A e \in Embeds : pc[e] \in {"inserted", "returning"} => e \in flushed

\* A row is committed exactly when its request got past its commit.
CommittedInv ==
    \A e \in Embeds :
        /\ e \in rows => pc[e] \in {"closing", "answering", "done"} /\ status[e] = "success"
        /\ pc[e] \in {"closing", "answering", "done"} /\ status[e] = "success" => e \in rows

StatusInv ==
    \A r \in Requests :
        /\ pc[r] \in {"idle", "handling", "inserted"} <=> status[r] = "none"
        /\ pc[r] = "returning" => status[r] = "success"
        /\ pc[r] = "raising" => status[r] # "success"
        /\ r \in Embeds => status[r] # "missing"
        /\ r \in Lookups => pc[r] # "inserted"

LookupInv ==
    \A q \in Lookups :
        /\ pc[q] = "idle" <=> atStart[q] = "unasked"
        /\ atStart[q] = "present" => Asked[q] \in rows
        /\ status[q] = "success" => Asked[q] \in rows
        /\ status[q] = "missing" => atStart[q] = "absent"

IInv == SerialInv /\ FlushedInv /\ CommittedInv /\ StatusInv /\ LookupInv

Reachable == TypeOK /\ IInv

-----------------------------------------------------------------------------
(* The invariant *)

\* A request is only taken when none is under way.
LEMMA AcceptedAlone ==
  ASSUME MaxInFlight = 1, NEW r \in Requests, Accept(r)
  PROVE  InFlight = {}
<1>1. IsFiniteSet(InFlight)
  BY SharedAssumption, FS_Subset DEF InFlight
<1>2. Cardinality(InFlight) = 0
  BY <1>1, FS_CardinalityType DEF Accept
<1> QED
  BY <1>1, <1>2, FS_EmptySet

LEMMA InitReachable == Init => Reachable
BY SharedAssumption
DEF Init, Reachable, TypeOK, IInv, SerialInv, FlushedInv, CommittedInv,
    StatusInv, LookupInv, InFlight, Requests

LEMMA NextTypeOK == TypeOK /\ [Next]_vars => TypeOK'
BY SharedAssumption
DEF TypeOK, Next, vars, Accept, Refuse, Insert, Refresh, Lookup, StatementFails,
    Commit, CommitFails, Rollback, Close, Respond, Goto, Answer, Requests

\* The steps of a request that is under way: it stays the only one.
Continues(r) ==
    \/ Refuse(r) \/ StatementFails(r)
    \/ Commit(r) \/ CommitFails(r) \/ Rollback(r) \/ Close(r) \/ Respond(r)
    \/ r \in Embeds  /\ (Insert(r) \/ Refresh(r))
    \/ r \in Lookups /\ Lookup(r)

LEMMA ContinuesAlone ==
  ASSUME Reachable, NEW r \in Requests, Continues(r)
  PROVE  /\ InFlight = {r}
         /\ InFlight' \subseteq {r}
         /\ \A s \in Requests \ {r} :
               pc[s] \in {"idle", "done"} /\ pc'[s] = pc[s] /\ status'[s] = status[s]
         /\ UNCHANGED atStart
<1>1. pc[r] \notin {"idle", "done"}
  BY DEF Continues, Refuse, StatementFails, Commit, CommitFails, Rollback, Close,
         Respond, Insert, Refresh, Lookup, Goto
<1>2. InFlight = {r}
  BY <1>1 DEF Reachable, IInv, SerialInv, InFlight
<1>3. /\ \A s \in Requests \ {r} : pc'[s] = pc[s] /\ status'[s] = status[s]
      /\ UNCHANGED atStart
  BY DEF Reachable, TypeOK, Continues, Refuse, StatementFails, Commit, CommitFails,
         Rollback, Close, Respond, Insert, Refresh, Lookup, Goto, Answer
<1> QED
  BY <1>2, <1>3 DEF InFlight

\* Nobody else's row is in the transaction that r commits or ends.
LEMMA FlushedIsOwn ==
  ASSUME Reachable, NEW r \in Requests, InFlight = {r}
  PROVE  flushed \subseteq {r}
BY DEF Reachable, TypeOK, IInv, FlushedInv, InFlight, Requests

LEMMA NextIInv ==
  ASSUME MaxInFlight = 1, Reachable, Reachable => TypeOK', [Next]_vars
  PROVE  IInv'
<1>1. ASSUME NEW r \in Requests, Accept(r)
      PROVE  IInv'
  <2>1. InFlight = {} /\ InFlight' \subseteq {r}
    BY <1>1, AcceptedAlone DEF Accept, Goto, InFlight, Reachable, TypeOK
  <2>2. SerialInv' /\ FlushedInv' /\ CommittedInv' /\ StatusInv'
    BY <1>1, <2>1 DEF Accept, Goto, Reachable, TypeOK, IInv, SerialInv, FlushedInv,
       CommittedInv, StatusInv, Requests
  <2>3. LookupInv'
    BY <1>1 DEF Accept, Goto, Reachable, TypeOK, IInv, StatusInv, LookupInv, Requests
  <2> QED
    BY <2>2, <2>3 DEF IInv
<1>2. ASSUME NEW r \in Requests, Continues(r)
      PROVE  IInv'
  <2> DEFINE Others == Requests \ {r}
  <2>1. /\ InFlight' \subseteq {r}
        /\ \A s \in Others :
              pc[s] \in {"idle", "done"} /\ pc'[s] = pc[s] /\ status'[s] = status[s]
        /\ UNCHANGED atStart
    BY <1>2, ContinuesAlone
  <2>2. flushed \subseteq {r}
    BY <1>2, ContinuesAlone, FlushedIsOwn
  <2>3. SerialInv'
    BY <2>1 DEF SerialInv
  <2>4. FlushedInv' /\ CommittedInv' /\ StatusInv'
    BY <1>2, <2>1, <2>2, SharedAssumption
    DEF Continues, Refuse, StatementFails, Commit, CommitFails, Rollback, Close,
        Respond, Insert, Refresh, Lookup, Goto, Answer, Reachable, TypeOK, IInv,
        FlushedInv, CommittedInv, StatusInv, Requests
  <2>5. LookupInv'
    BY <1>2, <2>1, <2>2, SharedAssumption
    DEF Continues, Refuse, StatementFails, Commit, CommitFails, Rollback, Close,
        Respond, Insert, Refresh, Lookup, Goto, Answer, Reachable, TypeOK, IInv,
        FlushedInv, StatusInv, LookupInv, Requests
  <2> QED
    BY <2>3, <2>4, <2>5 DEF IInv
<1>3. ASSUME UNCHANGED vars
      PROVE  IInv'
  BY <1>3 DEF vars, Reachable, IInv, SerialInv, FlushedInv, CommittedInv, StatusInv,
     LookupInv, InFlight
<1> QED
  BY <1>1, <1>2, <1>3 DEF Next, Continues, Requests

\* Requests made one at a time keep the open transaction to themselves.
THEOREM SerialInvariance ==
  ASSUME MaxInFlight = 1
  PROVE  Spec => []Reachable
<1>1. Init => Reachable
  BY InitReachable
<1>2. Reachable /\ [Next]_vars => Reachable'
  BY NextTypeOK, NextIInv DEF Reachable
<1> QED
  BY <1>1, <1>2, PTL DEF Spec

-----------------------------------------------------------------------------
(* The refinement *)

LEMMA InitRefines == Init => Ledger!Init
BY SharedAssumption DEF Init, Ledger!Init, Fate, Requests

\* The abstract ledger holds exactly the committed rows.
LEMMA RowsAgree == Reachable => Ledger!Rows = rows
BY DEF Reachable, TypeOK, Ledger!Rows, Fate

LEMMA AcceptRefines ==
  ASSUME Reachable, NEW r \in Requests, Accept(r)
  PROVE  Ledger!Next \/ UNCHANGED Ledger!vars
<1>1. UNCHANGED <<[e \in Embeds |-> Fate(e)],
                  [s \in Requests |-> IF pc[s] = "done" THEN status[s] ELSE "none"]>>
  BY DEF Accept, Goto, Fate, Reachable, TypeOK, Requests
<1>2. CASE r \in Lookups
  <2>1. /\ atStart[r] = "unasked"
        /\ atStart' = [atStart EXCEPT ![r] =
                         IF Asked[r] \in Ledger!Rows THEN "present" ELSE "absent"]
    BY <1>2, RowsAgree DEF Accept, Goto, Reachable, TypeOK, IInv, LookupInv
  <2>2. Ledger!Ask(r)
    BY <1>1, <2>1 DEF Ledger!Ask
  <2> QED
    BY <1>2, <2>2 DEF Ledger!Next
<1>3. CASE r \notin Lookups
  <2>1. UNCHANGED atStart
    BY <1>3 DEF Accept, Reachable, TypeOK
  <2> QED
    BY <1>1, <2>1 DEF Ledger!vars
<1> QED
  BY <1>2, <1>3

\* A running embed whose commit goes through gets its row.
LEMMA CommitRefines ==
  ASSUME Reachable, NEW r \in Requests, Commit(r)
  PROVE  Ledger!Next \/ UNCHANGED Ledger!vars
<1>1. /\ flushed \subseteq {r}
      /\ UNCHANGED <<atStart, [s \in Requests |-> IF pc[s] = "done" THEN status[s] ELSE "none"]>>
  <2>1. flushed \subseteq {r}
    BY ContinuesAlone, FlushedIsOwn DEF Continues
  <2> QED
    BY <2>1 DEF Commit, Goto, Reachable, TypeOK
<1>2. CASE r \in Embeds
  <2>1. r \in flushed /\ Fate(r) = "open"
    BY <1>2 DEF Commit, Goto, Fate, Reachable, IInv, FlushedInv, CommittedInv
  <2>2. [e \in Embeds |-> Fate(e)]' = [[e \in Embeds |-> Fate(e)] EXCEPT ![r] = "in"]
    BY <1>1, <1>2, <2>1 DEF Commit, Goto, Fate, Reachable, TypeOK, Requests
  <2>3. Ledger!Register(r)
    BY <1>1, <1>2, <2>1, <2>2 DEF Ledger!Register
  <2> QED
    BY <1>2, <2>3 DEF Ledger!Next
<1>3. CASE r \notin Embeds
  <2>1. flushed = {}
    BY <1>1, <1>3 DEF Reachable, TypeOK
  <2>2. UNCHANGED [e \in Embeds |-> Fate(e)]
    BY <1>3, <2>1 DEF Commit, Goto, Fate, Reachable, TypeOK, Requests
  <2> QED
    BY <1>1, <2>2 DEF Ledger!vars
<1> QED
  BY <1>2, <1>3

\* An embed that raises, or is refused, is dropped at that moment.
LEMMA RaiseRefines ==
  ASSUME Reachable, NEW r \in Requests, pc[r] \in {"handling", "inserted", "returning"},
         pc' = [pc EXCEPT ![r] = "raising"] \/ pc' = [pc EXCEPT ![r] = "answering"],
         UNCHANGED <<rows, atStart>>,
         \E response \in {"missing", "error"} : Answer(r, response)
  PROVE  Ledger!Next
<1> DEFINE S == Embeds \cap {r}
<1>1. UNCHANGED <<atStart, [s \in Requests |-> IF pc[s] = "done" THEN status[s] ELSE "none"]>>
  BY DEF Answer, Reachable, TypeOK
<1>2. /\ \A e \in S : Fate(e) = "open" /\ Fate(e)' = "out"
      /\ \A e \in Embeds \ S : Fate(e)' = Fate(e)
  BY DEF Fate, Reachable, TypeOK, IInv, CommittedInv, Requests
<1>3. Ledger!Drop(S)
  BY <1>1, <1>2 DEF Ledger!Drop
<1> QED
  BY <1>3 DEF Ledger!Next

\* The response is one the atomic ledger could give.
LEMMA RespondRefines ==
  ASSUME Reachable, NEW r \in Requests, Respond(r)
  PROVE  Ledger!Next
<1> DEFINE answer == [s \in Requests |-> IF pc[s] = "done" THEN status[s] ELSE "none"]
<1>1. /\ answer[r] = "none"
      /\ answer' = [answer EXCEPT ![r] = status[r]]
      /\ UNCHANGED <<[e \in Embeds |-> Fate(e)], atStart>>
  BY DEF Respond, Goto, Fate, Reachable, TypeOK, Requests
<1>2. status[r] \in {"success", "missing", "error"}
  BY DEF Respond, Goto, Reachable, TypeOK, IInv, StatusInv
<1>3. CASE r \in Embeds
  <2>1. status[r] = "success" => Fate(r) = "in"
    BY <1>3 DEF Respond, Goto, Fate, Reachable, IInv, CommittedInv
  <2>2. Ledger!AnswerEmbed(r)
    BY <1>1, <1>2, <1>3, <2>1 DEF Ledger!AnswerEmbed, Reachable, IInv, StatusInv
  <2> QED
    BY <1>3, <2>2 DEF Ledger!Next
<1>4. CASE r \in Lookups
  <2>1. /\ status[r] = "success" => Asked[r] \in Ledger!Rows
        /\ status[r] = "missing" => atStart[r] = "absent"
        /\ atStart[r] # "unasked"
    BY <1>4, RowsAgree DEF Respond, Goto, Reachable, IInv, LookupInv
  <2>2. Ledger!AnswerLookup(r)
    BY <1>1, <1>2, <1>4, <2>1 DEF Ledger!AnswerLookup
  <2> QED
    BY <1>4, <2>2 DEF Ledger!Next
<1> QED
  BY <1>3, <1>4 DEF Requests

\* The remaining steps change nothing that a client or the database keeps.
LEMMA InnerRefines ==
  ASSUME Reachable, NEW r \in Requests,
         \/ r \in Embeds /\ Goto(r, "handling", "inserted")
         \/ pc[r] \in {"handling", "inserted"} /\ pc' = [pc EXCEPT ![r] = "returning"]
         \/ Goto(r, "raising", "closing") \/ Goto(r, "closing", "answering"),
         UNCHANGED <<rows, atStart>>,
         UNCHANGED status \/ Answer(r, "success")
  PROVE  UNCHANGED Ledger!vars
BY DEF Goto, Answer, Reachable, TypeOK, IInv, CommittedInv, Ledger!vars, Fate, Requests

LEMMA NextRefines ==
  ASSUME Reachable, [Next]_vars
  PROVE  Ledger!Next \/ UNCHANGED Ledger!vars
<1>1. ASSUME NEW r \in Requests, Accept(r)
      PROVE  Ledger!Next \/ UNCHANGED Ledger!vars
  BY <1>1, AcceptRefines
<1>2. ASSUME NEW r \in Requests, Continues(r)
      PROVE  Ledger!Next \/ UNCHANGED Ledger!vars
  <2>1. CASE Refuse(r) \/ StatementFails(r) \/ CommitFails(r)
    BY <2>1, RaiseRefines DEF Refuse, StatementFails, CommitFails, Goto
  <2>2. CASE Commit(r)
    BY <2>2, CommitRefines
  <2>3. CASE Respond(r)
    BY <2>3, RespondRefines
  <2>4. CASE Rollback(r) \/ Close(r)
    BY <2>4, InnerRefines DEF Rollback, Close
  <2>5. CASE r \in Embeds /\ (Insert(r) \/ Refresh(r))
    BY <2>5, InnerRefines, RaiseRefines DEF Insert, Refresh, Goto
  <2>6. CASE r \in Lookups /\ Lookup(r)
    BY <2>6, InnerRefines, RaiseRefines DEF Lookup, Goto
  <2> QED
    BY <1>2, <2>1, <2>2, <2>3, <2>4, <2>5, <2>6 DEF Continues
<1>3. CASE UNCHANGED vars
  BY <1>3 DEF vars, Ledger!vars, Fate
<1> QED
  BY <1>1, <1>2, <1>3 DEF Next, Continues, Requests

\* With SQLite's one connection, requests made one at a time, as the tests
\* make them, find an atomic ledger, however many they are.
THEOREM SerialRefinement ==
  ASSUME MaxInFlight = 1
  PROVE  Spec => ImplementsAtomicLedger
<1>1. Spec => []Reachable
  BY SerialInvariance
<1>2. Init => Ledger!Init
  BY InitRefines
<1>3. Reachable /\ [Next]_vars => [Ledger!Next]_Ledger!vars
  BY NextRefines
<1> QED
  BY <1>1, <1>2, <1>3, PTL DEF Spec, ImplementsAtomicLedger, Ledger!Spec

=============================================================================
