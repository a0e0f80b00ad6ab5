--------------------------- MODULE LedgerRequests ---------------------------
(***************************************************************************)
(* The life of the HTTP requests that touch the ledger, in the deployed    *)
(* configuration: several uvicorn worker processes, one SQLAlchemy engine  *)
(* (and so one bounded connection pool) per process, one Postgres server.  *)
(*                                                                         *)
(*   Embeds    POST /watermark/embed      inserts one row                  *)
(*   Images    GET  /asset/{id}/image     reads one row                    *)
(*   Verifies  POST /forensics/verify/{id} reads one row, then computes    *)
(*                                                                         *)
(* Every request runs inside get_db: a session that commits when the       *)
(* handler returns, rolls back when it raises, and then closes.  An action *)
(* is what happens between two awaits of the coroutine, so the requests of *)
(* one worker interleave here exactly where the event loop may switch.     *)
(*                                                                         *)
(* The database server is modelled from how the code uses it: a statement  *)
(* sees what is committed, a COMMIT that was sent is decided by the server *)
(* on its own, and a connection that goes away aborts what it had open.    *)
(***************************************************************************)
EXTENDS Naturals, FiniteSets

CONSTANTS
    Embeds,     \* embed requests; an embed also names the row it inserts
    Images,     \* requests for the stored watermarked image
    Verifies,   \* verification requests
    Legacy,     \* rows that predate the watermarked_image column
    Workers,    \* uvicorn worker processes
    PoolCap,    \* DATABASE_POOL_SIZE + DATABASE_MAX_OVERFLOW of one engine
    Asked       \* Asked[q]: the asset the read request q asks for

Reads    == Images \cup Verifies
Requests == Embeds \cup Reads
Assets   == Embeds \cup Legacy

ASSUME RequestsAssumption ==
    /\ Embeds \cap Reads = {}
    /\ Images \cap Verifies = {}
    /\ Requests \cap Legacy = {}
    /\ Asked \in [Reads -> Assets]

ASSUME PoolAssumption == PoolCap \in Nat \ {0}

ASSUME WorkersAssumption == Workers # {} /\ IsFiniteSet(Requests)

VARIABLES
    up,        \* up[w]: the worker process runs
    pc,        \* pc[r]: where the coroutine of r is
    worker,    \* worker[r]: the processes that took r (none or one)
    pool,      \* pool[w]: the requests holding a connection of w's engine
    txn,       \* txn[r]: the transaction of r, at the server
    rows,      \* the committed rows of asset_provenance_ledger
    status,    \* status[r]: the response the coroutine is heading for
    heard,     \* heard[r]: the response the client received
    raised,    \* history: the requests whose handler raised
    atStart    \* history: was the row asked by q committed when q arrived?

vars == <<up, pc, worker, pool, txn, rows, status, heard, raised, atStart>>

server == <<up, worker>>            \* changed only by arrivals and crashes

-----------------------------------------------------------------------------
(* Where a coroutine can be.  Each name is the await (or the end) it is at. *)

Holding  == {"connected", "inserted", "returning", "committing"}
Running  == {"handling", "waiting", "raising", "answering"} \cup Holding
Settled  == {"done", "dead"}
Pcs      == {"idle"} \cup Running \cup Settled

TxnOpen  == {"begun", "written"}
Txns     == {"none", "committing", "committed", "aborted"} \cup TxnOpen

Responses == {"success", "missing", "gone", "error"}

\* Mutant: the exception reaches no handler that makes a response of it.
DatabaseErrorUnmapped(r) == IF r \in Verifies THEN "missing" ELSE "unmapped"

\* Mutant: every look-up that raises is reported as "not found".
DatabaseErrorNotFound(r) == IF r \in Embeds THEN "error" ELSE "missing"

\* The response of r when a call on the session raises.  verify() turns every
\* exception of its look-up into AssetNotFoundError; elsewhere it is a 500.
DatabaseError(r) == IF r \in Verifies THEN "missing" ELSE "error"

TypeOK ==
    /\ up \in [Workers -> BOOLEAN]
    /\ pc \in [Requests -> Pcs]
    /\ worker \in [Requests -> SUBSET Workers]
    /\ pool \in [Workers -> SUBSET Requests]
    /\ txn \in [Requests -> Txns]
    /\ rows \subseteq Assets
    /\ status \in [Requests -> Responses \cup {"none"}]
    /\ heard \in [Requests -> Responses \cup {"none"}]
    /\ raised \subseteq Requests
    /\ atStart \in [Reads -> {"unasked", "present", "absent"}]

Init ==
    /\ up = [w \in Workers |-> TRUE]
    /\ pc = [r \in Requests |-> "idle"]
    /\ worker = [r \in Requests |-> {}]
    /\ pool = [w \in Workers |-> {}]
    /\ txn = [r \in Requests |-> "none"]
    /\ rows = Legacy
    /\ status = [r \in Requests |-> "none"]
    /\ heard = [r \in Requests |-> "none"]
    /\ raised = {}
    /\ atStart = [q \in Reads |-> "unasked"]

-----------------------------------------------------------------------------
(* Helpers for the coroutine's moves *)

Goto(r, from, to) == pc[r] = from /\ pc' = [pc EXCEPT ![r] = to]

\* An exception reaches get_db, whose except branch runs next.
Raise(r, response) ==
    /\ pc' = [pc EXCEPT ![r] = "raising"]
    /\ status' = [status EXCEPT ![r] = response]

\* It came from the handler, or from a dependency that needs the session.
HandlerRaises(r, response) == Raise(r, response) /\ raised' = raised \cup {r}

\* The session gives its connection back to the engine's pool.
Release(r) == pool' = [w \in Workers |-> pool[w] \ {r}]

-----------------------------------------------------------------------------
(* Handler *)

\* A worker takes the request; the get_db dependency creates the session,
\* which holds no connection until its first statement.
Accept(r, w) ==
    /\ up[w]
    /\ Goto(r, "idle", "handling")
    /\ worker' = [worker EXCEPT ![r] = {w}]
    /\ atStart' = [q \in Reads |->
                     IF q # r THEN atStart[q]
                     ELSE IF Asked[q] \in rows THEN "present" ELSE "absent"]
    /\ UNCHANGED <<up, pool, txn, rows, status, heard, raised>>

\* A 4xx before any statement: API key, challenge, rate limit, bad or empty
\* upload, undecodable image, image too small for the payload.
Refuse(r) ==
    /\ pc[r] = "handling"
    /\ HandlerRaises(r, "error")
    /\ UNCHANGED <<server, pool, txn, rows, heard, atStart>>

\* embed_and_register up to the flush: decode, watermark, hash, commit to the
\* payload, build the C2PA manifest, encode the PNG.  It has no await and needs
\* no database; what its steps write and can fail at is in Evidence.
Prepare(e) ==
    /\ Goto(e, "handling", "waiting")
    /\ UNCHANGED <<server, pool, txn, rows, status, heard, raised, atStart>>

\* A read handler reaches ledger.get_by_id.
Lookup(q) ==
    /\ Goto(q, "handling", "waiting")
    /\ UNCHANGED <<server, pool, txn, rows, status, heard, raised, atStart>>

-----------------------------------------------------------------------------
(* Connection pool and statements *)

RoomFor(r) == \A w \in worker[r] : Cardinality(pool[w]) < PoolCap

\* The session's first statement checks a connection out and begins.
Checkout(r) ==
    /\ RoomFor(r)
    /\ Goto(r, "waiting", "connected")
    /\ pool' = [w \in Workers |->
                  IF w \in worker[r] THEN pool[w] \cup {r} ELSE pool[w]]
    /\ txn' = [txn EXCEPT ![r] = "begun"]
    /\ UNCHANGED <<server, rows, status, heard, raised, atStart>>

\* No connection within the pool's timeout, or no server to connect to.
CheckoutFails(r) ==
    /\ pc[r] = "waiting"
    /\ HandlerRaises(r, DatabaseError(r))
    /\ UNCHANGED <<server, pool, txn, rows, heard, atStart>>

\* register: session.flush() sends the INSERT.
Insert(e) ==
    /\ Goto(e, "connected", "inserted")
    /\ txn' = [txn EXCEPT ![e] = "written"]
    /\ UNCHANGED <<server, pool, rows, status, heard, raised, atStart>>

\* register: session.refresh() reads the row back; the handler returns 200.
Refresh(e) ==
    /\ Goto(e, "inserted", "returning")
    /\ status' = [status EXCEPT ![e] = "success"]
    /\ UNCHANGED <<server, pool, txn, rows, heard, raised, atStart>>

\* Mutant: the look-up sees rows that are not committed.
FoundDirty(q) ==
    /\ Asked[q] \in rows \cup {e \in Embeds : txn[e] = "written"}
    /\ q \in Images => Asked[q] \notin Legacy
    /\ Goto(q, "connected", "returning")
    /\ status' = [status EXCEPT ![q] = "success"]
    /\ UNCHANGED <<server, pool, txn, rows, heard, raised, atStart>>

\* get_by_id finds a row and the handler returns 200.
Found(q) ==
    /\ Asked[q] \in rows
    /\ q \in Images => Asked[q] \notin Legacy
    /\ Goto(q, "connected", "returning")
    /\ status' = [status EXCEPT ![q] = "success"]
    /\ UNCHANGED <<server, pool, txn, rows, heard, raised, atStart>>

\* Mutant: a row without an image is reported like one that is not there.
NotFoundOrGone(q) ==
    /\ pc[q] = "connected"
    /\ \/ Asked[q] \notin rows
       \/ Asked[q] \in rows \cap Legacy /\ q \in Images
    /\ HandlerRaises(q, "missing")
    /\ UNCHANGED <<server, pool, txn, rows, heard, atStart>>

\* get_by_id returns None, or a row without an image, and the handler raises.
NotFound(q) ==
    /\ pc[q] = "connected"
    /\ \/ Asked[q] \notin rows /\ HandlerRaises(q, "missing")
       \/ Asked[q] \in rows \cap Legacy /\ q \in Images /\ HandlerRaises(q, "gone")
    /\ UNCHANGED <<server, pool, txn, rows, heard, atStart>>

\* verify decodes the upload after the look-up, and the upload is no image.
BadUpload(q) ==
    /\ pc[q] = "connected"
    /\ Asked[q] \in rows
    /\ HandlerRaises(q, "error")
    /\ UNCHANGED <<server, pool, txn, rows, heard, atStart>>

\* A statement raises: constraint or width violated, connection lost.
StatementFails(r) ==
    /\ pc[r] \in {"connected", "inserted"}
    /\ HandlerRaises(r, DatabaseError(r))
    /\ UNCHANGED <<server, pool, txn, rows, heard, atStart>>

-----------------------------------------------------------------------------
(* get_db after the handler: commit, or roll back and re-raise *)

\* await session.commit(): COMMIT goes to the server.
SendCommit(r) ==
    /\ Goto(r, "returning", "committing")
    /\ txn' = [txn EXCEPT ![r] = "committing"]
    /\ UNCHANGED <<server, pool, rows, status, heard, raised, atStart>>

\* The server decides the COMMIT; it does not matter who still listens.
DbCommit(r) ==
    /\ txn[r] = "committing"
    /\ txn' = [txn EXCEPT ![r] = "committed"]
    /\ rows' = IF r \in Embeds THEN rows \cup {r} ELSE rows
    /\ UNCHANGED <<server, pc, pool, status, heard, raised, atStart>>

DbAbort(r) ==
    /\ txn[r] = "committing"
    /\ txn' = [txn EXCEPT ![r] = "aborted"]
    /\ UNCHANGED <<server, pc, pool, rows, status, heard, raised, atStart>>

\* Mutant: the commit is not awaited.
CommitReturnsEarly(r) ==
    /\ Goto(r, "committing", "answering")
    /\ Release(r)
    /\ UNCHANGED <<server, txn, rows, status, heard, raised, atStart>>

\* Mutant: the session is committed but never closed.
CommitReturnsUnclosed(r) ==
    /\ txn[r] = "committed"
    /\ Goto(r, "committing", "answering")
    /\ UNCHANGED <<server, pool, txn, rows, status, heard, raised, atStart>>

\* session.commit() returns: the connection is back in the pool.
CommitReturns(r) ==
    /\ txn[r] = "committed"
    /\ Goto(r, "committing", "answering")
    /\ Release(r)
    /\ UNCHANGED <<server, txn, rows, status, heard, raised, atStart>>

\* session.commit() raises: the server aborted, or the connection broke
\* before its answer arrived, whatever that answer was or will be.
CommitRaises(r) ==
    /\ pc[r] = "committing"
    /\ Raise(r, "error")
    /\ UNCHANGED <<server, pool, txn, rows, heard, raised, atStart>>

\* Mutant: the commit is in the finally branch.
RollbackCommits(r) ==
    /\ Goto(r, "raising", "answering")
    /\ Release(r)
    /\ txn' = [txn EXCEPT ![r] = IF @ \in TxnOpen THEN "committing" ELSE @]
    /\ UNCHANGED <<server, rows, status, heard, raised, atStart>>

\* Mutant: the session is neither rolled back nor closed.
RollbackLeaks(r) ==
    /\ Goto(r, "raising", "answering")
    /\ UNCHANGED <<server, pool, txn, rows, status, heard, raised, atStart>>

\* except: await session.rollback(); raise; finally: await session.close().
\* A COMMIT already sent cannot be rolled back.
Rollback(r) ==
    /\ Goto(r, "raising", "answering")
    /\ Release(r)
    /\ txn' = [txn EXCEPT ![r] =
                 IF @ \in {"committing", "committed"} THEN @ ELSE "aborted"]
    /\ UNCHANGED <<server, rows, status, heard, raised, atStart>>

\* The response is sent after the dependency has exited.  The client may be
\* gone by then (Velo gives up after 60 s).
Respond(r) ==
    /\ Goto(r, "answering", "done")
    /\ \/ heard' = [heard EXCEPT ![r] = status[r]]
       \/ UNCHANGED heard
    /\ UNCHANGED <<server, pool, txn, rows, status, raised, atStart>>

-----------------------------------------------------------------------------
(* Worker processes *)

Inflight(w) == {r \in Requests : pc[r] \in Running /\ w \in worker[r]}

\* The process dies.  The server aborts the transactions of its connections;
\* a COMMIT on the wire is still decided by DbCommit or DbAbort.
Crash(w) ==
    /\ up[w]
    /\ up' = [up EXCEPT ![w] = FALSE]
    /\ pc' = [r \in Requests |-> IF r \in Inflight(w) THEN "dead" ELSE pc[r]]
    /\ pool' = [pool EXCEPT ![w] = {}]
    /\ txn' = [r \in Requests |->
                 IF r \in Inflight(w) /\ txn[r] \notin {"committing", "committed"}
                 THEN "aborted" ELSE txn[r]]
    /\ UNCHANGED <<worker, rows, status, heard, raised, atStart>>

\* The platform starts the service again.  The supervisor of the pinned uvicorn
\* replaces no dead worker, so the processes come back together; lifespan's
\* create_all finds the table in place.
Restart ==
    /\ \A w \in Workers : ~up[w]
    /\ up' = [w \in Workers |-> TRUE]
    /\ UNCHANGED <<pc, worker, pool, txn, rows, status, heard, raised, atStart>>

-----------------------------------------------------------------------------
(* Specification *)

EmbedStep(e) == Prepare(e) \/ Insert(e) \/ Refresh(e)
ReadStep(q)  == Lookup(q) \/ Found(q) \/ NotFound(q)

\* Nothing fails: what the scheduler and the server owe every request.
Progress(r) ==
    \/ r \in Embeds /\ EmbedStep(r)
    \/ r \in Reads /\ ReadStep(r)
    \/ Checkout(r) \/ SendCommit(r) \/ DbCommit(r) \/ CommitReturns(r)
    \/ txn[r] = "aborted" /\ CommitRaises(r)
    \/ Rollback(r) \/ Respond(r)

\* Something goes wrong: possible at any time, owed to nobody.
Failure(r) ==
    \/ Refuse(r) \/ CheckoutFails(r) \/ StatementFails(r)
    \/ r \in Verifies /\ BadUpload(r)
    \/ DbAbort(r) \/ CommitRaises(r)

Next ==
    \/ \E r \in Requests, w \in Workers : Accept(r, w)
    \/ \E r \in Requests : Progress(r) \/ Failure(r)
    \/ \E w \in Workers : Crash(w)
    \/ Restart

Spec == Init /\ [][Next]_vars

\* The event loop runs every ready coroutine, and the server answers.
Fairness == \A r \in Requests : WF_vars(Progress(r))

FairSpec == Spec /\ Fairness

-----------------------------------------------------------------------------
(* Properties *)

\* A client told SUCCESS owns a committed row, and so does every coroutine
\* past its commit: the response is built before the commit, sent after it.
SuccessIsDurable ==
    \A e \in Embeds :
        \/ heard[e] = "success"
        \/ status[e] = "success" /\ pc[e] \in {"answering", "done"}
        => e \in rows

\* get_db "rolls back on exception": an embed whose handler raised, at whatever
\* step, has no row and gets none later.  (Only an exception of the commit
\* itself may hide a row behind an error.)
FailureLeavesNoRow == rows \cap raised = {}

\* No error path keeps a connection or leaves a transaction open: whatever is
\* checked out belongs to a running request of that very process.
NoLeak ==
    /\ \A w \in Workers : \A r \in pool[w] :
          worker[r] = {w} /\ up[w] /\ pc[r] \in Holding \cup {"raising"}
    /\ \A r \in Requests :
          txn[r] \in TxnOpen => \E w \in Workers : r \in pool[w]

\* GET /asset/{id}/image never answers 404 for a row that was committed when
\* the request arrived, in particular not right after its embed's SUCCESS,
\* and never shows a row that could still be rolled back.
ReadsAreRegular ==
    /\ \A q \in Images  : status[q] = "missing" => atStart[q] = "absent"
    /\ \A q \in Reads   : status[q] = "success" => Asked[q] \in rows

\* The same of the 404 of every read route, /forensics/verify included.
NotFoundMeansAbsent ==
    \A q \in Reads : status[q] = "missing" => atStart[q] = "absent"

\* Every accepted request is settled: with one connection per session there
\* is no hold-and-wait in the pool, and every path returns its connection.
EveryRequestSettles ==
    \A r \in Requests : pc[r] \in Running ~> pc[r] \in Settled

=============================================================================
