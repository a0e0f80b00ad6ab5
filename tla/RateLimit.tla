----------------------------- MODULE RateLimit -----------------------------
(* The slowapi limiter of app/core/rate_limit.py: a fixed window per route  *)
(* and client, counted in the memory of each worker process.                *)
EXTENDS Clock

CONSTANTS
    Workers,         \* the worker processes of the service
    Routes,          \* routes decorated with @limiter.limit
    ApiKeys,         \* the keys of settings.API_KEYS
    OtherKeys,       \* header values that are not among them
    NoKey,           \* no X-API-Key header
    Addresses,       \* remote addresses of clients
    Amount,          \* requests a route allows in a window
    Period           \* length of a window, in ticks

ASSUME RateAssumption ==
    /\ Amount \in [Routes -> Nat \ {0}]
    /\ Period \in Nat \ {0}
    /\ ApiKeys \cap OtherKeys = {}
    /\ NoKey \notin ApiKeys \cup OtherKeys

VARIABLES
    window,          \* per worker and bucket: the hits of the window and its end
    recent           \* history: the requests the running processes allowed
                     \* within the last Period

rateVars == <<window, recent>>

Headers == ApiKeys \cup OtherKeys \cup {NoKey}

\* The name the limiter counts a request under: a header names its sender,
\* whether or not it is a key, and only without one does the address.
KeyOf(address, header) ==
    IF header # NoKey THEN <<"key", header>> ELSE <<"ip", address>>

LimiterKeys == {KeyOf(a, h) : a \in Addresses, h \in Headers}

\* What has a counter: a route and a name.
Buckets == Routes \X LimiterKeys

Limit(b) == Amount[b[1]]

NoWindow == [hits |-> 0, ends |-> 0]

RateInit ==
    /\ window = [w \in Workers |-> [b \in Buckets |-> NoWindow]]
    /\ recent = [b \in Buckets |-> {}]

Allows(w, b) == window[w][b].hits < Limit(b)

\* Mutant: every hit moves the end of its window.
CountHitSliding(w, b) ==
    LET cur == window[w][b] IN
    [hits |-> IF Allows(w, b) THEN cur.hits + 1 ELSE cur.hits,
     ends |-> now + Period]

\* Mutant: the length of the window is taken in seconds.
CountHitTooLong(w, b) ==
    LET cur == window[w][b] IN
    [hits |-> IF Allows(w, b) THEN cur.hits + 1 ELSE cur.hits,
     ends |-> IF cur.hits = 0 THEN now + Period * TicksPerSecond ELSE cur.ends]

\* Only the first hit of a window says when it ends. A refused request is
\* counted as well, but nothing tells counts beyond the amount apart.
CountHit(w, b) ==
    LET cur == window[w][b] IN
    [hits |-> IF Allows(w, b) THEN cur.hits + 1 ELSE cur.hits,
     ends |-> IF cur.hits = 0 THEN now + Period ELSE cur.ends]

\* A request from this address is counted and, below the amount, allowed.
Hit(w, b, address) ==
    /\ window' = [window EXCEPT ![w][b] = CountHit(w, b)]
    /\ recent' =
         IF Allows(w, b)
         THEN [recent EXCEPT ![b] = @ \cup
                 {[at |-> now, worker |-> w, hit |-> window[w][b].hits + 1,
                   from |-> address]}]
         ELSE recent

\* Mutant: windows end one tick early.
DropEndedEarly(w, b) ==
    IF window[w][b].ends <= now' + 1 THEN NoWindow ELSE window[w][b]

\* The storage drops the counters of windows that have ended; the history
\* forgets what is a Period old.
DropEnded(w, b) == IF window[w][b].ends <= now' THEN NoWindow ELSE window[w][b]

RateTick ==
    /\ window' = [w \in Workers |-> [b \in Buckets |-> DropEnded(w, b)]]
    /\ recent' = [b \in Buckets |-> {e \in recent[b] : e.at + Period > now'}]

\* The processes are replaced, all at once: the counters start from nothing,
\* and what the dead processes allowed is no longer counted.
Forget ==
    /\ window' = [w \in Workers |-> [b \in Buckets |-> NoWindow]]
    /\ recent' = [b \in Buckets |-> {}]

=============================================================================
