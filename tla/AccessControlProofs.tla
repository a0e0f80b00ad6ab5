------------------------ MODULE AccessControlProofs ------------------------
(***************************************************************************)
(* Proofs about AccessControl, for any number of workers, clients, keys,    *)
(* accounts and secrets.  That a refusal is deserved needs to know what the *)
(* counter of a window stands for: WindowInv says that each of its hits is  *)
(* an allowed request the history still holds.  What an accepted challenge  *)
(* says rests on IssuedInv: a token is what its account, its instant and    *)
(* the secret make it.                                                       *)
(***************************************************************************)
EXTENDS AccessControl, FiniteSetTheorems, SequenceTheorems, TLAPS

\* A worker's open window ends later than now, and the history holds each
\* request it allowed.
WindowInv ==
    \A w \in Workers, b \in Buckets :
        window[w][b].hits > 0 =>
            /\ window[w][b].ends > now
            /\ \A i \in 1..window[w][b].hits :
                  \E e \in recent[b] :
                      /\ e.hit = i
                      /\ e.worker = w
                      /\ e.at + Period >= window[w][b].ends

\* A challenge is what its account, its instant and its secret make it.
IssuedInv ==
    \A i \in issued :
        /\ i.at \in 0..now
        /\ i.account \in Accounts
        /\ i.secret \in Secrets
        /\ \E n \in Nonces :
              i.token = [nonce |-> n, iat |-> Seconds(i.at),
                         exp |-> Seconds(i.at) + TTL,
                         mac |-> Mac(i.secret, i.account, n, Seconds(i.at), TTL)]

IInv == TypeOK /\ WindowInv /\ IssuedInv

-----------------------------------------------------------------------------
(* Whole seconds *)

\* What truncation to whole seconds keeps of an instant.
LEMMA SecondsBounds ==
    ASSUME NEW t \in Nat
    PROVE  /\ Seconds(t) \in Nat
           /\ Seconds(t) * TicksPerSecond <= t
           /\ t < Seconds(t) * TicksPerSecond + TicksPerSecond
  BY ClockAssumption DEF Seconds

\* Seconds do not pass backwards, and n seconds later is n seconds more.
LEMMA SecondsLater ==
    ASSUME NEW t \in Nat, NEW u \in Nat, NEW n \in Nat,
           u <= t + n * TicksPerSecond
    PROVE  Seconds(u) <= Seconds(t) + n
  <1> DEFINE su == Seconds(u)
             st == Seconds(t)
             d == TicksPerSecond
  <1>1. d \in Nat \ {0} BY ClockAssumption
  <1>2. /\ su \in Nat /\ st \in Nat
        /\ su * d <= u /\ t < st * d + d
    BY SecondsBounds
  <1> HIDE DEF su, st, d
  <1>3. su * d < (st + n + 1) * d
    <2>1. (st + n + 1) * d = st * d + n * d + d BY <1>1, <1>2
    <2>2. u <= t + n * d BY DEF d
    <2> QED BY <1>1, <1>2, <2>1, <2>2
  <1>4. su < st + n + 1
    <2> SUFFICES ASSUME st + n + 1 <= su PROVE FALSE BY <1>2
    <2>1. (st + n + 1) * d <= su * d BY <1>1, <1>2
    <2> QED BY <1>1, <1>2, <1>3, <2>1
  <1> QED BY <1>2, <1>4 DEF su, st

\* Conversely, at most n seconds more is less than n + 1 seconds later.
LEMMA SecondsEarlier ==
    ASSUME NEW t \in Nat, NEW u \in Nat, NEW n \in Nat,
           Seconds(u) <= Seconds(t) + n
    PROVE  u < t + (n + 1) * TicksPerSecond
  <1> DEFINE su == Seconds(u)
             st == Seconds(t)
             d == TicksPerSecond
  <1>1. d \in Nat \ {0} BY ClockAssumption
  <1>2. /\ su \in Nat /\ st \in Nat
        /\ u < su * d + d /\ st * d <= t
    BY SecondsBounds
  <1>3. su <= st + n OBVIOUS
  <1> HIDE DEF su, st, d
  <1>4. su * d <= (st + n) * d BY <1>1, <1>2, <1>3
  <1>5. (st + n) * d + d = st * d + (n + 1) * d BY <1>1, <1>2
  <1>6. u < t + (n + 1) * d BY <1>1, <1>2, <1>4, <1>5
  <1> QED BY <1>6 DEF d


-----------------------------------------------------------------------------
(* The limiter *)

\* Every bucket has a limit, and every request a bucket.
LEMMA LimitType ==
    ASSUME NEW b \in Buckets
    PROVE  Limit(b) \in Nat \ {0}
  BY RateAssumption DEF Limit, Buckets

LEMMA BucketType ==
    ASSUME NEW r \in Routes, NEW a \in Addresses, NEW h \in Headers
    PROVE  <<r, KeyOf(a, h)>> \in Buckets
  BY DEF Buckets, LimiterKeys

\* A hit keeps the counters typed and the history of every window complete.
LEMMA HitKeeps ==
    ASSUME NEW w \in Workers, NEW b \in Buckets, NEW address \in Addresses,
           TypeOK, WindowInv, Hit(w, b, address), UNCHANGED now
    PROVE  /\ window' \in [Workers -> [Buckets -> [hits : Nat, ends : Nat]]]
           /\ \A v \in Workers, c \in Buckets :
                 /\ window'[v][c].hits <= Limit(c)
                 /\ window'[v][c].ends <= now + Period
           /\ recent' \in [Buckets -> SUBSET Allowance]
           /\ WindowInv'
  <1> DEFINE cur == window[w][b]
             new == CountHit(w, b)
  <1>1. /\ now \in Nat /\ Period \in Nat \ {0}
        /\ cur \in [hits : Nat, ends : Nat]
        /\ cur.hits <= Limit(b) /\ cur.ends <= now + Period
    BY RateAssumption DEF TypeOK
  <1>2. Limit(b) \in Nat \ {0} BY LimitType
  <1>3. /\ new \in [hits : Nat, ends : Nat]
        /\ new.hits <= Limit(b) /\ new.ends <= now + Period
        /\ new.hits = IF cur.hits < Limit(b) THEN cur.hits + 1 ELSE cur.hits
        /\ new.ends = IF cur.hits = 0 THEN now + Period ELSE cur.ends
    BY <1>1, <1>2 DEF CountHit, Allows
  <1>4. /\ window' \in [Workers -> [Buckets -> [hits : Nat, ends : Nat]]]
        /\ window'[w][b] = new
        /\ \A v \in Workers, c \in Buckets :
              v # w \/ c # b => window'[v][c] = window[v][c]
    <2>1. window' = [window EXCEPT ![w][b] = new] BY DEF Hit
    <2>2. window \in [Workers -> [Buckets -> [hits : Nat, ends : Nat]]] BY DEF TypeOK
    <2> HIDE DEF new
    <2> QED BY <2>1, <2>2, <1>3
  <1>5. \A v \in Workers, c \in Buckets :
          /\ window'[v][c].hits <= Limit(c)
          /\ window'[v][c].ends <= now + Period
    <2> HIDE DEF new
    <2> TAKE v \in Workers, c \in Buckets
    <2>1. CASE v = w /\ c = b BY <1>3, <1>4, <2>1
    <2>2. CASE v # w \/ c # b
      <3>1. window'[v][c] = window[v][c] BY <1>4, <2>2
      <3> QED BY <3>1 DEF TypeOK
    <2> QED BY <2>1, <2>2
  <1> DEFINE ent == [at |-> now, worker |-> w, hit |-> cur.hits + 1,
                    from |-> address]
  <1>6. recent' \in [Buckets -> SUBSET Allowance]
    <2>1. ent \in Allowance BY <1>1 DEF Allowance
    <2>2. recent' = IF Allows(w, b) THEN [recent EXCEPT ![b] = @ \cup {ent}] ELSE recent
      BY DEF Hit
    <2> HIDE DEF ent
    <2> QED BY <2>1, <2>2 DEF TypeOK
  <1>7. /\ \A c \in Buckets : recent[c] \subseteq recent'[c]
        /\ cur.hits < Limit(b) => ent \in recent'[b]
    <2>1. recent' = IF cur.hits < Limit(b)
                   THEN [recent EXCEPT ![b] = @ \cup {ent}] ELSE recent
      BY DEF Hit, Allows
    <2>2. recent \in [Buckets -> SUBSET Allowance] BY DEF TypeOK
    <2> HIDE DEF ent, cur
    <2> QED BY <2>1, <2>2
  <1>8. WindowInv'
    <2> SUFFICES ASSUME NEW v \in Workers, NEW c \in Buckets,
                        window'[v][c].hits > 0
                 PROVE  /\ window'[v][c].ends > now
                        /\ \A i \in 1..window'[v][c].hits :
                              \E e \in recent'[c] :
                                  /\ e.hit = i
                                  /\ e.worker = v
                                  /\ e.at + Period >= window'[v][c].ends
      BY DEF WindowInv
    <2>1. CASE v # w \/ c # b
      <3>1. window'[v][c] = window[v][c] BY <1>4, <2>1
      <3> QED BY <3>1, <1>7 DEF WindowInv
    <2>2. CASE v = w /\ c = b
      <3> HIDE DEF new
      <3>1. window'[v][c] = new BY <1>4, <2>2
      <3>2. cur.hits > 0 => cur.ends > now BY DEF WindowInv
      <3>3. new.ends > now BY <1>1, <1>3, <3>2
      <3>4. ASSUME NEW i \in 1..new.hits
            PROVE  \E e \in recent'[b] :
                       e.hit = i /\ e.worker = w /\ e.at + Period >= new.ends
        <4>1. CASE i <= cur.hits
          <5>1. new.ends = cur.ends BY <1>1, <1>3, <4>1
          <5>2. PICK e \in recent[b] :
                    e.hit = i /\ e.worker = w /\ e.at + Period >= cur.ends
            BY <1>1, <4>1 DEF WindowInv
          <5> QED BY <5>1, <5>2, <1>7
        <4>2. CASE ~(i <= cur.hits)
          <5>1. i = cur.hits + 1 /\ cur.hits < Limit(b) BY <1>1, <1>2, <1>3, <4>2
          <5>2. ent \in recent'[b] BY <5>1, <1>7
          <5>3. ent.hit = i /\ ent.worker = w /\ ent.at + Period >= new.ends
            BY <1>1, <1>3, <5>1
          <5> HIDE DEF ent
          <5> QED BY <5>2, <5>3
        <4> QED BY <4>1, <4>2
      <3> QED BY <3>1, <3>3, <3>4, <2>2
    <2> QED BY <2>1, <2>2
  <1> QED BY <1>4, <1>5, <1>6, <1>8

\* Time drops only windows that have ended and allowances that are a Period old.
LEMMA TickKeeps ==
    ASSUME TypeOK, WindowInv, Tick, RateTick
    PROVE  /\ window' \in [Workers -> [Buckets -> [hits : Nat, ends : Nat]]]
           /\ \A w \in Workers, b \in Buckets :
                 /\ window'[w][b].hits <= Limit(b)
                 /\ window'[w][b].ends <= now' + Period
           /\ recent' \in [Buckets -> SUBSET Allowance]
           /\ WindowInv'
  <1>1. /\ now \in Nat /\ now' = now + 1 /\ Period \in Nat \ {0}
    BY RateAssumption, ClockAssumption DEF TypeOK, Tick
  <1>2. \A w \in Workers, b \in Buckets :
          /\ window'[w][b] = IF window[w][b].ends <= now' THEN NoWindow ELSE window[w][b]
          /\ window[w][b] \in [hits : Nat, ends : Nat]
          /\ window'[w][b] \in [hits : Nat, ends : Nat]
    BY DEF RateTick, DropEnded, NoWindow, TypeOK
  <1>3. window' \in [Workers -> [Buckets -> [hits : Nat, ends : Nat]]]
    BY <1>2 DEF RateTick
  <1>4. \A w \in Workers, b \in Buckets :
          /\ window'[w][b].hits <= Limit(b)
          /\ window'[w][b].ends <= now' + Period
    <2> TAKE w \in Workers, b \in Buckets
    <2>1. window[w][b].hits <= Limit(b) /\ window[w][b].ends <= now + Period
      BY DEF TypeOK
    <2>2. Limit(b) \in Nat BY LimitType
    <2> QED BY <1>1, <1>2, <2>1, <2>2 DEF NoWindow
  <1>5. \A b \in Buckets : recent'[b] = {e \in recent[b] : e.at + Period > now'}
    BY DEF RateTick
  <1>6. recent' \in [Buckets -> SUBSET Allowance]
    <2>1. \A b \in Buckets : recent'[b] \in SUBSET Allowance BY <1>5 DEF TypeOK
    <2> QED BY <2>1 DEF RateTick
  <1>7. WindowInv'
    <2> SUFFICES ASSUME NEW w \in Workers, NEW b \in Buckets,
                        window'[w][b].hits > 0
                 PROVE  /\ window'[w][b].ends > now'
                        /\ \A i \in 1..window'[w][b].hits :
                              \E e \in recent'[b] :
                                  /\ e.hit = i
                                  /\ e.worker = w
                                  /\ e.at + Period >= window'[w][b].ends
      BY DEF WindowInv
    <2>1. window'[w][b] = window[w][b] /\ ~(window[w][b].ends <= now')
      BY <1>2 DEF NoWindow
    <2>2. window[w][b].ends \in Nat BY <1>2
    <2>3. window[w][b].ends > now' BY <1>1, <2>1, <2>2
    <2>4. ASSUME NEW i \in 1..window[w][b].hits
          PROVE  \E e \in recent'[b] :
                     /\ e.hit = i
                     /\ e.worker = w
                     /\ e.at + Period >= window[w][b].ends
      <3>1. PICK e \in recent[b] :
                e.hit = i /\ e.worker = w /\ e.at + Period >= window[w][b].ends
        BY <2>1, <2>4 DEF WindowInv
      <3>2. e.at \in Nat BY DEF TypeOK, Allowance
      <3>3. e \in recent'[b] BY <1>1, <1>5, <2>2, <2>3, <3>1, <3>2
      <3> QED BY <3>1, <3>3
    <2> QED BY <2>1, <2>3, <2>4
  <1> QED BY <1>3, <1>4, <1>6, <1>7

\* Replaced processes take their counters and their allowances with them.
LEMMA ForgetKeeps ==
    ASSUME TypeOK, Forget, UNCHANGED now
    PROVE  /\ window' \in [Workers -> [Buckets -> [hits : Nat, ends : Nat]]]
           /\ \A w \in Workers, b \in Buckets :
                 /\ window'[w][b].hits <= Limit(b)
                 /\ window'[w][b].ends <= now + Period
           /\ recent' \in [Buckets -> SUBSET Allowance]
           /\ WindowInv'
  <1>1. now \in Nat /\ Period \in Nat \ {0}
    BY RateAssumption, ClockAssumption DEF TypeOK
  <1>2. /\ window' = [w \in Workers |-> [b \in Buckets |-> NoWindow]]
        /\ recent' = [b \in Buckets |-> {}]
    BY DEF Forget
  <1>3. NoWindow \in [hits : Nat, ends : Nat] /\ NoWindow.hits = 0 /\ NoWindow.ends = 0
    BY DEF NoWindow
  <1> HIDE DEF NoWindow
  <1>4. \A w \in Workers, b \in Buckets : window'[w][b] = NoWindow BY <1>2
  <1>5. \A b \in Buckets : Limit(b) \in Nat BY LimitType
  <1>6. window' \in [Workers -> [Buckets -> [hits : Nat, ends : Nat]]] BY <1>2, <1>3
  <1>7. recent' \in [Buckets -> SUBSET Allowance] BY <1>2
  <1>8. \A w \in Workers, b \in Buckets :
          /\ window'[w][b].hits <= Limit(b)
          /\ window'[w][b].ends <= now + Period
    BY <1>1, <1>3, <1>4, <1>5
  <1>9. WindowInv' BY <1>3, <1>4 DEF WindowInv
  <1> QED BY <1>6, <1>7, <1>8, <1>9

-----------------------------------------------------------------------------
(* The inductive invariant *)

LEMMA VerdictType ==
    ASSUME NEW account, NEW token
    PROVE  Verdict(account, token) \in {200, 401, 500}
  BY DEF Verdict

LEMMA InitIInv == Init => IInv
  <1> SUFFICES ASSUME Init PROVE IInv OBVIOUS
  <1>1. /\ window = [w \in Workers |-> [b \in Buckets |-> NoWindow]]
        /\ recent = [b \in Buckets |-> {}]
        /\ now = 0 /\ issued = {} /\ secret \in Secrets /\ redeploys = 0 /\ reply = 0
    BY DEF Init, RateInit, ChallengeInit, NoReply
  <1>2. NoWindow \in [hits : Nat, ends : Nat] /\ NoWindow.hits = 0 /\ NoWindow.ends = 0
    BY DEF NoWindow
  <1> HIDE DEF NoWindow
  <1>3. \A w \in Workers, b \in Buckets : window[w][b] = NoWindow BY <1>1
  <1>4. \A b \in Buckets : Limit(b) \in Nat BY LimitType
  <1>5. TypeOK
    <2>1. window \in [Workers -> [Buckets -> [hits : Nat, ends : Nat]]] BY <1>1, <1>2
    <2>2. recent \in [Buckets -> SUBSET Allowance] BY <1>1
    <2>3. \A w \in Workers, b \in Buckets :
            window[w][b].hits <= Limit(b) /\ window[w][b].ends <= now + Period
      BY <1>1, <1>2, <1>3, <1>4, RateAssumption
    <2> QED
      BY <1>1, <2>1, <2>2, <2>3, ClockAssumption, AccessAssumption DEF TypeOK
  <1>6. WindowInv BY <1>2, <1>3 DEF WindowInv
  <1>7. IssuedInv BY <1>1 DEF IssuedInv
  <1> QED BY <1>5, <1>6, <1>7 DEF IInv

\* The challenges are as they were, and it is not earlier.
LEMMA IssuedKeeps ==
    ASSUME TypeOK, IssuedInv, issued' = issued, now' \in Nat, now <= now'
    PROVE  IssuedInv'
  <1>1. \A i \in issued : i.at \in 0..now' BY ClockAssumption DEF IssuedInv, TypeOK
  <1> QED BY <1>1 DEF IssuedInv

LEMMA IssueKeeps ==
    ASSUME NEW account \in Accounts, NEW nonce \in Nonces,
           TypeOK, IssuedInv, Issue(account, nonce), UNCHANGED now
    PROVE  IssuedInv'
  <1>1. now \in Nat BY ClockAssumption DEF TypeOK
  <1> SUFFICES ASSUME NEW i \in issued'
               PROVE  /\ i.at \in 0..now
                      /\ i.account \in Accounts
                      /\ i.secret \in Secrets
                      /\ \E n \in Nonces :
                            i.token = [nonce |-> n, iat |-> Seconds(i.at),
                                       exp |-> Seconds(i.at) + TTL,
                                       mac |-> Mac(i.secret, i.account, n,
                                                   Seconds(i.at), TTL)]
    BY DEF IssuedInv, Seconds, Mac
  <1>2. CASE i \in issued BY <1>2 DEF IssuedInv
  <1>3. CASE i \notin issued
    <2>1. i = [token |-> NewToken(account, nonce), account |-> account,
               secret |-> secret, at |-> now]
      BY <1>3 DEF Issue
    <2> QED BY <1>1, <2>1 DEF NewToken, TypeOK
  <1> QED BY <1>2, <1>3

\* A request that reaches the limiter.
LEMMA LimitedKeeps ==
    ASSUME NEW w \in Workers, NEW b \in Buckets, NEW address \in Addresses,
           IInv, Limited(w, b, address), UNCHANGED <<now, challengeVars, redeploys>>
    PROVE  IInv'
  <1>1. TypeOK /\ WindowInv /\ IssuedInv BY DEF IInv
  <1>2. Hit(w, b, address) /\ reply' \in {200, 429} BY DEF Limited
  <1>3. now' = now /\ issued' = issued /\ secret' = secret /\ redeploys' = redeploys
    BY DEF challengeVars
  <1>4. TypeOK' /\ WindowInv'
    <2>1. /\ window' \in [Workers -> [Buckets -> [hits : Nat, ends : Nat]]]
          /\ \A v \in Workers, c \in Buckets :
                /\ window'[v][c].hits <= Limit(c)
                /\ window'[v][c].ends <= now + Period
          /\ recent' \in [Buckets -> SUBSET Allowance]
          /\ WindowInv'
      BY <1>1, <1>2, <1>3, HitKeeps
    <2> QED BY <1>1, <1>2, <1>3, <2>1 DEF TypeOK
  <1>5. IssuedInv'
    BY <1>1, <1>3, IssuedKeeps, ClockAssumption DEF TypeOK
  <1> QED BY <1>4, <1>5 DEF IInv

\* A request that is answered without reaching the limiter or issuing anything.
LEMMA AnsweredKeeps ==
    ASSUME IInv, UNCHANGED <<now, rateVars, challengeVars, redeploys>>,
           reply' \in {0, 200, 401, 422, 429, 500}
    PROVE  IInv'
  <1>1. /\ now' = now /\ window' = window /\ recent' = recent /\ secret' = secret
        /\ issued' = issued /\ redeploys' = redeploys
    BY DEF rateVars, challengeVars
  <1>2. TypeOK /\ WindowInv /\ IssuedInv BY DEF IInv
  <1>3. TypeOK' BY <1>1, <1>2 DEF TypeOK
  <1>4. WindowInv' BY <1>1, <1>2 DEF WindowInv
  <1>5. IssuedInv' BY <1>1, <1>2, IssuedKeeps, ClockAssumption DEF TypeOK
  <1> QED BY <1>3, <1>4, <1>5 DEF IInv

LEMMA StepIInv == IInv /\ [Next]_vars => IInv'
  <1> SUFFICES ASSUME IInv, [Next]_vars PROVE IInv' OBVIOUS
  <1>1. TypeOK /\ WindowInv /\ IssuedInv BY DEF IInv
  <1>2. now \in Nat /\ Period \in Nat /\ MaxTicks \in Nat /\ MaxRedeploys \in Nat
    BY <1>1, ClockAssumption, RateAssumption, AccessAssumption DEF TypeOK
  <1>3. ASSUME NEW w \in Workers, NEW a \in Addresses, NEW h \in Headers,
               NEW complete \in BOOLEAN, Embed(w, a, h, complete)
        PROVE  IInv'
    <2>1. CASE h \in ApiKeys /\ complete
      <3> DEFINE b == <<"embed", KeyOf(a, h)>>
      <3>1. b \in Buckets BY AccessAssumption, BucketType
      <3>2. Limited(w, b, a) /\ UNCHANGED <<now, challengeVars, redeploys>>
        BY <1>3, <2>1 DEF Embed, KeyAccepted
      <3> HIDE DEF b
      <3> QED BY <3>1, <3>2, LimitedKeeps
    <2>2. CASE ~(h \in ApiKeys /\ complete)
      <3>1. reply' \in {401, 422} /\ UNCHANGED rateVars
        BY <1>3, <2>2 DEF Embed, KeyAccepted
      <3>2. UNCHANGED <<now, challengeVars, redeploys>> BY <1>3 DEF Embed
      <3> QED BY <3>1, <3>2, AnsweredKeeps
    <2> QED BY <2>1, <2>2
  <1>4. ASSUME NEW w \in Workers, NEW r \in PublicRoutes, NEW a \in Addresses,
               NEW h \in Headers, GetPublic(w, r, a, h)
        PROVE  IInv'
    <2> DEFINE b == <<r, KeyOf(a, h)>>
    <2>1. b \in Buckets BY AccessAssumption, BucketType
    <2>2. Limited(w, b, a) /\ UNCHANGED <<now, challengeVars, redeploys>>
      BY <1>4 DEF GetPublic
    <2> HIDE DEF b
    <2> QED BY <2>1, <2>2, LimitedKeeps
  <1>5. ASSUME NEW h \in Headers, NEW acc \in Accounts \cup {NoHeader},
               NEW n \in Nonces, AskChallenge(h, acc, n)
        PROVE  IInv'
    <2>1. CASE h \in ApiKeys /\ acc # NoHeader
      <3>1. acc \in Accounts BY <2>1
      <3>2. /\ Issue(acc, n) /\ reply' = 200
            /\ UNCHANGED <<now, rateVars, redeploys>>
        BY <1>5, <2>1 DEF AskChallenge, KeyAccepted
      <3>3. IssuedInv' BY <1>1, <3>1, <3>2, IssueKeeps
      <3>4. secret' = secret BY <3>2 DEF Issue
      <3>5. TypeOK' /\ WindowInv'
        BY <1>1, <3>2, <3>4 DEF TypeOK, WindowInv, rateVars
      <3> QED BY <3>3, <3>5 DEF IInv
    <2>2. CASE ~(h \in ApiKeys /\ acc # NoHeader)
      <3>1. reply' \in {401, 422} /\ UNCHANGED challengeVars
        BY <1>5, <2>2 DEF AskChallenge, KeyAccepted
      <3>2. UNCHANGED <<now, rateVars, redeploys>> BY <1>5 DEF AskChallenge
      <3> QED BY <3>1, <3>2, AnsweredKeeps
    <2> QED BY <2>1, <2>2
  <1>6. ASSUME NEW h \in Headers, NEW acc \in Accounts \cup {NoHeader},
               NEW t \in Presentable \cup {NoHeader, Malformed}, Verify(h, acc, t)
        PROVE  IInv'
    <2>1. Verdict(acc, t) \in {200, 401, 500} BY VerdictType
    <2>2. reply' \in {401, 422, Verdict(acc, t)} BY <1>6 DEF Verify
    <2>3. UNCHANGED <<now, rateVars, challengeVars, redeploys>> BY <1>6 DEF Verify
    <2> QED BY <2>1, <2>2, <2>3, AnsweredKeeps
  <1>7. ASSUME TimePasses PROVE IInv'
    <2>1. /\ Tick /\ RateTick /\ reply' = 0
          /\ issued' = issued /\ secret' = secret /\ redeploys' = redeploys
      BY <1>7 DEF TimePasses, challengeVars, NoReply
    <2>2. now' = now + 1 /\ now' \in 0..MaxTicks BY <1>2, <2>1 DEF Tick
    <2>3. TypeOK' /\ WindowInv'
      <3>1. /\ window' \in [Workers -> [Buckets -> [hits : Nat, ends : Nat]]]
            /\ \A w \in Workers, b \in Buckets :
                  /\ window'[w][b].hits <= Limit(b)
                  /\ window'[w][b].ends <= now' + Period
            /\ recent' \in [Buckets -> SUBSET Allowance]
            /\ WindowInv'
        BY <1>1, <2>1, TickKeeps
      <3> QED BY <1>1, <2>1, <2>2, <3>1
            DEF TypeOK
    <2>4. IssuedInv' BY <1>1, <1>2, <2>1, <2>2, IssuedKeeps
    <2> QED BY <2>3, <2>4 DEF IInv
  <1>8. ASSUME NEW s \in Secrets, Redeploy(s) PROVE IInv'
    <2>1. /\ Forget /\ now' = now /\ issued' = issued /\ redeploys < MaxRedeploys
          /\ redeploys' = redeploys + 1 /\ secret' = s /\ reply' = 0
      BY <1>8 DEF Redeploy, NoReply
    <2>2. TypeOK' /\ WindowInv'
      <3>1. /\ window' \in [Workers -> [Buckets -> [hits : Nat, ends : Nat]]]
            /\ \A w \in Workers, b \in Buckets :
                  /\ window'[w][b].hits <= Limit(b)
                  /\ window'[w][b].ends <= now + Period
            /\ recent' \in [Buckets -> SUBSET Allowance]
            /\ WindowInv'
        BY <1>1, <2>1, ForgetKeeps
      <3>2. redeploys' \in 0..MaxRedeploys BY <1>1, <1>2, <2>1 DEF TypeOK
      <3> QED BY <1>1, <2>1, <3>1, <3>2 DEF TypeOK
    <2>3. IssuedInv' BY <1>1, <1>2, <2>1, IssuedKeeps
    <2> QED BY <2>2, <2>3 DEF IInv
  <1>9. CASE UNCHANGED vars
    <2>1. UNCHANGED <<now, rateVars, challengeVars, redeploys>> /\ reply' = reply
      BY <1>9 DEF vars, rateVars, challengeVars
    <2>2. reply \in {0, 200, 401, 422, 429, 500} BY <1>1 DEF TypeOK
    <2> QED BY <2>1, <2>2, AnsweredKeeps
  <1> QED BY <1>3, <1>4, <1>5, <1>6, <1>7, <1>8, <1>9 DEF Next

THEOREM InductiveInvariant == Spec => []IInv
  BY InitIInv, StepIInv, PTL DEF Spec

-----------------------------------------------------------------------------
(* What follows from it *)

\* The models' variables keep their types: AccessControl's type invariant holds
\* of every run of the service, whatever its workers, clients and keys.
THEOREM TypeCorrect == Spec => []TypeOK
  <1>1. IInv => TypeOK BY DEF IInv
  <1> QED BY <1>1, InductiveInvariant, PTL

\* The fields of an issued token.
LEMMA TokenFields ==
    ASSUME TypeOK, IssuedInv, NEW i \in issued
    PROVE  /\ i.at \in Nat
           /\ i.token.iat = Seconds(i.at)
           /\ i.token.exp = Seconds(i.at) + TTL
           /\ i.token.iat \in Nat /\ i.token.exp \in Nat
           /\ i.token.mac = Mac(i.secret, i.account, i.token.nonce, Seconds(i.at), TTL)
           /\ i.token = [nonce |-> i.token.nonce, iat |-> i.token.iat,
                         exp |-> i.token.exp, mac |-> i.token.mac]
           /\ i.token.nonce \in Nonces
  <1>1. PICK n \in Nonces :
            i.token = [nonce |-> n, iat |-> Seconds(i.at),
                       exp |-> Seconds(i.at) + TTL,
                       mac |-> Mac(i.secret, i.account, n, Seconds(i.at), TTL)]
    BY DEF IssuedInv
  <1>2. i.at \in Nat BY ClockAssumption DEF TypeOK, IssuedInv
  <1>3. Seconds(i.at) \in Nat /\ TTL \in Nat BY <1>2, SecondsBounds, ChallengeAssumption
  <1> DEFINE s == Seconds(i.at)
             m == Mac(i.secret, i.account, n, s, TTL)
  <1>4. i.token = [nonce |-> n, iat |-> s, exp |-> s + TTL, mac |-> m] BY <1>1
  <1> HIDE DEF s, m
  <1>5. /\ i.token.nonce = n /\ i.token.iat = s /\ i.token.exp = s + TTL
        /\ i.token.mac = m
    BY <1>4
  <1>6. i.token = [nonce |-> i.token.nonce, iat |-> i.token.iat,
                   exp |-> i.token.exp, mac |-> i.token.mac]
    BY <1>4, <1>5
  <1> QED BY <1>2, <1>3, <1>5, <1>6 DEF s, m

\* No name is refused before a process allowed it the whole amount within a
\* Period: what WindowInv says of a full counter.
THEOREM RefusalsDeserved == Spec => []RefusedOnlyAtLimit
  <1>1. ASSUME IInv PROVE RefusedOnlyAtLimit
    <2> SUFFICES ASSUME NEW w \in Workers, NEW b \in Buckets, ~Allows(w, b),
                        NEW i \in 1..Limit(b)
                 PROVE  \E e \in recent[b] :
                            e.hit = i /\ e.worker = w /\ e.at + Period > now
      BY DEF RefusedOnlyAtLimit
    <2>1. TypeOK /\ WindowInv BY <1>1 DEF IInv
    <2>2. Limit(b) \in Nat \ {0} BY LimitType
    <2>3. /\ window[w][b].hits \in Nat /\ window[w][b].ends \in Nat
          /\ ~(window[w][b].hits < Limit(b)) /\ window[w][b].hits <= Limit(b)
      BY <2>1 DEF TypeOK, Allows
    <2>4. window[w][b].hits = Limit(b) BY <2>2, <2>3
    <2>5. window[w][b].ends > now BY <2>1, <2>2, <2>4 DEF WindowInv
    <2>6. PICK e \in recent[b] :
              e.hit = i /\ e.worker = w /\ e.at + Period >= window[w][b].ends
      BY <2>1, <2>2, <2>4 DEF WindowInv
    <2>7. e.at \in Nat /\ Period \in Nat /\ now \in Nat
      BY <2>1, ClockAssumption, RateAssumption DEF TypeOK, Allowance
    <2> QED BY <2>3, <2>5, <2>6, <2>7
  <1> QED BY <1>1, InductiveInvariant, PTL

\* Two texts cut at their first separators are cut alike.
LEMMA CutAtFirst ==
    ASSUME NEW S, NEW a \in Seq(S), NEW b \in Seq(S), NEW m \in Seq(S), NEW n \in Seq(S),
           Separator \in S, Joined(a, m) = Joined(b, n),
           ~HasSeparator(a), ~HasSeparator(b)
    PROVE  a = b /\ m = n
  <1> DEFINE J == Joined(a, m)
  <1>1. /\ Len(J) = Len(a) + 1 + Len(m) /\ Len(J) = Len(b) + 1 + Len(n)
        /\ Len(a) \in Nat /\ Len(b) \in Nat /\ Len(m) \in Nat /\ Len(n) \in Nat
    BY DEF Joined
  <1>2. /\ \A k \in 1..Len(a) : J[k] = a[k] /\ a[k] # Separator
        /\ J[Len(a) + 1] = Separator
        /\ \A k \in 1..Len(m) : J[Len(a) + 1 + k] = m[k]
    BY DEF Joined, HasSeparator
  <1>3. /\ \A k \in 1..Len(b) : J[k] = b[k] /\ b[k] # Separator
        /\ J[Len(b) + 1] = Separator
        /\ \A k \in 1..Len(n) : J[Len(b) + 1 + k] = n[k]
    <2>1. J = b \o <<Separator>> \o n BY DEF Joined
    <2> HIDE DEF J
    <2> QED BY <2>1 DEF HasSeparator
  <1> HIDE DEF J
  <1>4. Len(a) = Len(b)
    <2>1. ~(Len(a) < Len(b))
      <3> SUFFICES ASSUME Len(a) < Len(b) PROVE FALSE OBVIOUS
      <3>1. Len(a) + 1 \in 1..Len(b) BY <1>1
      <3> QED BY <1>2, <1>3, <3>1
    <2>2. ~(Len(b) < Len(a))
      <3> SUFFICES ASSUME Len(b) < Len(a) PROVE FALSE OBVIOUS
      <3>1. Len(b) + 1 \in 1..Len(a) BY <1>1
      <3> QED BY <1>2, <1>3, <3>1
    <2> QED BY <1>1, <2>1, <2>2
  <1>5. Len(m) = Len(n) BY <1>1, <1>4
  <1>6. a = b BY <1>2, <1>3, <1>4, SeqEqual
  <1>7. m = n BY <1>2, <1>3, <1>4, <1>5, SeqEqual
  <1> QED BY <1>6, <1>7

\* So are two texts cut at their last separators.
LEMMA CutAtLast ==
    ASSUME NEW S, NEW a \in Seq(S), NEW b \in Seq(S), NEW m \in Seq(S), NEW n \in Seq(S),
           Separator \in S, Joined(a, m) = Joined(b, n),
           ~HasSeparator(m), ~HasSeparator(n)
    PROVE  a = b /\ m = n
  <1> DEFINE J == Joined(a, m)
  <1>1. /\ Len(J) = Len(a) + 1 + Len(m) /\ Len(J) = Len(b) + 1 + Len(n)
        /\ Len(a) \in Nat /\ Len(b) \in Nat /\ Len(m) \in Nat /\ Len(n) \in Nat
    BY DEF Joined
  <1>2. /\ \A k \in 1..Len(a) : J[k] = a[k]
        /\ J[Len(a) + 1] = Separator
        /\ \A k \in 1..Len(m) : J[Len(a) + 1 + k] = m[k] /\ m[k] # Separator
    BY DEF Joined, HasSeparator
  <1>3. /\ \A k \in 1..Len(b) : J[k] = b[k]
        /\ J[Len(b) + 1] = Separator
        /\ \A k \in 1..Len(n) : J[Len(b) + 1 + k] = n[k] /\ n[k] # Separator
    <2>1. J = b \o <<Separator>> \o n BY DEF Joined
    <2> HIDE DEF J
    <2> QED BY <2>1 DEF HasSeparator
  <1> HIDE DEF J
  <1>4. Len(a) = Len(b)
    <2>1. ~(Len(a) < Len(b))
      <3> SUFFICES ASSUME Len(a) < Len(b) PROVE FALSE OBVIOUS
      <3>1. PICK k : k = Len(b) - Len(a) OBVIOUS
      <3>2. k \in 1..Len(m) /\ Len(a) + 1 + k = Len(b) + 1 BY <1>1, <3>1
      <3> QED BY <1>2, <1>3, <3>2
    <2>2. ~(Len(b) < Len(a))
      <3> SUFFICES ASSUME Len(b) < Len(a) PROVE FALSE OBVIOUS
      <3>1. PICK k : k = Len(a) - Len(b) OBVIOUS
      <3>2. k \in 1..Len(n) /\ Len(b) + 1 + k = Len(a) + 1 BY <1>1, <3>1
      <3> QED BY <1>2, <1>3, <3>2
    <2> QED BY <1>1, <2>1, <2>2
  <1>5. Len(m) = Len(n) BY <1>1, <1>4
  <1>6. a = b BY <1>2, <1>3, <1>4, SeqEqual
  <1>7. m = n BY <1>2, <1>3, <1>4, <1>5, SeqEqual
  <1> QED BY <1>6, <1>7

\* An accepted challenge has the times, the MAC and the signed text of one that
\* was issued under the secret in force less than TTL + 1 seconds before; and it
\* is that one, presented by its account, where the text has only one cut.
THEOREM AcceptedChallenges == Spec => []AcceptedWasIssued
  <1>1. ASSUME IInv PROVE AcceptedWasIssued
    <2> SUFFICES ASSUME NEW account \in Accounts, NEW token \in Presentable,
                        Verdict(account, token) = 200
                 PROVE  \E i \in issued :
                            /\ i.secret = secret
                            /\ now < i.at + (TTL + 1) * TicksPerSecond
                            /\ token = [i.token EXCEPT !.nonce = token.nonce]
                            /\ Joined(account, token.nonce)
                                 = Joined(i.account, i.token.nonce)
                            /\ \/ ~HasSeparator(token.nonce)
                               \/ ~HasSeparator(account) /\ ~HasSeparator(i.account)
                               => account = i.account /\ token = i.token
      BY DEF AcceptedWasIssued
    <2>1. TypeOK /\ IssuedInv BY <1>1 DEF IInv
    <2>2. now \in Nat /\ TTL \in Nat
      BY <2>1, ClockAssumption, ChallengeAssumption DEF TypeOK
    <2>3. PICK n \in TokenNonces, t \in issued, u \in issued,
               m \in {v.token.mac : v \in issued} \cup {NotHex} :
              token = [nonce |-> n, iat |-> t.token.iat, exp |-> u.token.exp, mac |-> m]
      BY DEF Presentable
    <2>4. token.exp \in Nat /\ token.iat \in Nat BY <2>1, <2>3, TokenFields
    <2>5. Seconds(now) <= token.exp
      <3>1. Seconds(now) \in Nat BY <2>2, SecondsBounds
      <3> QED BY <2>4, <3>1 DEF Expired, Verdict
    <2>6. /\ token.mac.hex
          /\ token.mac = Mac(secret, account, token.nonce, token.iat,
                             token.exp - token.iat)
      BY DEF Verdict
    <2>7. PICK i \in issued : m = i.token.mac BY <2>3, <2>6 DEF NotHex
    <2>8. /\ i.at \in Nat /\ i.token.iat \in Nat
          /\ i.token.iat = Seconds(i.at) /\ i.token.exp = Seconds(i.at) + TTL
          /\ i.token.mac = Mac(i.secret, i.account, i.token.nonce, Seconds(i.at), TTL)
          /\ i.token = [nonce |-> i.token.nonce, iat |-> i.token.iat,
                        exp |-> i.token.exp, mac |-> i.token.mac]
      BY <2>1, TokenFields
    <2>9. token.mac = i.token.mac BY <2>3, <2>7
    <2>10. /\ secret = i.secret /\ token.iat = i.token.iat
           /\ token.exp - token.iat = TTL
           /\ Joined(account, token.nonce) = Joined(i.account, i.token.nonce)
      <3> HIDE DEF Joined
      <3> QED BY <2>6, <2>8, <2>9 DEF Mac
    <2>11. token.exp = i.token.exp BY <2>2, <2>4, <2>8, <2>10
    <2>12. token = [i.token EXCEPT !.nonce = token.nonce]
      <3>1. token = [nonce |-> token.nonce, iat |-> i.token.iat,
                     exp |-> i.token.exp, mac |-> i.token.mac]
        BY <2>3, <2>9, <2>10, <2>11
      <3>2. [i.token EXCEPT !.nonce = token.nonce]
              = [nonce |-> token.nonce, iat |-> i.token.iat,
                 exp |-> i.token.exp, mac |-> i.token.mac]
        BY <2>8
      <3> QED BY <3>1, <3>2
    <2>13. now < i.at + (TTL + 1) * TicksPerSecond
      BY <2>2, <2>5, <2>8, <2>11, SecondsEarlier
    <2>14. /\ account \in Seq(Characters) /\ i.account \in Seq(Characters)
           /\ token.nonce \in Seq(Characters) /\ i.token.nonce \in Seq(Characters)
           /\ Separator \in Characters /\ ~HasSeparator(i.token.nonce)
      <3>1. i.account \in Accounts BY <2>1 DEF IssuedInv
      <3>2. i.token.nonce \in Nonces BY <2>1, TokenFields
      <3>3. token.nonce \in TokenNonces BY <2>3
      <3> QED BY <3>1, <3>2, <3>3, ChallengeAssumption
    <2>15. \/ ~HasSeparator(token.nonce)
           \/ ~HasSeparator(account) /\ ~HasSeparator(i.account)
           => account = i.account /\ token.nonce = i.token.nonce
      BY <2>10, <2>14, CutAtFirst, CutAtLast
    <2>16. token.nonce = i.token.nonce => token = i.token BY <2>8, <2>12
    <2> QED BY <2>10, <2>12, <2>13, <2>15, <2>16
  <1> QED BY <1>1, InductiveInvariant, PTL

\* A challenge is good for its account on every worker during its whole TTL,
\* truncation of the clock notwithstanding.
THEOREM FreshChallengesPass == Spec => []FreshIsAccepted
  <1>1. ASSUME IInv PROVE FreshIsAccepted
    <2> SUFFICES ASSUME NEW i \in issued, i.secret = secret,
                        now <= i.at + TTL * TicksPerSecond
                 PROVE  Verdict(i.account, i.token) = 200
      BY DEF FreshIsAccepted
    <2>1. TypeOK /\ IssuedInv BY <1>1 DEF IInv
    <2>2. now \in Nat /\ TTL \in Nat
      BY <2>1, ClockAssumption, ChallengeAssumption DEF TypeOK
    <2>3. /\ i.at \in Nat
          /\ i.token.iat = Seconds(i.at)
          /\ i.token.exp = Seconds(i.at) + TTL
          /\ i.token.mac = Mac(i.secret, i.account, i.token.nonce, Seconds(i.at), TTL)
      BY <2>1, TokenFields
    <2>4. Seconds(now) <= i.token.exp BY <2>2, <2>3, SecondsLater
    <2>5. Seconds(now) \in Nat /\ Seconds(i.at) \in Nat BY <2>2, <2>3, SecondsBounds
    <2>6. ~Expired(i.token) BY <2>2, <2>3, <2>4, <2>5 DEF Expired
    <2>7. i.token.mac.hex BY <2>3 DEF Mac
    <2>8. i.token.exp - i.token.iat = TTL BY <2>2, <2>3, <2>5
    <2> QED BY <2>3, <2>6, <2>7, <2>8 DEF Verdict
  <1> QED BY <1>1, InductiveInvariant, PTL

-----------------------------------------------------------------------------
(* Bursts                                                                    *)
(* What a process allowed a name within the last Period belongs to at most   *)
(* two of its windows, and nothing is left of the first request of the older *)
(* one: it would be a whole Period old.  To prove it, one tells apart what   *)
(* the history holds of the open window and of the one before.               *)

\* An allowed request that the open window of its process counts.
OfOpenWindow(w, b, e) ==
    window[w][b].hits > 0 /\ e.at + Period >= window[w][b].ends

\* The history holds a request once per window and number, those of the open
\* window up to its counter, and no first request of the window before.
BurstInv ==
    \A w \in Workers, b \in Buckets : \A e \in recent[b] :
        e.worker = w =>
            /\ e.hit \in 1..Limit(b)
            /\ e.at <= now
            /\ now < e.at + Period
            /\ window[w][b].hits = 0 => e.at < now
            /\ OfOpenWindow(w, b, e) => e.hit <= window[w][b].hits
            /\ OfOpenWindow(w, b, e) /\ e.hit = 1 => e.at + Period = window[w][b].ends
            /\ ~OfOpenWindow(w, b, e) => e.hit >= 2
            /\ \A f \in recent[b] :
                  f.worker = w /\ f.hit = e.hit
                    /\ (OfOpenWindow(w, b, e) <=> OfOpenWindow(w, b, f))
                        => e = f

\* What the history's requests and a process's windows are.
LEMMA BurstTypes ==
    ASSUME TypeOK, NEW w \in Workers, NEW b \in Buckets
    PROVE  /\ now \in Nat /\ Period \in Nat \ {0} /\ Limit(b) \in Nat \ {0}
           /\ window[w][b].hits \in Nat /\ window[w][b].ends \in Nat
           /\ window[w][b].hits <= Limit(b)
           /\ window[w][b].ends <= now + Period
           /\ \A e \in recent[b] : e.at \in Nat /\ e.hit \in Nat \ {0}
  BY LimitType, ClockAssumption, RateAssumption DEF TypeOK, Allowance

\* One request more: it opens a window that nothing else the history holds
\* belongs to, or it is the next of the open window.
LEMMA HitBurst ==
    ASSUME NEW w \in Workers, NEW b \in Buckets, NEW address,
           TypeOK, BurstInv, Hit(w, b, address), UNCHANGED now
    PROVE  BurstInv'
  <1> SUFFICES ASSUME NEW v \in Workers, NEW c \in Buckets, NEW e \in recent'[c],
                      e.worker = v
               PROVE  /\ e.hit \in 1..Limit(c)
                      /\ e.at <= now
                      /\ now < e.at + Period
                      /\ window'[v][c].hits = 0 => e.at < now
                      /\ OfOpenWindow(v, c, e)' => e.hit <= window'[v][c].hits
                      /\ OfOpenWindow(v, c, e)' /\ e.hit = 1
                            => e.at + Period = window'[v][c].ends
                      /\ ~OfOpenWindow(v, c, e)' => e.hit >= 2
                      /\ \A f \in recent'[c] :
                            f.worker = v /\ f.hit = e.hit
                              /\ (OfOpenWindow(v, c, e)' <=> OfOpenWindow(v, c, f)')
                                  => e = f
    BY DEF BurstInv
  <1> DEFINE cur == window[w][b]
             new == window'[w][b]
  <1>0. PICK ent : ent = [at |-> now, worker |-> w, hit |-> cur.hits + 1,
                          from |-> address]
    <2> HIDE DEF cur
    <2> QED OBVIOUS
  <1>1. /\ new = CountHit(w, b)
        /\ \A u \in Workers, d \in Buckets :
              u # w \/ d # b => window'[u][d] = window[u][d]
    BY DEF Hit, TypeOK
  <1>2. /\ \A d \in Buckets : d # b => recent'[d] = recent[d]
        /\ recent'[b] = IF cur.hits < Limit(b) THEN recent[b] \cup {ent} ELSE recent[b]
    <2>1. recent' = IF cur.hits < Limit(b)
                    THEN [recent EXCEPT ![b] = @ \cup {ent}] ELSE recent
      BY <1>0 DEF Hit, Allows
    <2>2. recent \in [Buckets -> SUBSET Allowance] BY DEF TypeOK
    <2> HIDE DEF cur
    <2> QED BY <2>1, <2>2
  <1>3. CASE v # w \/ c # b
    <2>1. window'[v][c] = window[v][c] BY <1>1, <1>3
    <2>2. \A f \in recent'[c] : f.worker = v => f \in recent[c]
      <3>1. ent.worker = w BY <1>0
      <3> QED BY <1>2, <1>3, <3>1
    <2>3. \A f \in recent[c] : OfOpenWindow(v, c, f)' <=> OfOpenWindow(v, c, f)
      BY <2>1 DEF OfOpenWindow
    <2> QED BY <2>1, <2>2, <2>3 DEF BurstInv
  <1>4. CASE v = w /\ c = b
    <2>1. /\ now \in Nat /\ Period \in Nat \ {0} /\ Limit(b) \in Nat \ {0}
          /\ cur.hits \in Nat /\ cur.ends \in Nat
          /\ cur.hits <= Limit(b) /\ cur.ends <= now + Period
          /\ \A f \in recent[b] : f.at \in Nat /\ f.hit \in Nat \ {0}
      BY BurstTypes
    <2>2. /\ new.hits = IF cur.hits < Limit(b) THEN cur.hits + 1 ELSE cur.hits
          /\ new.ends = IF cur.hits = 0 THEN now + Period ELSE cur.ends
      BY <1>1 DEF CountHit, Allows
    <2>3. /\ ent.at = now /\ ent.worker = w /\ ent.hit = cur.hits + 1
      BY <1>0
    <2>4. new.hits > 0 BY <2>1, <2>2
    <2>5. \A f : OfOpenWindow(w, b, f)' <=> f.at + Period >= new.ends
      BY <2>4 DEF OfOpenWindow
    <2>6. \A f \in recent[b] : f.worker = w =>
            /\ OfOpenWindow(w, b, f)' <=> OfOpenWindow(w, b, f)
            /\ OfOpenWindow(w, b, f)' => cur.hits > 0
      <3> SUFFICES ASSUME NEW f \in recent[b], f.worker = w
                   PROVE  /\ OfOpenWindow(w, b, f)' <=> OfOpenWindow(w, b, f)
                          /\ OfOpenWindow(w, b, f)' => cur.hits > 0
        OBVIOUS
      <3>1. f.at <= now /\ (cur.hits = 0 => f.at < now) BY DEF BurstInv
      <3>2. CASE cur.hits = 0
        <4>1. ~(f.at + Period >= new.ends) BY <2>1, <2>2, <3>1, <3>2
        <4> QED BY <2>5, <3>2, <4>1 DEF OfOpenWindow
      <3>3. CASE cur.hits # 0
        <4>1. new.ends = cur.ends BY <2>2, <3>3
        <4>2. cur.hits > 0 BY <2>1, <3>3
        <4> QED BY <2>5, <4>1, <4>2 DEF OfOpenWindow
      <3> QED BY <3>2, <3>3
    <2>7. cur.hits < Limit(b) =>
            /\ OfOpenWindow(w, b, ent)'
            /\ ent.hit <= new.hits /\ ent.hit \in 1..Limit(b)
            /\ ent.hit = 1 => ent.at + Period = new.ends
      BY <2>1, <2>2, <2>3, <2>5
    <2>8. ASSUME NEW f \in recent[b], f.worker = w, OfOpenWindow(w, b, f)
          PROVE  f.hit <= cur.hits /\ f.hit # ent.hit
      <3>1. f.hit <= cur.hits BY <2>8 DEF BurstInv
      <3> QED BY <2>1, <2>3, <3>1
    <2>9. ASSUME NEW f \in recent[b], f.worker = w
          PROVE  /\ f.hit \in 1..Limit(b)
                 /\ f.at <= now /\ now < f.at + Period
                 /\ OfOpenWindow(w, b, f)' => f.hit <= new.hits
                 /\ OfOpenWindow(w, b, f)' /\ f.hit = 1 => f.at + Period = new.ends
                 /\ ~OfOpenWindow(w, b, f)' => f.hit >= 2
                 /\ \A g \in recent[b] :
                       g.worker = w /\ g.hit = f.hit
                         /\ (OfOpenWindow(w, b, f)' <=> OfOpenWindow(w, b, g)')
                             => f = g
      <3>1. /\ f.hit \in 1..Limit(b)
            /\ f.at <= now /\ now < f.at + Period
            /\ OfOpenWindow(w, b, f) => f.hit <= cur.hits
            /\ OfOpenWindow(w, b, f) /\ f.hit = 1 => f.at + Period = cur.ends
            /\ ~OfOpenWindow(w, b, f) => f.hit >= 2
        BY <2>9 DEF BurstInv
      <3>2. \A g \in recent[b] :
                g.worker = w /\ g.hit = f.hit
                  /\ (OfOpenWindow(w, b, f) <=> OfOpenWindow(w, b, g)) => f = g
        BY <2>9 DEF BurstInv
      <3>3. /\ OfOpenWindow(w, b, f)' <=> OfOpenWindow(w, b, f)
            /\ OfOpenWindow(w, b, f)' => cur.hits > 0
        BY <2>6, <2>9
      <3>4. \A g \in recent[b] :
                g.worker = w /\ g.hit = f.hit
                  /\ (OfOpenWindow(w, b, f)' <=> OfOpenWindow(w, b, g)') => f = g
        BY <2>6, <3>2, <3>3
      <3>5. OfOpenWindow(w, b, f)' => f.hit <= new.hits BY <2>1, <2>2, <3>1, <3>3
      <3>6. OfOpenWindow(w, b, f)' /\ f.hit = 1 => f.at + Period = new.ends
        BY <2>1, <2>2, <3>1, <3>3
      <3>7. ~OfOpenWindow(w, b, f)' => f.hit >= 2 BY <3>1, <3>3
      <3> QED BY <3>1, <3>4, <3>5, <3>6, <3>7
    <2>10. CASE cur.hits < Limit(b)
      <3>1. recent'[b] = recent[b] \cup {ent} BY <1>2, <2>10
      <3>2. /\ e \in recent[b] \/ e = ent
            /\ \A f \in recent'[b] : f \in recent[b] \/ f = ent
        BY <1>4, <3>1
      <3>3. ASSUME NEW f \in recent[b], f.worker = w, f.hit = ent.hit
            PROVE  ~OfOpenWindow(w, b, f)'
        BY <2>6, <2>8, <3>3
      <3>4. CASE e \in recent[b]
        <4>1. \A f \in recent'[b] :
                f.worker = w /\ f.hit = e.hit
                  /\ (OfOpenWindow(w, b, e)' <=> OfOpenWindow(w, b, f)') => e = f
          BY <1>4, <2>7, <2>9, <2>10, <3>2, <3>3, <3>4
        <4> QED BY <1>4, <2>4, <2>9, <3>4, <4>1
      <3>5. CASE e = ent
        <4>1. \A f \in recent'[b] :
                f.worker = w /\ f.hit = e.hit
                  /\ (OfOpenWindow(w, b, e)' <=> OfOpenWindow(w, b, f)') => e = f
          BY <1>4, <2>7, <2>10, <3>2, <3>3, <3>5
        <4>2. e.at <= now /\ now < e.at + Period BY <2>1, <2>3, <3>5
        <4> QED BY <1>4, <2>4, <2>7, <2>10, <3>5, <4>1, <4>2
      <3> QED BY <3>2, <3>4, <3>5
    <2>11. CASE ~(cur.hits < Limit(b))
      <3>1. recent'[b] = recent[b] BY <1>2, <2>11
      <3> QED BY <1>4, <2>4, <2>9, <3>1
    <2> QED BY <2>10, <2>11
  <1> QED BY <1>3, <1>4

\* Time passes: of a window that ends the first request is forgotten, and of
\* the window before it all that was left.
LEMMA TickBurst ==
    ASSUME TypeOK, WindowInv, BurstInv, Tick, RateTick
    PROVE  BurstInv'
  <1> SUFFICES ASSUME NEW w \in Workers, NEW b \in Buckets, NEW e \in recent'[b],
                      e.worker = w
               PROVE  /\ e.hit \in 1..Limit(b)
                      /\ e.at <= now'
                      /\ now' < e.at + Period
                      /\ window'[w][b].hits = 0 => e.at < now'
                      /\ OfOpenWindow(w, b, e)' => e.hit <= window'[w][b].hits
                      /\ OfOpenWindow(w, b, e)' /\ e.hit = 1
                            => e.at + Period = window'[w][b].ends
                      /\ ~OfOpenWindow(w, b, e)' => e.hit >= 2
                      /\ \A f \in recent'[b] :
                            f.worker = w /\ f.hit = e.hit
                              /\ (OfOpenWindow(w, b, e)' <=> OfOpenWindow(w, b, f)')
                                  => e = f
    BY DEF BurstInv
  <1> DEFINE cur == window[w][b]
             new == window'[w][b]
  <1>1. /\ now \in Nat /\ Period \in Nat \ {0} /\ Limit(b) \in Nat \ {0}
        /\ cur.hits \in Nat /\ cur.ends \in Nat
        /\ cur.hits <= Limit(b) /\ cur.ends <= now + Period
        /\ \A f \in recent[b] : f.at \in Nat /\ f.hit \in Nat \ {0}
    BY BurstTypes
  <1>2. now' = now + 1 BY DEF Tick
  <1>3. recent'[b] = {f \in recent[b] : f.at + Period > now'} BY DEF RateTick
  <1>4. new = IF cur.ends <= now' THEN NoWindow ELSE cur BY DEF RateTick, DropEnded
  <1>5. ASSUME NEW f \in recent'[b], f.worker = w
        PROVE  /\ f \in recent[b] /\ f.at + Period > now'
               /\ f.hit \in 1..Limit(b) /\ f.at <= now
               /\ OfOpenWindow(w, b, f) => f.hit <= cur.hits
               /\ OfOpenWindow(w, b, f) /\ f.hit = 1 => f.at + Period = cur.ends
               /\ ~OfOpenWindow(w, b, f) => f.hit >= 2
    BY <1>3, <1>5 DEF BurstInv
  <1>6. \A f \in recent'[b] :
            f.worker = w /\ f.hit = e.hit
              /\ (OfOpenWindow(w, b, e) <=> OfOpenWindow(w, b, f)) => e = f
    BY <1>3 DEF BurstInv
  <1>7. e.at <= now' /\ now' < e.at + Period /\ e.at < now'
    BY <1>1, <1>2, <1>5
  <1>8. CASE cur.ends <= now' /\ cur.hits > 0
    <2>1. ASSUME NEW f \in recent'[b], f.worker = w
          PROVE  OfOpenWindow(w, b, f) /\ f.hit >= 2 /\ ~OfOpenWindow(w, b, f)'
      <3>1. f.at + Period > cur.ends BY <1>1, <1>2, <1>5, <1>8, <2>1
      <3>2. OfOpenWindow(w, b, f) BY <1>1, <1>5, <1>8, <2>1, <3>1 DEF OfOpenWindow
      <3>3. f.hit # 1 BY <1>1, <1>5, <2>1, <3>1, <3>2
      <3>4. new.hits = 0 BY <1>4, <1>8 DEF NoWindow
      <3>5. ~OfOpenWindow(w, b, f)' BY <3>4 DEF OfOpenWindow
      <3>6. f.hit \in Nat \ {0} BY <1>1, <1>5, <2>1
      <3> QED BY <3>2, <3>3, <3>5, <3>6
    <2> QED BY <1>5, <1>6, <1>7, <2>1
  <1>9. CASE ~(cur.ends <= now') \/ cur.hits = 0
    <2>1. \A f \in recent'[b] :
              /\ f.at \in Nat
              /\ OfOpenWindow(w, b, f)' <=> OfOpenWindow(w, b, f)
      <3>1. cur.ends <= now' => new.hits = 0 BY <1>4 DEF NoWindow
      <3>2. ~(cur.ends <= now') => new = cur BY <1>4
      <3> QED BY <1>1, <1>3, <1>9, <3>1, <3>2 DEF OfOpenWindow
    <2>2. OfOpenWindow(w, b, e) => new = cur
      <3>1. cur.hits = 0 => ~OfOpenWindow(w, b, e) BY DEF OfOpenWindow
      <3> QED BY <1>4, <1>9, <3>1
    <2> QED BY <1>5, <1>6, <1>7, <2>1, <2>2
  <1> QED BY <1>1, <1>8, <1>9

\* Replaced processes leave nothing behind.
LEMMA ForgetBurst ==
    ASSUME Forget
    PROVE  BurstInv'
  BY DEF Forget, BurstInv

\* What a step is to the limiter: a counted request, a tick, the loss of the
\* counters, or nothing.
LEMMA LimiterSteps ==
    ASSUME [Next]_vars, TypeOK
    PROVE  \/ /\ UNCHANGED now
              /\ \E w \in Workers, b \in Buckets, a \in Addresses : Hit(w, b, a)
           \/ Tick /\ RateTick
           \/ Forget
           \/ UNCHANGED <<now, rateVars>>
  <1>1. ASSUME NEW w \in Workers, NEW a \in Addresses, NEW h \in Headers,
               NEW complete \in BOOLEAN, Embed(w, a, h, complete)
        PROVE  \/ UNCHANGED now /\ \E b \in Buckets : Hit(w, b, a)
               \/ UNCHANGED <<now, rateVars>>
    <2>1. <<"embed", KeyOf(a, h)>> \in Buckets BY AccessAssumption, BucketType
    <2> QED BY <1>1, <2>1 DEF Embed, Limited
  <1>2. ASSUME NEW w \in Workers, NEW r \in PublicRoutes, NEW a \in Addresses,
               NEW h \in Headers, GetPublic(w, r, a, h)
        PROVE  UNCHANGED now /\ \E b \in Buckets : Hit(w, b, a)
    <2>1. <<r, KeyOf(a, h)>> \in Buckets BY AccessAssumption, BucketType
    <2> QED BY <1>2, <2>1 DEF GetPublic, Limited
  <1>3. ASSUME NEW h \in Headers, NEW acc \in Accounts \cup {NoHeader},
               NEW n \in Nonces, AskChallenge(h, acc, n)
        PROVE  UNCHANGED <<now, rateVars>>
    BY <1>3 DEF AskChallenge
  <1>4. ASSUME NEW h \in Headers, NEW acc \in Accounts \cup {NoHeader},
               NEW t \in Presentable \cup {NoHeader, Malformed}, Verify(h, acc, t)
        PROVE  UNCHANGED <<now, rateVars>>
    BY <1>4 DEF Verify
  <1>5. CASE TimePasses BY <1>5 DEF TimePasses
  <1>6. ASSUME NEW s \in Secrets, Redeploy(s) PROVE Forget BY <1>6 DEF Redeploy
  <1>7. CASE UNCHANGED vars BY <1>7 DEF vars, rateVars
  <1> QED BY <1>1, <1>2, <1>3, <1>4, <1>5, <1>6, <1>7 DEF Next

LEMMA StepBurst == IInv /\ BurstInv /\ [Next]_vars => BurstInv'
  <1> SUFFICES ASSUME IInv, BurstInv, [Next]_vars PROVE BurstInv' OBVIOUS
  <1>1. TypeOK /\ WindowInv BY DEF IInv
  <1>2. ASSUME UNCHANGED <<now, rateVars>> PROVE BurstInv'
    BY <1>2 DEF BurstInv, OfOpenWindow, rateVars
  <1> QED BY <1>1, <1>2, LimiterSteps, HitBurst, TickBurst, ForgetBurst

THEOREM BurstInvariant == Spec => [](IInv /\ BurstInv)
  <1>1. Init => BurstInv BY DEF Init, RateInit, BurstInv
  <1> QED BY <1>1, InitIInv, StepIInv, StepBurst, PTL DEF Spec

\* Around the end of a window a name the limiter counts under gets from one
\* process less than twice the amount within a Period: the requests of the open
\* window number from the amount on, those of the window before it below.
THEOREM BurstsBounded == Spec => []BurstBounded
  <1>1. ASSUME IInv, BurstInv PROVE BurstBounded
    <2> SUFFICES ASSUME NEW b \in Buckets, NEW w \in Workers
                 PROVE  Cardinality({e \in recent[b] : e.worker = w}) < 2 * Limit(b)
      BY DEF BurstBounded
    <2> DEFINE S == {e \in recent[b] : e.worker = w}
               L == Limit(b)
               T == 1..(2 * L - 1)
               number(e) == IF OfOpenWindow(w, b, e) THEN L + e.hit - 1 ELSE e.hit - 1
               f == [e \in S |-> number(e)]
    <2>1. L \in Nat \ {0} BY LimitType
    <2>2. ASSUME NEW e \in S
          PROVE  /\ e.hit \in 1..L
                 /\ ~OfOpenWindow(w, b, e) => e.hit >= 2
                 /\ number(e) \in T
      <3>1. e.hit \in 1..L /\ (~OfOpenWindow(w, b, e) => e.hit >= 2)
        BY <1>1 DEF BurstInv
      <3> QED BY <2>1, <3>1
    <2>3. ASSUME NEW d \in S, NEW e \in S, f[d] = f[e] PROVE d = e
      <3>1. number(d) = number(e) BY <2>3
      <3>2. /\ d.hit \in 1..L /\ e.hit \in 1..L BY <2>2
      <3>3. /\ d.hit = e.hit
            /\ OfOpenWindow(w, b, d) <=> OfOpenWindow(w, b, e)
        BY <2>1, <3>1, <3>2
      <3> QED BY <1>1, <3>3 DEF BurstInv
    <2>4. f \in Injection(S, T)
      <3>1. f \in [S -> T] BY <2>2
      <3> HIDE DEF f
      <3> QED BY <2>3, <3>1 DEF Injection, IsInjective
    <2>5. IsFiniteSet(T) /\ Cardinality(T) = 2 * L - 1
      <3>1. 2 * L - 1 \in Nat /\ ~(1 > 2 * L - 1) /\ (2 * L - 1) - 1 + 1 = 2 * L - 1
        BY <2>1
      <3> HIDE DEF L
      <3> QED BY <3>1, FS_Interval
    <2>6. /\ Cardinality(S) <= Cardinality(T) /\ IsFiniteSet(S)
      <3> HIDE DEF f, S, T
      <3> QED BY <2>4, <2>5, FS_Injection
    <2>7. Cardinality(S) \in Nat
      <3> HIDE DEF S
      <3> QED BY <2>6, FS_CardinalityType
    <2> HIDE DEF S, T, L
    <2>8. Cardinality(S) < 2 * L BY <2>1, <2>5, <2>6, <2>7
    <2> QED BY <2>8 DEF S, L
  <1> QED BY <1>1, BurstInvariant, PTL

=============================================================================
