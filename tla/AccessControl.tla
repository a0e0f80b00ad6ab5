--------------------------- MODULE AccessControl ---------------------------
(* What stands before the handlers: the API key, the rate limit and the      *)
(* challenge, as the requests of several clients meet them on the workers.   *)
EXTENDS RateLimit, Challenges, FiniteSets

CONSTANTS
    PublicRoutes,    \* the limited routes without API key
    NoHeader,        \* a header or a form field the client leaves out
    Malformed,       \* a token from_token does not parse
    MaxRedeploys     \* bound of the models on deployments

ASSUME AccessAssumption ==
    /\ "embed" \in Routes
    /\ PublicRoutes = Routes \ {"embed"}
    /\ NoHeader \notin Accounts
    /\ MaxRedeploys \in Nat

VARIABLES
    redeploys,       \* how often the service was deployed again
    reply            \* the status of the last request, until the next step

vars == <<now, window, recent, secret, issued, redeploys, reply>>

NoReply == 0

Init ==
    /\ now = 0
    /\ RateInit
    /\ ChallengeInit
    /\ redeploys = 0
    /\ reply = NoReply

\* What the dependency require_api_key lets pass.
KeyAccepted(header) == header \in ApiKeys

\* What follows the limiter's verdict on a request it was asked about.
Limited(w, b, address) ==
    /\ Hit(w, b, address)
    /\ reply' = IF Allows(w, b) THEN 200 ELSE 429

\* POST /watermark/embed: the key is a dependency, resolved before the limiter
\* that wraps the endpoint; so is the form, after the key.
Embed(w, address, header, formComplete) ==
    /\ IF KeyAccepted(header) /\ formComplete
       THEN Limited(w, <<"embed", KeyOf(address, header)>>, address)
       ELSE /\ reply' = IF KeyAccepted(header) THEN 422 ELSE 401
            /\ UNCHANGED rateVars
    /\ UNCHANGED <<now, challengeVars, redeploys>>

\* GET /asset/{id} and its image and thumbnail: no key is asked for, and any
\* header sent is counted under.
GetPublic(w, route, address, header) ==
    /\ Limited(w, <<route, KeyOf(address, header)>>, address)
    /\ UNCHANGED <<now, challengeVars, redeploys>>

\* POST /auth/challenge.
AskChallenge(header, account, nonce) ==
    /\ IF KeyAccepted(header) /\ account # NoHeader
       THEN /\ Issue(account, nonce)
            /\ reply' = 200
       ELSE /\ reply' = IF KeyAccepted(header) THEN 422 ELSE 401
            /\ UNCHANGED challengeVars
    /\ UNCHANGED <<now, rateVars, redeploys>>

\* POST /forensics/verify/{id} up to its handler. A missing X-Account-Id is
\* noticed after the key and before the challenge is looked at.
Verify(header, account, token) ==
    LET status ==
          CASE ~KeyAccepted(header) -> 401
            [] KeyAccepted(header) /\ account = NoHeader -> 422
            [] KeyAccepted(header) /\ account # NoHeader
                 /\ token \in {NoHeader, Malformed} -> 401
            [] OTHER -> Verdict(account, token)
    IN
    /\ reply' = status
    /\ UNCHANGED <<now, rateVars, challengeVars, redeploys>>

TimePasses ==
    /\ Tick
    /\ RateTick
    /\ reply' = NoReply
    /\ UNCHANGED <<challengeVars, redeploys>>

\* The service is deployed or started again, with this SECRET_KEY, be it the
\* one it had. A single worker is never replaced: the pinned uvicorn does not.
Redeploy(s) ==
    /\ redeploys < MaxRedeploys
    /\ redeploys' = redeploys + 1
    /\ Forget
    /\ secret' = s
    /\ reply' = NoReply
    /\ UNCHANGED <<now, issued>>

Next ==
    \/ \E w \in Workers, a \in Addresses, h \in Headers :
          \/ \E complete \in BOOLEAN : Embed(w, a, h, complete)
          \/ \E r \in PublicRoutes : GetPublic(w, r, a, h)
    \/ \E h \in Headers, acc \in Accounts \cup {NoHeader} :
          \/ \E n \in Nonces : AskChallenge(h, acc, n)
          \/ \E t \in Presentable \cup {NoHeader, Malformed} : Verify(h, acc, t)
    \/ TimePasses
    \/ \E s \in Secrets : Redeploy(s)

Spec == Init /\ [][Next]_vars

-----------------------------------------------------------------------------

Allowance == [at : Nat, worker : Workers, hit : Nat \ {0}, from : Addresses]

\* Type invariant of the clock, the limiter's counters, the challenges and the
\* replies; a window in use ends later than its hits, at most a Period ahead.
TypeOK ==
    /\ now \in 0..MaxTicks
    /\ window \in [Workers -> [Buckets -> [hits : Nat, ends : Nat]]]
    /\ \A w \in Workers, b \in Buckets :
          /\ window[w][b].hits <= Limit(b)
          /\ window[w][b].ends <= now + Period
    /\ recent \in [Buckets -> SUBSET Allowance]
    /\ secret \in Secrets
    /\ redeploys \in 0..MaxRedeploys
    /\ reply \in {0, 200, 401, 422, 429, 500}

\* A request is refused by the limiter only when the process that refuses it
\* allowed the whole amount under its name less than a Period ago: neither
\* refused requests nor another name's nor another process's prolong a refusal.
RefusedOnlyAtLimit ==
    \A w \in Workers, b \in Buckets :
        ~Allows(w, b) =>
            \A i \in 1..Limit(b) :
                \E e \in recent[b] :
                    /\ e.hit = i
                    /\ e.worker = w
                    /\ e.at + Period > now

\* Around the end of a window a name the limiter counts under (a header value,
\* or an address that sends none) gets less than twice the amount within one
\* Period from one process. Of a client that changes its header it says nothing.
BurstBounded ==
    \A b \in Buckets, w \in Workers :
        Cardinality({e \in recent[b] : e.worker = w}) < 2 * Limit(b)

\* rate_limit.py of the public routes: "60 req/min per IP". Less than twice the
\* amount within a Period for one address, at one process, which is the most a
\* fixed window could promise. The name counted under is the header, if there
\* is one, and the code does not hold to it.
PublicLimitPerAddress ==
    \A route \in PublicRoutes, address \in Addresses, w \in Workers :
        LET sent == UNION {{<<k, e>> : e \in recent[<<route, k>>]} : k \in LimiterKeys}
        IN  Cardinality({s \in sent : s[2].worker = w /\ s[2].from = address})
              < 2 * Amount[route]

\* A challenge is accepted only if one was issued, under the secret in force and
\* less than TTL + 1 seconds ago, with its times, its MAC and the text the MAC
\* signs. It is that challenge, presented by the account it was issued for,
\* wherever the text can be cut in one way only: the nonce presented contains no
\* separator, or neither account does.
AcceptedWasIssued ==
    \A account \in Accounts, token \in Presentable :
        Verdict(account, token) = 200 =>
            \E i \in issued :
                /\ i.secret = secret
                /\ now < i.at + (TTL + 1) * TicksPerSecond
                /\ token = [i.token EXCEPT !.nonce = token.nonce]
                /\ Joined(account, token.nonce) = Joined(i.account, i.token.nonce)
                /\ \/ ~HasSeparator(token.nonce)
                   \/ ~HasSeparator(account) /\ ~HasSeparator(i.account)
                   => account = i.account /\ token = i.token

\* A challenge presented by its account with a valid key within its TTL passes,
\* on every worker, as long as the secret is the one it was issued under.
FreshIsAccepted ==
    \A i \in issued :
        i.secret = secret /\ now <= i.at + TTL * TicksPerSecond
            => Verdict(i.account, i.token) = 200

=============================================================================
