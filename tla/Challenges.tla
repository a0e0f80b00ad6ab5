----------------------------- MODULE Challenges ----------------------------
(* The HMAC challenges of app/core/security.py: issued for an account with   *)
(* an expiry in whole seconds, verified from the token alone.                *)
EXTENDS Clock, Sequences

CONSTANTS
    Characters,      \* what account ids and nonces are sequences of
    Accounts,        \* account ids: the code checks nothing but their length
    Secrets,         \* values SECRET_KEY has over the deployments
    Nonces,          \* values of secrets.token_urlsafe(16), none drawn twice
    TokenNonces,     \* the nonces in the tokens presented: from_token checks none
    TTL              \* CHALLENGE_TTL_SECONDS

\* What the signed text puts between its fields.
Separator == "|"

HasSeparator(text) == \E k \in DOMAIN text : text[k] = Separator

ASSUME ChallengeAssumption ==
    /\ TTL \in Nat \ {0}
    /\ Separator \in Characters
    /\ Accounts \subseteq Seq(Characters)
    /\ TokenNonces \subseteq Seq(Characters)
    /\ Nonces \subseteq TokenNonces
    /\ \A n \in Nonces : ~HasSeparator(n)     \* token_urlsafe: A-Z a-z 0-9 - _

VARIABLES
    secret,          \* SECRET_KEY of the running service
    issued           \* history: the challenges issued, when and for whom

challengeVars == <<secret, issued>>

\* The first two fields of the signed text as they stand in it.
Joined(account, nonce) == account \o <<Separator>> \o nonce

\* hmac_sha256 under the sub-key derived from s, taken to be injective in the
\* key and the text. The text ends with two integers, which contain no
\* separator: only where the account ends and the nonce begins is left open.
Mac(s, account, nonce, iat, ttl) ==
    [hex |-> TRUE, secret |-> s, text |-> Joined(account, nonce),
     iat |-> iat, ttl |-> ttl]

\* A mac that bytes.fromhex does not read.
NotHex == [hex |-> FALSE]

NewToken(account, nonce) ==
    [nonce |-> nonce, iat |-> Seconds(now), exp |-> Seconds(now) + TTL,
     mac |-> Mac(secret, account, nonce, Seconds(now), TTL)]

ChallengeInit ==
    /\ secret \in Secrets
    /\ issued = {}

Issue(account, nonce) ==
    /\ nonce \notin {i.token.nonce : i \in issued}
    /\ issued' = issued \cup
         {[token |-> NewToken(account, nonce), account |-> account,
           secret |-> secret, at |-> now]}
    /\ UNCHANGED secret

\* Mutant: the second of the expiry is late already.
ExpiredEarly(token) == Seconds(now) >= token.exp

Expired(token) == Seconds(now) > token.exp

\* Mutant: the account presented is not part of what is checked.
VerdictUnbound(account, token) ==
    IF Expired(token) THEN 401
    ELSE IF ~token.mac.hex THEN 500
    ELSE IF \E a \in Accounts :
                token.mac = Mac(secret, a, token.nonce, token.iat,
                                token.exp - token.iat)
         THEN 200 ELSE 401

\* What verify_challenge raises, if anything: a mac that is not hexadecimal
\* raises the ValueError of bytes.fromhex, which nothing maps to 401.
Verdict(account, token) ==
    IF Expired(token) THEN 401
    ELSE IF ~token.mac.hex THEN 500
    ELSE IF token.mac = Mac(secret, account, token.nonce, token.iat,
                            token.exp - token.iat)
         THEN 200 ELSE 401

\* What clients present: the times and MACs of issued tokens, put together in
\* any way and with any nonce.
Presentable ==
    LET tokens == {i.token : i \in issued} IN
    {[nonce |-> n, iat |-> t.iat, exp |-> u.exp, mac |-> m] :
        n \in TokenNonces, t \in tokens, u \in tokens,
        m \in {v.mac : v \in tokens} \cup {NotHex}}

=============================================================================
