------------------------------ MODULE Pedersen -----------------------------
(* The commitments of app/engine/zkp.py in the subgroup of prime order Q of   *)
(* the integers modulo P = 2 Q + 1.                                           *)
EXTENDS Integers

CONSTANTS
    P, Q, G,         \* the group: MODP_2048_P, _Q and _G
    Secrets,         \* master keys a deployment may have
    HSecret          \* derive_subkey(master_key, "pedersen/h/v1"), as a number

\* No product of two smaller numbers is a multiple of a prime.
IsPrime(n) == n > 1 /\ \A a, b \in 1..n - 1 : (a * b) % n # 0

\* RFC 3526 group 14: "p = 2q + 1, q prime", "a safe prime".
ASSUME GroupAssumption ==
    /\ Q \in Nat /\ Q > 2 /\ P = 2 * Q + 1
    /\ IsPrime(Q) /\ IsPrime(P)
    /\ G \in 2..P - 1
    /\ HSecret \in [Secrets -> Nat]

Power(base, exponent) ==
    LET pow[n \in Nat] == IF n = 0 THEN 1 ELSE (base * pow[n - 1]) % P
    IN pow[exponent]

\* "Generator g = 2 has order q".
ASSUME GeneratorAssumption == Power(G, Q) = 1

\* The second generator. Its logarithm is known to who has the secret.
DeriveH(secret) ==
    LET x == HSecret[secret] % Q IN Power(G, IF x = 0 THEN 1 ELSE x)

\* What a process remembers per secret is what it would derive again.
Group(secret) == [g |-> G, h |-> DeriveH(secret)]

\* Mutant: zero is allowed, and hides nothing.
GoodRandomnessZero(r) == r \in 0..Q - 1

GoodRandomness(r) == r \in 1..Q - 1

GoodValue(v) == v \in 0..Q - 1

\* g^v h^r
Combine(secret, v, r) ==
    (Power(Group(secret).g, v) * Power(Group(secret).h, r)) % P

CommitRaises(v, r) == ~GoodValue(v) \/ ~GoodRandomness(r)

Commit(secret, v, r) == [c |-> Combine(secret, v, r), v |-> v, r |-> r]

\* verify, on an opening somebody claims.
Opens(secret, c, v, r) ==
    GoodValue(v) /\ GoodRandomness(r) /\ Combine(secret, v, r) = c

=============================================================================
