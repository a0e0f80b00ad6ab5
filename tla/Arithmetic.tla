----------------------------- MODULE Arithmetic -----------------------------
(* Facts about numbers that the proofs of several modules rest on: induction *)
(* and least elements as statements about sets of numbers, the existence of  *)
(* functions defined by recursion, and division.                              *)
EXTENDS Integers, WellFoundedInduction, TLAPS

-----------------------------------------------------------------------------
(* Induction *)

\* A set of numbers that is not empty has a least one.
LEMMA LeastElement ==
    ASSUME NEW S \in SUBSET Nat, S # {}
    PROVE  \E m \in S : \A k \in S : m <= k
  <1> DEFINE R == OpToRel(<, Nat)
  <1>1. IsWellFoundedOn(R, Nat) BY NatLessThanWellFounded
  <1>2. \A x, y \in Nat : x < y => <<x, y>> \in R BY DEF OpToRel
  <1> HIDE DEF R
  <1>3. PICK m \in S : \A k \in S : ~(<<k, m>> \in R)
    <2>1. S \subseteq Nat OBVIOUS
    <2> QED BY <1>1, <2>1, WFMin
  <1>4. \A k \in S : ~(k < m) BY <1>2, <1>3
  <1> QED BY <1>3, <1>4

\* A set of numbers with a bound has a greatest one.
LEMMA GreatestElement ==
    ASSUME NEW S \in SUBSET Nat, S # {}, NEW n \in Nat, \A k \in S : k <= n
    PROVE  \E m \in S : \A k \in S : k <= m
  <1> DEFINE T == {n - k : k \in S}
  <1>1. T \in SUBSET Nat /\ T # {}
    <2>1. \A k \in S : n - k \in Nat OBVIOUS
    <2> QED BY <2>1
  <1>2. PICK t \in T : \A u \in T : t <= u
    <2> HIDE DEF T
    <2> QED BY <1>1, LeastElement
  <1>3. PICK m \in S : t = n - m OBVIOUS
  <1>4. \A k \in S : n - m <= n - k BY <1>2, <1>3
  <1> QED BY <1>3, <1>4

\* Induction, for a set of numbers.
LEMMA SetInduction ==
    ASSUME NEW S, 0 \in S, \A n \in Nat : n \in S => n + 1 \in S
    PROVE  Nat \subseteq S
  <1> SUFFICES ASSUME Nat \ S # {} PROVE FALSE OBVIOUS
  <1>1. PICK m \in Nat \ S : \A k \in Nat \ S : m <= k
    <2>1. Nat \ S \in SUBSET Nat OBVIOUS
    <2> QED BY <2>1, LeastElement
  <1>2. m # 0 /\ m - 1 \in Nat /\ (m - 1) + 1 = m /\ ~(m <= m - 1) OBVIOUS
  <1>3. m - 1 \in S BY <1>1, <1>2
  <1> QED BY <1>2, <1>3

-----------------------------------------------------------------------------
(* Recursion *)

\* f begins with a and follows step up to n.
Follows(f, a, step, n) ==
    f[0] = a /\ \A j \in 1..n : f[j] = step[<<j, f[j - 1]>>]

\* Two functions that follow one step agree.
LEMMA FollowsAgree ==
    ASSUME NEW f, NEW g, NEW a, NEW step, NEW m \in Nat, NEW n \in Nat,
           Follows(f, a, step, m), Follows(g, a, step, n)
    PROVE  \A k \in Nat : k <= m /\ k <= n => f[k] = g[k]
  <1> DEFINE S == {k \in Nat : k <= m /\ k <= n => f[k] = g[k]}
  <1>1. 0 \in S BY DEF Follows
  <1>2. ASSUME NEW k \in Nat, k \in S PROVE k + 1 \in S
    <2> SUFFICES ASSUME k + 1 <= m, k + 1 <= n PROVE f[k + 1] = g[k + 1]
      OBVIOUS
    <2>1. f[k] = g[k] BY <1>2
    <2>2. (k + 1) - 1 = k /\ k + 1 \in 1..m /\ k + 1 \in 1..n OBVIOUS
    <2> QED BY <2>1, <2>2 DEF Follows
  <1> HIDE DEF S
  <1>3. Nat \subseteq S BY <1>1, <1>2, SetInduction
  <1> QED BY <1>3 DEF S

\* A function on an initial segment that follows a step.
LEMMA FollowsUpTo ==
    ASSUME NEW a \in Nat, NEW step \in [Nat \X Nat -> Nat]
    PROVE  \A n \in Nat : \E f \in [0..n -> Nat] : Follows(f, a, step, n)
  <1> DEFINE T == {n \in Nat : \E f \in [0..n -> Nat] : Follows(f, a, step, n)}
  <1>1. 0 \in T
    <2> DEFINE f == [j \in 0..0 |-> a]
    <2>1. f \in [0..0 -> Nat] /\ Follows(f, a, step, 0) BY DEF Follows
    <2> HIDE DEF f
    <2> QED BY <2>1
  <1>2. ASSUME NEW n \in Nat, n \in T PROVE n + 1 \in T
    <2>1. PICK f \in [0..n -> Nat] : Follows(f, a, step, n) BY <1>2
    <2> DEFINE m == n + 1
               g == [j \in 0..m |-> IF j = m THEN step[<<m, f[n]>>] ELSE f[j]]
    <2>2. m \in Nat /\ m - 1 = n OBVIOUS
    <2>3. g \in [0..m -> Nat]
      <3>1. f[n] \in Nat BY <2>1
      <3>2. step[<<m, f[n]>>] \in Nat BY <2>2, <3>1
      <3>3. \A j \in 0..m : j # m => f[j] \in Nat BY <2>1
      <3> HIDE DEF m
      <3> QED BY <3>2, <3>3
    <2>4. \A j \in 0..n : g[j] = f[j] OBVIOUS
    <2>5. g[m] = step[<<m, f[n]>>] BY <2>2
    <2> HIDE DEF g
    <2>6. ASSUME NEW j \in 1..m PROVE g[j] = step[<<j, g[j - 1]>>]
      <3>1. CASE j = m
        <4>1. g[n] = f[n] BY <2>4
        <4> QED BY <2>2, <2>5, <3>1, <4>1
      <3>2. CASE j # m
        <4>1. j \in 0..n /\ j - 1 \in 0..n /\ j \in 1..n BY <3>2
        <4>2. g[j] = f[j] /\ g[j - 1] = f[j - 1] BY <2>4, <4>1
        <4>3. f[j] = step[<<j, f[j - 1]>>] BY <2>1, <4>1 DEF Follows
        <4> QED BY <4>2, <4>3
      <3> QED BY <3>1, <3>2
    <2>7. g[0] = a
      <3>1. g[0] = f[0] BY <2>4
      <3> QED BY <2>1, <3>1 DEF Follows
    <2>8. Follows(g, a, step, m) BY <2>6, <2>7 DEF Follows
    <2> QED BY <2>2, <2>3, <2>8
  <1> HIDE DEF T
  <1>3. Nat \subseteq T BY <1>1, <1>2, SetInduction
  <1> QED BY <1>3 DEF T

\* A function from numbers to numbers that is defined by recursion exists.
LEMMA Recursion ==
    ASSUME NEW a \in Nat, NEW step \in [Nat \X Nat -> Nat]
    PROVE  \E f \in [Nat -> Nat] :
              f[0] = a /\ \A j \in Nat : f[j + 1] = step[<<j + 1, f[j]>>]
  <1> DEFINE Part(n) == CHOOSE f \in [0..n -> Nat] : Follows(f, a, step, n)
             g == [n \in Nat |-> Part(n)[n]]
  <1>1. ASSUME NEW n \in Nat
        PROVE  Part(n) \in [0..n -> Nat] /\ Follows(Part(n), a, step, n)
    BY <1>1, FollowsUpTo, Zenon
  <1>2. \A n \in Nat : g[n] = Part(n)[n] OBVIOUS
  <1>3. g \in [Nat -> Nat]
    <2>1. ASSUME NEW n \in Nat PROVE Part(n)[n] \in Nat
      <3>1. n \in 0..n OBVIOUS
      <3>2. Part(n) \in [0..n -> Nat] BY <1>1
      <3> HIDE DEF Part
      <3> QED BY <3>1, <3>2
    <2> HIDE DEF Part
    <2> QED BY <2>1
  <1> HIDE DEF g, Part
  <1>4. g[0] = a
    <2>1. Follows(Part(0), a, step, 0) BY <1>1
    <2> QED BY <1>2, <2>1 DEF Follows
  <1>5. ASSUME NEW j \in Nat PROVE g[j + 1] = step[<<j + 1, g[j]>>]
    <2>1. j + 1 \in Nat /\ (j + 1) - 1 = j /\ j + 1 \in 1..j + 1 OBVIOUS
    <2>2. Follows(Part(j), a, step, j) /\ Follows(Part(j + 1), a, step, j + 1)
      BY <1>1, <2>1
    <2>3. Part(j + 1)[j] = Part(j)[j]
      <3>1. j <= j /\ j <= j + 1 OBVIOUS
      <3> QED BY <2>1, <2>2, <3>1, FollowsAgree
    <2>4. Part(j + 1)[j + 1] = step[<<j + 1, Part(j + 1)[j]>>]
      BY <2>1, <2>2 DEF Follows
    <2> QED BY <1>2, <2>1, <2>3, <2>4
  <1> QED BY <1>3, <1>4, <1>5

-----------------------------------------------------------------------------
(* Division *)

LEMMA Division ==
    ASSUME NEW n \in Int, NEW d \in Int, d > 0
    PROVE  /\ n \div d \in Int /\ n % d \in Int
           /\ n % d = n - d * (n \div d)
           /\ d * (n \div d) <= n
           /\ n < d * (n \div d) + d
  <1>1. n % d = n - d * (n \div d) OBVIOUS
  <1>2. n < d * (n \div d) + d OBVIOUS
  <1>3. d * (n \div d) <= n OBVIOUS
  <1> QED BY <1>1, <1>2, <1>3

\* An integer lies in one interval of length d only.
LEMMA OneMultiple ==
    ASSUME NEW d \in Int, d > 0, NEW a \in Int, NEW b \in Int, NEW x \in Int,
           d * a <= x, x < d * a + d, d * b <= x, x < d * b + d
    PROVE  a = b
  <1>1. ASSUME a + 1 <= b PROVE FALSE
    <2>1. d * (a + 1) <= d * b BY <1>1
    <2>2. d * (a + 1) = d * a + d OBVIOUS
    <2> QED BY <2>1, <2>2
  <1>2. ASSUME b + 1 <= a PROVE FALSE
    <2>1. d * (b + 1) <= d * a BY <1>2
    <2>2. d * (b + 1) = d * b + d OBVIOUS
    <2> QED BY <2>1, <2>2
  <1> QED BY <1>1, <1>2

\* Quotient and remainder are the only ones.
LEMMA DivisionIs ==
    ASSUME NEW d \in Int, d > 0, NEW q \in Int, NEW t \in Int, 0 <= t, t < d
    PROVE  (d * q + t) \div d = q /\ (d * q + t) % d = t
  <1>1. PICK x \in Int : x = d * q + t OBVIOUS
  <1>2. d * q <= x /\ x < d * q + d BY <1>1
  <1>3. PICK p \in Int : p = x \div d BY Division
  <1>4. /\ d * p <= x /\ x < d * p + d /\ x % d = x - d * p
    BY <1>3, Division
  <1>5. p = q BY <1>2, <1>4, OneMultiple
  <1>6. x % d = t BY <1>1, <1>4, <1>5
  <1> QED BY <1>1, <1>3, <1>5, <1>6

\* Multiples of the divisor do not change a remainder.
LEMMA ModuloMultiple ==
    ASSUME NEW d \in Int, d > 0, NEW q \in Int, NEW n \in Int
    PROVE  (d * q + n) % d = n % d
  <1>1. PICK k \in Int, t \in Int : k = n \div d /\ t = n % d BY Division
  <1>2. n = d * k + t /\ 0 <= t /\ t < d BY <1>1, Division
  <1>3. d * q + n = d * (q + k) + t BY <1>2
  <1>4. (d * (q + k) + t) % d = t BY <1>2, DivisionIs
  <1> QED BY <1>1, <1>3, <1>4

\* A factor may be replaced by its remainder.
LEMMA ModuloProduct ==
    ASSUME NEW d \in Int, d > 0, NEW m \in Int, NEW n \in Int
    PROVE  ((m % d) * n) % d = (m * n) % d
  <1>1. PICK k \in Int, t \in Int : k = m \div d /\ t = m % d BY Division
  <1>2. m = d * k + t BY <1>1, Division
  <1>3. m * n = d * (k * n) + t * n BY <1>2
  <1>4. k * n \in Int /\ t * n \in Int OBVIOUS
  <1>5. (d * (k * n) + t * n) % d = (t * n) % d BY <1>4, ModuloMultiple
  <1> QED BY <1>1, <1>3, <1>5

LEMMA ModuloFactor ==
    ASSUME NEW d \in Int, d > 0, NEW m \in Int, NEW n \in Int
    PROVE  (m * (n % d)) % d = (m * n) % d
  <1>1. PICK t \in Int : t = n % d BY Division
  <1>2. (t * m) % d = (n * m) % d BY <1>1, ModuloProduct
  <1>3. t * m = m * t /\ n * m = m * n OBVIOUS
  <1> QED BY <1>1, <1>2, <1>3

\* Numbers with one remainder differ by a multiple.
LEMMA ModuloEqual ==
    ASSUME NEW d \in Int, d > 0, NEW m \in Int, NEW n \in Int, m % d = n % d
    PROVE  (m - n) % d = 0
  <1>1. PICK k \in Int, t \in Int : k = m \div d /\ t = m % d BY Division
  <1>2. PICK j \in Int : j = n \div d BY Division
  <1>3. m = d * k + t /\ n = d * j + t BY <1>1, <1>2, Division
  <1>4. m - n = d * (k - j) + 0 BY <1>3
  <1>5. (d * (k - j) + 0) % d = 0 BY DivisionIs
  <1> QED BY <1>4, <1>5

=============================================================================
