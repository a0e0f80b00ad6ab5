------------------------ MODULE WatermarkCodecProofs ------------------------
(***************************************************************************)
(* What the watermark of watermark.py withstands, for every image, code,    *)
(* step and coefficient.  A bit survives while its coefficient is nearer    *)
(* to its multiple than half a step; the bits of a byte make the byte; and  *)
(* a codeword with few enough wrong bytes is decoded as what it was.         *)
(* Divisions are turned into products by Division; what remains of the      *)
(* quantisation is the arithmetic of one inequality.                         *)
(***************************************************************************)
EXTENDS WatermarkCodec, Arithmetic, FiniteSetTheorems, TLAPS

-----------------------------------------------------------------------------
(* Quantisation *)

\* Rounding gives the only integer whose multiple is nearer than half a step.
LEMMA RoundIs ==
    ASSUME NEW n \in Int, NEW d \in Int, d > 0, NEW q \in Int,
           2 * Abs(n - q * d) < d
    PROVE  Round(n, d) = q
  <1>1. PICK m \in Int : m = 2 * n + d OBVIOUS
  <1>2. PICK w \in Int : w = 2 * d OBVIOUS
  <1>3. w > 0 BY <1>2
  <1>4. PICK c \in Int : c = q * d OBVIOUS
  <1>5. -d < 2 * (n - c) /\ 2 * (n - c) < d
    BY <1>4 DEF Abs
  <1>6. w * q = 2 * c
    BY <1>2, <1>4
  <1>7. w * q < m /\ m < w * q + w
    BY <1>1, <1>2, <1>5, <1>6
  <1>8. /\ m \div w \in Int /\ m % w = m - w * (m \div w)
        /\ w * (m \div w) <= m /\ m < w * (m \div w) + w
    BY <1>3, Division
  <1>9. m \div w = q
    <2>1. PICK up \in Int : up = m \div w BY <1>8
    <2>2. w * q <= m BY <1>7
    <2> QED BY <1>3, <1>7, <1>8, <2>1, <2>2, OneMultiple
  <1>10. m % w # 0
    BY <1>7, <1>8, <1>9
  <1> QED BY <1>1, <1>2, <1>9, <1>10 DEF Round

\* Rounding is never farther than half a step away.
LEMMA RoundIsNear ==
    ASSUME NEW n \in Int, NEW d \in Int, d > 0
    PROVE  /\ Round(n, d) \in Int
           /\ 2 * n - d <= 2 * (d * Round(n, d))
           /\ 2 * (d * Round(n, d)) <= 2 * n + d
  <1>1. PICK m \in Int : m = 2 * n + d OBVIOUS
  <1>2. PICK w \in Int : w = 2 * d /\ w > 0 OBVIOUS
  <1>3. /\ m \div w \in Int /\ m % w = m - w * (m \div w)
        /\ w * (m \div w) <= m /\ m < w * (m \div w) + w
    BY <1>2, Division
  <1>4. PICK up \in Int : up = m \div w BY <1>3
  <1>5. CASE Round(n, d) = up - 1 /\ m % w = 0
    <2>1. w * up = m BY <1>3, <1>4, <1>5
    <2>2. w * up = 2 * (d * (up - 1)) + 2 * d BY <1>2
    <2> QED BY <1>1, <1>5, <2>1, <2>2
  <1>6. CASE Round(n, d) = up
    <2>1. w * up = 2 * (d * up) BY <1>2
    <2>2. w * up <= m /\ m < w * up + w BY <1>3, <1>4
    <2> QED BY <1>1, <1>2, <1>6, <2>1, <2>2
  <1>7. \/ Round(n, d) = up - 1 /\ m % w = 0
        \/ Round(n, d) = up
    BY <1>1, <1>2, <1>4 DEF Round
  <1> QED BY <1>5, <1>6, <1>7

\* Embedding leaves the parity of the bit, at a cost of at most one and a half
\* steps (_qim_embed).
THEOREM EmbeddingCarriesBit ==
    ASSUME NEW n \in Int, NEW d \in Int, d > 0, NEW bit \in {0, 1}
    PROVE  LET q == QimIndex(n, d, bit) IN
           /\ q \in Int /\ q % 2 = bit
           /\ 2 * n - d <= 2 * (d * q) /\ 2 * (d * q) <= 2 * n + 3 * d
  <1>1. PICK r \in Int : r = Round(n, d) BY RoundIsNear
  <1>2. 2 * n - d <= 2 * (d * r) /\ 2 * (d * r) <= 2 * n + d
    BY <1>1, RoundIsNear
  <1>3. CASE r % 2 = bit
    <2>1. QimIndex(n, d, bit) = r BY <1>1, <1>3 DEF QimIndex
    <2> QED BY <1>2, <1>3, <2>1
  <1>4. CASE r % 2 # bit
    <2>1. QimIndex(n, d, bit) = r + 1 BY <1>1, <1>4 DEF QimIndex
    <2>2. (r + 1) % 2 = bit BY <1>4
    <2>3. d * (r + 1) = d * r + d OBVIOUS
    <2> QED BY <1>2, <2>1, <2>2, <2>3
  <1> QED BY <1>3, <1>4

\* A coefficient that is nearer to its multiple of the step it is read with than
\* half of that step gives its bit (_qim_extract), whatever moved it there.
THEOREM BitSurvives ==
    ASSUME NEW n \in Int, NEW d \in Int, d > 0, NEW q \in Int,
           2 * Abs(n - q * d) < d
    PROVE  QimBit(n, d) = q % 2
  BY RoundIs DEF QimBit

\* Marking a block changes the energy its step is derived from, and extraction
\* derives it anew: the bit is read back as long as its index times the change
\* of the step, with what rounding did, stays under half of the step it is read
\* with (_block_energy and _adaptive_delta on both sides).
THEOREM EnergyChangeTolerated ==
    ASSUME NEW value \in Int, NEW q \in Int, NEW before \in Nat, NEW after \in Nat,
           2 * Abs(value * EnergyUnit - q * StepNum(before))
             + 2 * Abs(q * (Delta * (after - before))) < StepNum(after)
    PROVE  QimBit(value * EnergyUnit, StepNum(after)) = q % 2
  <1>1. Delta \in Int /\ Delta > 0 /\ EnergyUnit \in Int /\ EnergyUnit > 0
    BY LatticeAssumption
  <1>2. PICK s \in Int : s = StepNum(before) BY <1>1 DEF StepNum
  <1>3. PICK t \in Int : t = StepNum(after) BY <1>1 DEF StepNum
  <1>4. t > 0
    <2>1. EnergyUnit + after > 0 BY <1>1
    <2> QED BY <1>1, <1>3, <2>1 DEF StepNum
  <1>5. t = s + Delta * (after - before)
    BY <1>1, <1>2, <1>3 DEF StepNum
  <1>6. PICK change \in Int : change = Delta * (after - before) BY <1>1
  <1>7. q * t = q * s + q * change
    BY <1>5, <1>6
  <1>8. PICK n \in Int : n = value * EnergyUnit BY <1>1
  <1>9. PICK a \in Int : a = q * s OBVIOUS
  <1>10. PICK b \in Int : b = q * change OBVIOUS
  <1>11. 2 * Abs(n - a) + 2 * Abs(b) < t
    BY <1>2, <1>3, <1>6, <1>8, <1>9, <1>10
  <1>12. 2 * Abs(n - (a + b)) < t
    BY <1>11 DEF Abs
  <1>13. 2 * Abs(n - q * t) < t
    BY <1>7, <1>9, <1>10, <1>12
  <1> QED BY <1>3, <1>4, <1>8, <1>13, BitSurvives

\* A synchronisation coefficient is taken for the odd multiple q it was put on
\* while it is less than one and a half steps below and half a step above it:
\* it bears fading better than amplification (_estimate_gain).
THEOREM SnapsToItsMultiple ==
    ASSUME NEW v \in Int, v > 0, NEW q \in Int, q % 2 = 1,
           2 * (Delta * q) - 3 * Delta < 2 * v, 2 * v < 2 * (Delta * q) + Delta
    PROVE  Snap(v) = q
  <1>1. Delta \in Int /\ Delta > 0 BY LatticeAssumption
  <1>2. PICK r \in Int : r = Round(v, Delta) BY <1>1, RoundIsNear
  <1>3. 2 * v - Delta <= 2 * (Delta * r) /\ 2 * (Delta * r) <= 2 * v + Delta
    BY <1>1, <1>2, RoundIsNear
  <1>4. ~(r >= q + 1)
    <2>1. ASSUME r >= q + 1 PROVE Delta * r >= Delta * (q + 1) BY <1>1, <2>1
    <2>2. Delta * (q + 1) = Delta * q + Delta BY <1>1
    <2> QED BY <1>1, <1>3, <2>1, <2>2
  <1>5. ~(r <= q - 2)
    <2>1. ASSUME r <= q - 2 PROVE Delta * r <= Delta * (q - 2) BY <1>1, <2>1
    <2>2. Delta * (q - 2) = Delta * q - 2 * Delta BY <1>1
    <2> QED BY <1>1, <1>3, <2>1, <2>2
  <1>6. r = q \/ r = q - 1 BY <1>4, <1>5
  <1> QED BY <1>2, <1>6 DEF Snap

\* From half a step above an odd multiple on, where that multiple is still the
\* nearest odd one, a coefficient is taken for the next (_estimate_gain: "Snap to
\* nearest odd").
THEOREM SnapsAwayFromZero ==
    ASSUME NEW v \in Int, v > 0, NEW q \in Int, q % 2 = 1,
           2 * (Delta * q) + Delta < 2 * v, v < Delta * q + Delta
    PROVE  Snap(v) = q + 2
  <1>1. Delta \in Int /\ Delta > 0 BY LatticeAssumption
  <1>2. PICK a \in Int : a = Delta * q BY <1>1
  <1>3. Delta * (q + 1) = a + Delta BY <1>1, <1>2
  <1>4. 2 * Abs(v - (q + 1) * Delta) < Delta
    BY <1>1, <1>2, <1>3 DEF Abs
  <1>5. Round(v, Delta) = q + 1 BY <1>1, <1>4, RoundIs
  <1> QED BY <1>5 DEF Snap

-----------------------------------------------------------------------------
(* Bits and bytes *)

\* Bits are cut off one after the other.
LEMMA ShiftFollows ==
    ASSUME NEW number \in Nat, NEW f \in [Nat -> Nat], f[0] = number,
           \A j \in Nat : f[j + 1] = f[j] \div 2,
           NEW n \in Nat
    PROVE  Shift(number, n) = f[n]
  <1> DEFINE Halves(h) ==
                 h = [j \in 0..n |-> IF j = 0 THEN number ELSE h[j - 1] \div 2]
  <1>1. \E h : Halves(h)
    <2> DEFINE g == [j \in 0..n |-> f[j]]
    <2>1. ASSUME NEW j \in 0..n, j # 0 PROVE g[j] = g[j - 1] \div 2
      <3>1. j - 1 \in Nat /\ j - 1 \in 0..n /\ (j - 1) + 1 = j BY <2>1
      <3>2. f[j] = f[j - 1] \div 2 BY <3>1
      <3> QED BY <3>1, <3>2
    <2>2. g = [j \in 0..n |-> IF j = 0 THEN number ELSE g[j - 1] \div 2]
      <3>1. g[0] = number OBVIOUS
      <3>2. g = [j \in 0..n |-> g[j]] OBVIOUS
      <3> HIDE DEF g
      <3> QED BY <2>1, <3>1, <3>2
    <2> HIDE DEF g
    <2> QED BY <2>2
  <1> DEFINE h == CHOOSE h : Halves(h)
  <1>2. Halves(h) BY <1>1, Zenon
  <1>3. Shift(number, n) = h[n] BY Zenon DEF Shift
  <1> HIDE DEF h
  <1>4. h[0] = number /\ \A j \in 1..n : h[j] = h[j - 1] \div 2
    <2>1. 0 \in 0..n /\ \A j \in 1..n : j \in 0..n /\ j # 0 OBVIOUS
    <2>2. \A j \in 0..n : h[j] = IF j = 0 THEN number ELSE h[j - 1] \div 2
      BY <1>2, Zenon
    <2> QED BY <2>1, <2>2
  <1> DEFINE S == {j \in Nat : j <= n => h[j] = f[j]}
  <1>5. 0 \in S BY <1>4
  <1>6. ASSUME NEW j \in Nat, j \in S PROVE j + 1 \in S
    <2> SUFFICES ASSUME j + 1 <= n PROVE h[j + 1] = f[j + 1] OBVIOUS
    <2>1. j + 1 \in 1..n /\ (j + 1) - 1 = j /\ h[j] = f[j] BY <1>6
    <2> QED BY <1>4, <2>1
  <1> HIDE DEF S
  <1>7. Nat \subseteq S BY <1>5, <1>6, SetInduction
  <1>8. h[n] = f[n] BY <1>7 DEF S
  <1> QED BY <1>3, <1>8

\* Shifting by one more place is halving.
LEMMA ShiftSteps ==
    ASSUME NEW number \in Nat
    PROVE  /\ Shift(number, 0) = number
           /\ \A n \in Nat : /\ Shift(number, n) \in Nat
                             /\ Shift(number, n + 1) = Shift(number, n) \div 2
  <1> DEFINE step == [x \in Nat \X Nat |-> x[2] \div 2]
  <1>1. step \in [Nat \X Nat -> Nat]
    <2>1. \A x \in Nat \X Nat : x[2] \div 2 \in Nat OBVIOUS
    <2> QED BY <2>1
  <1>2. \A j, v \in Nat : step[<<j, v>>] = v \div 2 OBVIOUS
  <1> HIDE DEF step
  <1>3. PICK f \in [Nat -> Nat] :
            f[0] = number /\ \A j \in Nat : f[j + 1] = step[<<j + 1, f[j]>>]
    BY <1>1, Recursion, Zenon
  <1>4. \A j \in Nat : f[j] \in Nat /\ j + 1 \in Nat BY <1>3
  <1>5. \A j \in Nat : f[j + 1] = f[j] \div 2 BY <1>2, <1>3, <1>4
  <1>6. \A n \in Nat : Shift(number, n) = f[n] BY <1>3, <1>5, ShiftFollows
  <1> QED BY <1>3, <1>4, <1>5, <1>6

\* The bits of the codeword's bytes, packed again, are its bytes: _bits_to_bytes
\* inverts _bytes_to_bits, for bytes of any number of bits.
THEOREM BytesOfBits ==
    ASSUME NEW codeword \in [1..CodewordBytes -> Nat], NEW bits,
           NEW i \in 1..CodewordBytes, Shift(codeword[i], ByteBits) = 0,
           \A j \in 1..ByteBits :
               bits[(i - 1) * ByteBits + j] = Bit(codeword, (i - 1) * ByteBits + j)
    PROVE  Byte(bits, i) = codeword[i]
  <1> DEFINE n == ByteBits
             at(j) == (i - 1) * n + j
             sh(j) == Shift(codeword[i], n - j)
             Values(v) == v = [j \in 0..n |-> IF j = 0 THEN 0
                                              ELSE 2 * v[j - 1] + bits[at(j)]]
  <1>1. n \in Nat \ {0} /\ CodewordBytes \in Nat /\ codeword[i] \in Nat
    BY SizeAssumption
  <1>2. ASSUME NEW j \in 1..n
        PROVE  bits[at(j)] = sh(j) % 2
    <2>1. /\ at(j) - 1 = n * (i - 1) + (j - 1)
          /\ i - 1 \in Int /\ j - 1 \in Int /\ 0 <= j - 1 /\ j - 1 < n /\ n > 0
      BY <1>1
    <2>2. (at(j) - 1) \div n = i - 1 /\ (at(j) - 1) % n = j - 1
      <3>1. PICK d \in Int, q \in Int, t \in Int : d = n /\ q = i - 1 /\ t = j - 1
        BY <1>1, <2>1
      <3>2. at(j) - 1 = d * q + t /\ 0 <= t /\ t < d /\ d > 0 BY <2>1, <3>1
      <3> HIDE DEF at, n
      <3>3. (d * q + t) \div d = q /\ (d * q + t) % d = t BY <3>2, DivisionIs
      <3> QED BY <3>1, <3>2, <3>3
    <2>3. 1 + (at(j) - 1) \div n = i /\ n - 1 - ((at(j) - 1) % n) = n - j
      BY <1>1, <2>2
    <2>4. Bit(codeword, at(j)) = Shift(codeword[i], n - j) % 2
      BY <2>3 DEF Bit
    <2> QED BY <1>2, <2>4
  <1>3. /\ sh(0) = 0 /\ sh(n) = codeword[i]
        /\ \A j \in 0..n : sh(j) \in Nat
        /\ \A j \in 1..n : sh(j - 1) = sh(j) \div 2
    <2>1. n - 0 = n /\ n - n = 0 BY <1>1
    <2>2. sh(0) = 0 /\ sh(n) = codeword[i] BY <1>1, <2>1, ShiftSteps
    <2>3. ASSUME NEW j \in 0..n PROVE sh(j) \in Nat
      <3>1. n - j \in Nat BY <1>1
      <3> QED BY <1>1, <3>1, ShiftSteps
    <2>4. ASSUME NEW j \in 1..n PROVE sh(j - 1) = sh(j) \div 2
      <3>1. PICK k \in Nat : k = n - j /\ k + 1 = n - (j - 1) BY <1>1
      <3>2. Shift(codeword[i], k + 1) = Shift(codeword[i], k) \div 2
        BY <1>1, ShiftSteps
      <3> QED BY <3>1, <3>2
    <2> HIDE DEF sh, n
    <2> QED BY <2>2, <2>3, <2>4
  <1>4. \A j \in 1..n : 2 * sh(j - 1) + bits[at(j)] = sh(j)
    <2> TAKE j \in 1..n
    <2>1. PICK x \in Nat : x = sh(j) BY <1>3
    <2>2. sh(j - 1) = x \div 2 /\ bits[at(j)] = x % 2 BY <1>2, <1>3, <2>1
    <2>3. 2 * (x \div 2) + (x % 2) = x OBVIOUS
    <2> QED BY <2>1, <2>2, <2>3
  <1> HIDE DEF sh, at
  <1>5. \E v : Values(v)
    <2> DEFINE g == [j \in 0..n |-> sh(j)]
    <2>1. \A j \in 1..n : g[j] = 2 * g[j - 1] + bits[at(j)]
      <3> TAKE j \in 1..n
      <3>1. j - 1 \in 0..n /\ j \in 0..n BY <1>1
      <3> QED BY <1>4, <3>1
    <2>2. g[0] = 0 BY <1>1, <1>3
    <2>3. g = [j \in 0..n |-> g[j]] OBVIOUS
    <2>4. \A j \in 0..n : j # 0 => j \in 1..n BY <1>1
    <2> HIDE DEF g, n
    <2>5. Values(g) BY <2>1, <2>2, <2>3, <2>4
    <2> HIDE DEF Values
    <2> QED BY <2>5
  <1> DEFINE v == CHOOSE v : Values(v)
  <1>6. Values(v) BY <1>5, Zenon
  <1>7. Byte(bits, i) = v[n] BY Zenon DEF Byte, at
  <1> HIDE DEF v
  <1>8. v[0] = 0 /\ \A j \in 1..n : v[j] = 2 * v[j - 1] + bits[at(j)]
    <2>1. 0 \in 0..n /\ \A j \in 1..n : j \in 0..n /\ j # 0 BY <1>1
    <2>2. \A j \in 0..n : v[j] = IF j = 0 THEN 0 ELSE 2 * v[j - 1] + bits[at(j)]
      BY <1>6, Zenon
    <2> QED BY <2>1, <2>2
  <1> DEFINE S == {j \in Nat : j <= n => v[j] = sh(j)}
  <1>9. 0 \in S BY <1>3, <1>8
  <1>10. ASSUME NEW j \in Nat, j \in S PROVE j + 1 \in S
    <2> SUFFICES ASSUME j + 1 <= n PROVE v[j + 1] = sh(j + 1) OBVIOUS
    <2>1. j + 1 \in 1..n /\ (j + 1) - 1 = j /\ v[j] = sh(j) BY <1>1, <1>10
    <2> QED BY <1>4, <1>8, <2>1
  <1> HIDE DEF S
  <1>11. Nat \subseteq S BY <1>9, <1>10, SetInduction
  <1>12. v[n] = sh(n) BY <1>1, <1>11 DEF S
  <1> QED BY <1>3, <1>7, <1>12

-----------------------------------------------------------------------------
(* The energy of a block and the estimate of the gain *)

\* An energy is a natural number: the adaptive step is positive.
LEMMA EnergyType ==
    ASSUME NEW block \in Block
    PROVE  Energy(block) \in Nat
  <1> DEFINE n == BitsPerBlock
             a(k) == IF k \in 1..n THEN Abs(block.data[k]) ELSE 0
             step == [x \in Nat \X Nat |-> x[2] + a(x[1])]
             Sums(s) == s = [k \in 0..n |-> IF k = 0 THEN 0
                                            ELSE s[k - 1] + Abs(block.data[k])]
  <1>1. n \in Nat /\ block.rest \in Nat /\ block.sync \in Int
        /\ \A k \in 1..n : block.data[k] \in Int
    BY SizeAssumption DEF Block
  <1>2. \A k \in Nat : a(k) \in Nat BY <1>1 DEF Abs
  <1>3. step \in [Nat \X Nat -> Nat] /\ \A k, v \in Nat : step[<<k, v>>] = v + a(k)
    <2> HIDE DEF a
    <2>1. \A x \in Nat \X Nat : x[2] + a(x[1]) \in Nat BY <1>2
    <2> QED BY <2>1
  <1> HIDE DEF step
  <1>4. PICK f \in [Nat -> Nat] :
            f[0] = 0 /\ \A k \in Nat : f[k + 1] = step[<<k + 1, f[k]>>]
    <2>1. 0 \in Nat OBVIOUS
    <2> QED BY <1>3, <2>1, Recursion, Zenon
  <1>5. \A k \in 1..n : f[k] = f[k - 1] + Abs(block.data[k])
    <2> TAKE k \in 1..n
    <2>1. PICK j \in Nat : j = k - 1 /\ k = j + 1 BY <1>1
    <2>2. f[k] = step[<<k, f[j]>>] /\ f[j] \in Nat /\ k \in Nat BY <1>4, <2>1
    <2> QED BY <1>3, <2>1, <2>2
  <1> HIDE DEF a
  <1>6. \E s : Sums(s)
    <2> DEFINE g == [k \in 0..n |-> f[k]]
    <2>1. \A k \in 1..n : g[k] = g[k - 1] + Abs(block.data[k])
      <3> TAKE k \in 1..n
      <3>1. k - 1 \in 0..n /\ k \in 0..n BY <1>1
      <3> QED BY <1>5, <3>1
    <2>2. g[0] = 0 BY <1>1, <1>4
    <2>3. g = [k \in 0..n |-> g[k]] OBVIOUS
    <2>4. \A k \in 0..n : k # 0 => k \in 1..n BY <1>1
    <2> HIDE DEF g, n
    <2>5. Sums(g) BY <2>1, <2>2, <2>3, <2>4
    <2> HIDE DEF Sums
    <2> QED BY <2>5
  <1> DEFINE s == CHOOSE s : Sums(s)
  <1>7. Sums(s) BY <1>6, Zenon
  <1>8. Energy(block) = s[n] + Abs(block.sync) + block.rest BY Zenon DEF Energy
  <1> HIDE DEF s
  <1>9. s[0] = 0 /\ \A k \in 1..n : s[k] = s[k - 1] + Abs(block.data[k])
    <2>1. 0 \in 0..n /\ \A k \in 1..n : k \in 0..n /\ k # 0 BY <1>1
    <2>2. \A k \in 0..n : s[k] = IF k = 0 THEN 0 ELSE s[k - 1] + Abs(block.data[k])
      BY <1>7, Zenon
    <2> QED BY <2>1, <2>2
  <1> DEFINE S == {k \in Nat : k <= n => s[k] \in Nat}
  <1>10. 0 \in S BY <1>9
  <1>11. ASSUME NEW k \in Nat, k \in S PROVE k + 1 \in S
    <2> SUFFICES ASSUME k + 1 <= n PROVE s[k + 1] \in Nat OBVIOUS
    <2>1. k + 1 \in 1..n /\ (k + 1) - 1 = k /\ s[k] \in Nat BY <1>1, <1>11
    <2>2. Abs(block.data[k + 1]) \in Nat BY <1>1, <2>1 DEF Abs
    <2> QED BY <1>9, <2>1, <2>2
  <1> HIDE DEF S
  <1>12. Nat \subseteq S BY <1>10, <1>11, SetInduction
  <1>13. s[n] \in Nat BY <1>1, <1>12 DEF S
  <1> QED BY <1>1, <1>8, <1>13 DEF Abs

LEMMA StepType ==
    ASSUME NEW energy \in Nat
    PROVE  StepNum(energy) \in Nat \ {0}
  <1>1. PICK d \in Nat \ {0}, u \in Nat \ {0} : d = Delta /\ u = EnergyUnit
    BY LatticeAssumption
  <1>2. d * (u + energy) >= 1 /\ d * (u + energy) \in Nat BY <1>1
  <1> QED BY <1>1, <1>2 DEF StepNum

\* Positive fractions.
Fractions == (Nat \ {0}) \X (Nat \ {0})

\* A synchronisation value that is not zero is taken for an odd multiple, hence
\* not for zero, and shows a positive gain.
LEMMA RatioType ==
    ASSUME NEW v \in Int, v # 0
    PROVE  Ratio(v) \in Fractions
  <1>0. Delta \in Nat \ {0} /\ Delta \in Int /\ Delta > 0 BY LatticeAssumption
  <1>1. PICK d \in Nat \ {0} : d = Delta BY <1>0
  <1>2. PICK q \in Int : q = Round(v, Delta) BY <1>0, RoundIsNear
  <1>3. PICK s \in Int : s = Snap(v) /\ s % 2 = 1
    <2>1. q % 2 = 1 \/ ((q + 1) % 2 = 1 /\ (q - 1) % 2 = 1) BY <1>2
    <2> QED BY <1>2, <2>1 DEF Snap
  <1>4. Abs(s) \in Nat \ {0} /\ Abs(v) \in Nat \ {0} BY <1>3 DEF Abs
  <1>5. Abs(s) * d \in Nat \ {0}
    <2>1. PICK t \in Nat \ {0} : t = Abs(s) BY <1>4
    <2>2. t * d >= 1 /\ t * d \in Nat OBVIOUS
    <2> QED BY <2>1, <2>2
  <1> QED BY <1>1, <1>3, <1>4, <1>5 DEF Ratio, Fractions

\* RatioLeq orders fractions.
LEMMA RatioOrder ==
    /\ \A a, b \in Fractions : RatioLeq(a, b) \/ RatioLeq(b, a)
    /\ \A a, b, c \in Fractions :
          RatioLeq(a, b) /\ RatioLeq(b, c) => RatioLeq(a, c)
  <1>1. ASSUME NEW a \in Fractions, NEW b \in Fractions
        PROVE  RatioLeq(a, b) \/ RatioLeq(b, a)
    <2>1. a[1] * b[2] \in Nat /\ b[1] * a[2] \in Nat BY DEF Fractions
    <2> QED BY <2>1 DEF RatioLeq
  <1>2. ASSUME NEW a \in Fractions, NEW b \in Fractions, NEW c \in Fractions,
               RatioLeq(a, b), RatioLeq(b, c)
        PROVE  RatioLeq(a, c)
    <2>1. PICK a1, a2, b1, b2, c1, c2 \in Nat \ {0} :
              /\ a1 = a[1] /\ a2 = a[2] /\ b1 = b[1]
              /\ b2 = b[2] /\ c1 = c[1] /\ c2 = c[2]
      BY DEF Fractions
    <2>2. a1 * b2 <= b1 * a2 /\ b1 * c2 <= c1 * b2 BY <1>2, <2>1 DEF RatioLeq
    <2>3. (a1 * b2) * c2 <= (b1 * a2) * c2 BY <2>2
    <2>4. (b1 * c2) * a2 <= (c1 * b2) * a2 BY <2>2
    <2>5. b2 * (a1 * c2) <= b2 * (c1 * a2)
      <3>1. (a1 * b2) * c2 = b2 * (a1 * c2) /\ (c1 * b2) * a2 = b2 * (c1 * a2)
            /\ (b1 * a2) * c2 = (b1 * c2) * a2
        OBVIOUS
      <3> QED BY <2>3, <2>4, <3>1
    <2>6. ASSUME a1 * c2 > c1 * a2 PROVE FALSE
      <3>1. b2 * (a1 * c2) > b2 * (c1 * a2) BY <2>6
      <3> QED BY <2>5, <3>1
    <2> QED BY <2>1, <2>6 DEF RatioLeq
  <1> QED BY <1>1, <1>2

\* The mean of two lies between them.
LEMMA MeanBetween ==
    ASSUME NEW a \in Fractions, NEW b \in Fractions, RatioLeq(a, b)
    PROVE  /\ Mean(a, b) \in Fractions
           /\ RatioLeq(a, Mean(a, b))
           /\ RatioLeq(Mean(a, b), b)
  <1>1. PICK a1, a2, b1, b2 \in Nat \ {0} :
            /\ a1 = a[1] /\ a2 = a[2] /\ b1 = b[1] /\ b2 = b[2]
    BY DEF Fractions
  <1>2. PICK x, y, z \in Nat \ {0} : x = a1 * b2 /\ y = b1 * a2 /\ z = a2 * b2
    <2>1. a1 * b2 >= 1 /\ b1 * a2 >= 1 /\ a2 * b2 >= 1 OBVIOUS
    <2> QED BY <2>1
  <1>3. Mean(a, b) = <<x + y, 2 * z>> BY <1>1, <1>2 DEF Mean
  <1>4. x <= y BY <1>1, <1>2 DEF RatioLeq
  <1>5. a1 * (2 * z) <= (x + y) * a2
    <2>1. a1 * (2 * z) = 2 * (x * a2) BY <1>2
    <2>2. (x + y) * a2 = x * a2 + y * a2 BY <1>2
    <2>3. x * a2 <= y * a2 BY <1>4
    <2> QED BY <2>1, <2>2, <2>3
  <1>6. (x + y) * b2 <= b1 * (2 * z)
    <2>1. b1 * (2 * z) = 2 * (y * b2) BY <1>2
    <2>2. (x + y) * b2 = x * b2 + y * b2 BY <1>2
    <2>3. x * b2 <= y * b2 BY <1>4
    <2> QED BY <2>1, <2>2, <2>3
  <1>7. x + y \in Nat \ {0} /\ 2 * z \in Nat \ {0} OBVIOUS
  <1>8. RatioLeq(a, Mean(a, b)) BY <1>1, <1>3, <1>5 DEF RatioLeq
  <1>9. RatioLeq(Mean(a, b), b) BY <1>1, <1>3, <1>6 DEF RatioLeq
  <1> QED BY <1>3, <1>7, <1>8, <1>9 DEF Fractions

\* Among ratios there is a greatest one.
LEMMA GreatestRatio ==
    ASSUME NEW D, IsFiniteSet(D), NEW r \in [D -> Fractions],
           NEW S \in SUBSET D, S # {}
    PROVE  \E m \in S : \A c \in S : RatioLeq(r[c], r[m])
  <1> DEFINE below(b) == {c \in S : RatioLeq(r[c], r[b])}
             sizes == {Cardinality(below(b)) : b \in S}
  <1>1. IsFiniteSet(S) /\ Cardinality(S) \in Nat BY FS_Subset, FS_CardinalityType
  <1>2. ASSUME NEW b \in S
        PROVE  /\ IsFiniteSet(below(b)) /\ Cardinality(below(b)) \in Nat
               /\ Cardinality(below(b)) <= Cardinality(S)
    <2>1. below(b) \in SUBSET S OBVIOUS
    <2> HIDE DEF below
    <2> QED BY <1>1, <2>1, FS_Subset, FS_CardinalityType
  <1>3. sizes \in SUBSET Nat /\ sizes # {} /\ \A k \in sizes : k <= Cardinality(S)
    <2> HIDE DEF below
    <2> QED BY <1>2
  <1>4. PICK k \in sizes : \A j \in sizes : j <= k
    <2> HIDE DEF sizes
    <2> QED BY <1>1, <1>3, GreatestElement
  <1>5. PICK m \in S : k = Cardinality(below(m)) OBVIOUS
  <1>6. ASSUME NEW c \in S, ~RatioLeq(r[c], r[m]) PROVE FALSE
    <2>1. r[c] \in Fractions /\ r[m] \in Fractions /\ \A b \in S : r[b] \in Fractions
      OBVIOUS
    <2>2. RatioLeq(r[m], r[c]) /\ RatioLeq(r[c], r[c]) BY <1>6, <2>1, RatioOrder
    <2>3. below(m) \in SUBSET below(c) BY <2>1, <2>2, RatioOrder
    <2>4. c \in below(c) /\ c \notin below(m) BY <1>6, <2>2
    <2>5. Cardinality(below(c)) <= Cardinality(below(m)) BY <1>4, <1>5
    <2> HIDE DEF below
    <2>6. /\ Cardinality(below(m)) <= Cardinality(below(c))
          /\ Cardinality(below(m)) = Cardinality(below(c)) => below(m) = below(c)
      BY <1>2, <2>3, FS_Subset
    <2>7. Cardinality(below(m)) \in Nat /\ Cardinality(below(c)) \in Nat BY <1>2
    <2> QED BY <2>4, <2>5, <2>6, <2>7
  <1> QED BY <1>6

\* How many ratios are at most, and how many are less than, the one of b.
AtMost(D, r, b) == {c \in D : RatioLeq(r[c], r[b])}
Less(D, r, b) == {c \in D : ~RatioLeq(r[b], r[c])}

LEMMA RankSets ==
    ASSUME NEW D, IsFiniteSet(D), NEW r \in [D -> Fractions], NEW b \in D
    PROVE  /\ IsFiniteSet(AtMost(D, r, b)) /\ Cardinality(AtMost(D, r, b)) \in Nat
           /\ IsFiniteSet(Less(D, r, b)) /\ Cardinality(Less(D, r, b)) \in Nat
           /\ AtMost(D, r, b) \in SUBSET D /\ Less(D, r, b) \in SUBSET D
  <1>1. AtMost(D, r, b) \in SUBSET D /\ Less(D, r, b) \in SUBSET D
    BY DEF AtMost, Less
  <1> QED BY <1>1, FS_Subset, FS_CardinalityType

\* The k-th smallest ratio exists: fewer than k are less, at least k are not more.
LEMMA NthIs ==
    ASSUME NEW D, IsFiniteSet(D), NEW r \in [D -> Fractions],
           NEW k \in 1..Cardinality(D)
    PROVE  \E b \in D : /\ Nth(r, k) = r[b]
                        /\ Cardinality(Less(D, r, b)) < k
                        /\ Cardinality(AtMost(D, r, b)) >= k
  <1> DEFINE size(b) == Cardinality(AtMost(D, r, b))
             sizes == {size(b) : b \in {c \in D : size(c) >= k}}
  <1>1. Cardinality(D) \in Nat /\ k \in Nat \ {0} /\ k <= Cardinality(D)
    BY FS_CardinalityType
  <1>2. D # {} BY <1>1, FS_EmptySet
  <1>3. PICK top \in D : \A c \in D : RatioLeq(r[c], r[top])
    <2>1. D \in SUBSET D OBVIOUS
    <2> QED BY <1>2, <2>1, GreatestRatio
  <1>4. size(top) >= k
    <2>1. AtMost(D, r, top) = D BY <1>3 DEF AtMost
    <2> QED BY <1>1, <2>1
  <1>5. \A b \in D : size(b) \in Nat BY RankSets
  <1>6. PICK least \in sizes : \A j \in sizes : least <= j
    <2>1. sizes \in SUBSET Nat /\ sizes # {}
      <3> HIDE DEF size
      <3> QED BY <1>4, <1>5
    <2> HIDE DEF sizes
    <2> QED BY <2>1, LeastElement
  <1>7. PICK b \in D : least = size(b) /\ size(b) >= k
    <2> HIDE DEF size
    <2> QED OBVIOUS
  <1>8. \A c \in D : size(c) >= k => size(b) <= size(c)
    <2> HIDE DEF size
    <2> QED BY <1>6, <1>7
  <1>9. Cardinality(Less(D, r, b)) < k
    <2>1. CASE Less(D, r, b) = {}
      BY <1>1, <2>1, FS_EmptySet
    <2>2. CASE Less(D, r, b) # {}
      <3>1. PICK m \in Less(D, r, b) : \A c \in Less(D, r, b) : RatioLeq(r[c], r[m])
        BY <2>2, RankSets, GreatestRatio
      <3>2. m \in D /\ ~RatioLeq(r[b], r[m]) /\ \A c \in D : r[c] \in Fractions
        BY <3>1 DEF Less
      <3>3. Less(D, r, b) = AtMost(D, r, m)
        <4>1. ASSUME NEW c \in D, RatioLeq(r[c], r[m]) PROVE ~RatioLeq(r[b], r[c])
          BY <3>2, <4>1, RatioOrder
        <4> QED BY <3>1, <4>1 DEF Less, AtMost
      <3>4. AtMost(D, r, m) \in SUBSET AtMost(D, r, b)
        <4>1. RatioLeq(r[m], r[b]) BY <3>2, RatioOrder
        <4> QED BY <3>2, <4>1, RatioOrder DEF AtMost
      <3>5. b \in AtMost(D, r, b) /\ b \notin AtMost(D, r, m)
        BY <3>2, RatioOrder DEF AtMost
      <3>6. size(m) # size(b) /\ size(m) <= size(b)
        BY <3>2, <3>4, <3>5, RankSets, FS_Subset
      <3>7. size(m) < k
        <4> HIDE DEF size
        <4> QED BY <1>1, <1>5, <1>8, <3>2, <3>6
      <3> QED BY <3>3, <3>7
    <2> QED BY <2>1, <2>2
  <1> DEFINE Fits(c) == /\ Cardinality({d \in DOMAIN r : ~RatioLeq(r[c], r[d])}) < k
                        /\ Cardinality({d \in DOMAIN r : RatioLeq(r[d], r[c])}) >= k
             pick == CHOOSE c \in DOMAIN r : Fits(c)
  <1>10. DOMAIN r = D OBVIOUS
  <1>11. Fits(b) BY <1>7, <1>9, <1>10, Zenon DEF Less, AtMost
  <1>12. pick \in D /\ Fits(pick)
    <2> HIDE DEF Fits
    <2> QED BY <1>10, <1>11
  <1>13. Nth(r, k) = r[pick] BY Zenon DEF Nth
  <1> HIDE DEF pick
  <1> QED BY <1>10, <1>12, <1>13, Zenon DEF Less, AtMost

\* The median of ratios of which more than half are those of R lies among R's:
\* np.median bears outliers, "Median is robust to outliers".
THEOREM MedianWithin ==
    ASSUME NEW D, IsFiniteSet(D), NEW r \in [D -> Fractions],
           NEW R \in SUBSET D, 2 * Cardinality(R) > Cardinality(D)
    PROVE  /\ \E b \in R : RatioLeq(r[b], Median(r))
           /\ \E b \in R : RatioLeq(Median(r), r[b])
           /\ Median(r) \in Fractions
  <1> DEFINE n == Cardinality(D)
  <1>1. n \in Nat /\ Cardinality(R) \in Nat /\ IsFiniteSet(R) /\ Cardinality(R) <= n
    BY FS_Subset, FS_CardinalityType
  <1>2. \A c \in D : r[c] \in Fractions OBVIOUS
  <1>3. DOMAIN r = D OBVIOUS
  <1>4. ASSUME NEW b \in D, NEW k \in Nat, Cardinality(AtMost(D, r, b)) >= k,
               k + Cardinality(R) > n
        PROVE  \E c \in R : RatioLeq(r[c], r[b])
    <2>1. Cardinality(AtMost(D, r, b)) + Cardinality(R) > Cardinality(D)
      BY <1>1, <1>4, RankSets
    <2>2. AtMost(D, r, b) \cap R # {}
      BY <2>1, RankSets, FS_MajoritiesIntersect
    <2> QED BY <2>2 DEF AtMost
  <1>5. ASSUME NEW b \in D, NEW k \in Nat, Cardinality(Less(D, r, b)) <= n - k,
               k + Cardinality(R) > n
        PROVE  \E c \in R : RatioLeq(r[b], r[c])
    <2> DEFINE A == D \ Less(D, r, b)
    <2>1. /\ IsFiniteSet(A) /\ Cardinality(A) = n - Cardinality(Less(D, r, b))
      <3>1. D \cap Less(D, r, b) = Less(D, r, b) BY RankSets
      <3> QED BY <3>1, FS_Difference
    <2>2. Cardinality(A) + Cardinality(R) > Cardinality(D)
      BY <1>1, <1>5, <2>1, RankSets
    <2>3. A \cap R # {}
      <3>1. A \subseteq D OBVIOUS
      <3> HIDE DEF A
      <3> QED BY <2>2, <3>1, FS_MajoritiesIntersect
    <2> QED BY <2>3 DEF Less
  <1>6. PICK h \in Nat : n = 2 * h \/ n = 2 * h + 1
    <2>1. n \div 2 \in Nat /\ (n = 2 * (n \div 2) \/ n = 2 * (n \div 2) + 1)
      <3> HIDE DEF n
      <3> QED BY <1>1
    <2> HIDE DEF n
    <2> QED BY <2>1
  <1> HIDE DEF n
  <1>7. CASE n = 2 * h + 1
    <2>1. n % 2 = 1 /\ (n + 1) \div 2 = h + 1 BY <1>7
    <2>2. Median(r) = Nth(r, h + 1) BY <1>3, <2>1 DEF Median, n
    <2>3. h + 1 \in 1..n BY <1>7
    <2>4. PICK b \in D : /\ Nth(r, h + 1) = r[b]
                         /\ Cardinality(Less(D, r, b)) < h + 1
                         /\ Cardinality(AtMost(D, r, b)) >= h + 1
      BY <2>3, NthIs DEF n
    <2>5. (h + 1) + Cardinality(R) > n /\ h + 1 \in Nat /\ n - (h + 1) = h
      BY <1>1, <1>7 DEF n
    <2>6. Cardinality(Less(D, r, b)) <= n - (h + 1) BY <2>4, <2>5, RankSets
    <2> QED BY <1>2, <1>4, <1>5, <2>2, <2>4, <2>5, <2>6
  <1>8. CASE n = 2 * h
    <2>1. n % 2 # 1 /\ n \div 2 = h BY <1>8
    <2>2. Median(r) = Mean(Nth(r, h), Nth(r, h + 1)) BY <1>3, <2>1 DEF Median, n
    <2>3. h \in 1..n /\ h + 1 \in 1..n
      <3>1. n # 0 BY <1>1 DEF n
      <3> QED BY <1>8, <3>1
    <2>4. PICK b \in D : /\ Nth(r, h) = r[b]
                         /\ Cardinality(Less(D, r, b)) < h
                         /\ Cardinality(AtMost(D, r, b)) >= h
      BY <2>3, NthIs DEF n
    <2>5. PICK d \in D : /\ Nth(r, h + 1) = r[d]
                         /\ Cardinality(Less(D, r, d)) < h + 1
                         /\ Cardinality(AtMost(D, r, d)) >= h + 1
      BY <2>3, NthIs DEF n
    <2>6. RatioLeq(r[b], r[d])
      <3>1. ~(AtMost(D, r, d) \subseteq Less(D, r, b))
        <4> SUFFICES ASSUME AtMost(D, r, d) \in SUBSET Less(D, r, b) PROVE FALSE
          OBVIOUS
        <4>1. Cardinality(AtMost(D, r, d)) <= Cardinality(Less(D, r, b))
          BY RankSets, FS_Subset
        <4> QED BY <2>4, <2>5, <4>1, RankSets
      <3>2. PICK c \in D : RatioLeq(r[c], r[d]) /\ RatioLeq(r[b], r[c])
        BY <3>1 DEF AtMost, Less
      <3> QED BY <1>2, <3>2, RatioOrder
    <2>7. h + Cardinality(R) > n /\ n - h = h BY <1>1, <1>8 DEF n
    <2>8. PICK x \in R : RatioLeq(r[x], r[b]) BY <1>4, <2>4, <2>7
    <2>9. PICK y \in R : RatioLeq(r[d], r[y])
      <3>1. Cardinality(Less(D, r, d)) <= n - h BY <2>5, <2>7, RankSets
      <3> QED BY <1>5, <2>7, <3>1
    <2>10. /\ Mean(r[b], r[d]) \in Fractions
           /\ RatioLeq(r[b], Mean(r[b], r[d])) /\ RatioLeq(Mean(r[b], r[d]), r[d])
      BY <1>2, <2>6, MeanBetween
    <2>11. x \in D /\ y \in D OBVIOUS
    <2>12. RatioLeq(r[x], Mean(r[b], r[d])) /\ RatioLeq(Mean(r[b], r[d]), r[y])
      BY <1>2, <2>8, <2>9, <2>10, <2>11, RatioOrder
    <2> QED BY <2>2, <2>4, <2>5, <2>10, <2>12
  <1> QED BY <1>6, <1>7, <1>8

-----------------------------------------------------------------------------
(* Marking *)

\* A stream position that block b carries belongs to a byte of the codeword.
LEMMA PositionByte ==
    ASSUME NEW b \in SyncBlocks + 1 .. SyncBlocks + DataBlocks, NEW k \in 1..BitsPerBlock
    PROVE  /\ Position(b, k) \in 1..CodewordBytes * ByteBits
           /\ 1 + (Position(b, k) - 1) \div ByteBits \in 1..CodewordBytes
  <1>1. PICK n \in Nat \ {0}, d \in Nat \ {0}, m \in Nat, s \in Nat :
            n = BitsPerBlock /\ d = ByteBits /\ m = CodewordBytes /\ s = SyncBlocks
    BY SizeAssumption
  <1>2. PICK t \in Nat : t = m * d OBVIOUS
  <1>3. PICK q \in Int : q = DataBlocks /\ q = t \div n
    BY <1>1, <1>2, Division DEF DataBlocks
  <1>4. t = n * q
    <2>1. t % n = 0 BY <1>1, <1>2, SizeAssumption
    <2>2. t % n = t - n * (t \div n) BY Division
    <2> QED BY <1>3, <2>1, <2>2
  <1>5. PICK c \in Int : c = b - s - 1 /\ 0 <= c /\ c <= q - 1 BY <1>1, <1>3
  <1>6. n * c >= 0 /\ n * c <= n * (q - 1) BY <1>5
  <1>7. n * (q - 1) = n * q - n OBVIOUS
  <1>8. PICK i \in Int : i = n * c BY <1>5
  <1>9. PICK p \in Int : p = i + k /\ 1 <= p /\ p <= t BY <1>1, <1>4, <1>6, <1>7, <1>8
  <1>10. Position(b, k) = p
    <2>1. c * n = n * c OBVIOUS
    <2> QED BY <1>1, <1>5, <1>8, <1>9, <2>1 DEF Position
  <1>11. PICK j \in Int : /\ j = (p - 1) \div d /\ d * j <= p - 1 /\ p - 1 < d * j + d
    BY Division
  <1>12. 0 <= j
    <2>1. ASSUME j <= -1 PROVE FALSE
      <3>1. d * j <= d * (-1) BY <2>1
      <3> QED BY <1>9, <1>11, <3>1
    <2> QED BY <2>1
  <1>13. j <= m - 1
    <2>1. ASSUME j >= m PROVE FALSE
      <3>1. d * j >= d * m BY <2>1
      <3>2. d * m = m * d OBVIOUS
      <3> QED BY <1>2, <1>9, <1>11, <3>1, <3>2
    <2> QED BY <2>1
  <1> QED BY <1>1, <1>2, <1>9, <1>10, <1>11, <1>12, <1>13

LEMMA BitType ==
    ASSUME NEW codeword \in [1..CodewordBytes -> Nat], NEW k \in Int,
           1 + (k - 1) \div ByteBits \in 1..CodewordBytes
    PROVE  Bit(codeword, k) \in {0, 1}
  <1>1. ByteBits \in Nat \ {0} BY SizeAssumption
  <1>2. codeword[1 + (k - 1) \div ByteBits] \in Nat OBVIOUS
  <1>3. PICK place \in Nat : place = ByteBits - 1 - ((k - 1) % ByteBits)
    <2>1. PICK d \in Nat \ {0}, i \in Int : d = ByteBits /\ i = k - 1 BY <1>1
    <2>2. i % d \in 0..d - 1 OBVIOUS
    <2> QED BY <2>1, <2>2
  <1>4. PICK s \in Nat : s = Shift(codeword[1 + (k - 1) \div ByteBits], place)
    BY <1>2, ShiftSteps
  <1>5. Bit(codeword, k) = s % 2 BY <1>3, <1>4 DEF Bit
  <1> QED BY <1>5

\* Marking chooses odd multiples for synchronisation, and multiples of the
\* parities of the codeword's bits for data.
LEMMA MarkingType ==
    ASSUME NEW block \in Block, NEW b \in 1..SyncBlocks + DataBlocks,
           NEW p \in Payloads
    PROVE  LET m == Marking(block, b, Codeword(p)) IN
           /\ m.num \in Int /\ m.den \in Int /\ m.den > 0
           /\ b <= SyncBlocks => m.index[1] \in Int /\ m.index[1] % 2 = 1
           /\ b > SyncBlocks =>
                 /\ DOMAIN m.index = 1..BitsPerBlock
                 /\ \A k \in 1..BitsPerBlock :
                       /\ m.index[k] \in Int
                       /\ m.index[k] % 2 = Bit(Codeword(p), Position(b, k))
  <1>1. Delta \in Int /\ Delta > 0 /\ EnergyUnit \in Int /\ EnergyUnit > 0
    BY LatticeAssumption
  <1>2. block.sync \in Int /\ \A k \in 1..BitsPerBlock : block.data[k] \in Int
    BY DEF Block
  <1>3. CASE b <= SyncBlocks
    <2>1. PICK q \in Int : q = QimIndex(block.sync, Delta, 1) /\ q % 2 = 1
      BY <1>1, <1>2, EmbeddingCarriesBit
    <2>2. /\ Marking(block, b, Codeword(p)).num = Delta
          /\ Marking(block, b, Codeword(p)).den = 1
          /\ Marking(block, b, Codeword(p)).index[1] = q
      BY <1>3, <2>1 DEF Marking
    <2>3. ~(b > SyncBlocks) BY <1>3, SizeAssumption
    <2> QED BY <1>1, <2>1, <2>2, <2>3
  <1>4. CASE ~(b <= SyncBlocks)
    <2> DEFINE num == StepNum(Energy(block))
               bit(k) == Bit(Codeword(p), Position(b, k))
               index(k) == QimIndex(block.data[k] * EnergyUnit, num, bit(k))
    <2>1. num \in Int /\ num > 0
      <3>1. num \in Nat \ {0} BY EnergyType, StepType
      <3> HIDE DEF num
      <3> QED BY <3>1
    <2>2. b \in SyncBlocks + 1 .. SyncBlocks + DataBlocks BY <1>4, SizeAssumption
    <2>3. ASSUME NEW k \in 1..BitsPerBlock
          PROVE  index(k) \in Int /\ index(k) % 2 = bit(k)
      <3>1. Codeword(p) \in [1..CodewordBytes -> Nat] BY CodecAssumption DEF Codeword
      <3>2. Position(b, k) \in Int /\ 1 + (Position(b, k) - 1) \div ByteBits \in 1..CodewordBytes
        BY <2>2, PositionByte
      <3>3. bit(k) \in {0, 1} BY <3>1, <3>2, BitType
      <3>4. PICK n \in Int : n = block.data[k] * EnergyUnit BY <1>1, <1>2
      <3> HIDE DEF num, bit
      <3>5. QimIndex(n, num, bit(k)) \in Int /\ QimIndex(n, num, bit(k)) % 2 = bit(k)
        BY <2>1, <3>3, EmbeddingCarriesBit
      <3> QED BY <3>4, <3>5
    <2>4. /\ Marking(block, b, Codeword(p)).num = num
          /\ Marking(block, b, Codeword(p)).den = EnergyUnit
          /\ Marking(block, b, Codeword(p)).index = [k \in 1..BitsPerBlock |-> index(k)]
      BY <1>4, Zenon DEF Marking
    <2> HIDE DEF num, bit, index
    <2>5. /\ DOMAIN Marking(block, b, Codeword(p)).index = 1..BitsPerBlock
          /\ \A k \in 1..BitsPerBlock :
                Marking(block, b, Codeword(p)).index[k] = index(k)
      BY <2>4
    <2> QED BY <1>1, <1>4, <2>1, <2>3, <2>4, <2>5 DEF bit
  <1> QED BY <1>3, <1>4

\* A marked block is a block.
LEMMA MarkedType ==
    ASSUME NEW block \in Block, NEW b \in 1..SyncBlocks + DataBlocks,
           NEW p \in Payloads, NEW e \in Int
    PROVE  Marked(block, b, Marking(block, b, Codeword(p)), e) \in Block
  <1> DEFINE m == Marking(block, b, Codeword(p))
             settled(k) == Round(m.index[k] * m.num, m.den) + e
  <1>1. /\ m.num \in Int /\ m.den \in Int /\ m.den > 0
        /\ b <= SyncBlocks => m.index[1] \in Int
        /\ b > SyncBlocks => \A k \in 1..BitsPerBlock : m.index[k] \in Int
    BY MarkingType
  <1> HIDE DEF m
  <1>2. ASSUME NEW k, m.index[k] \in Int PROVE settled(k) \in Int
    <2>1. PICK n \in Int : n = m.index[k] * m.num BY <1>1, <1>2
    <2>2. Round(n, m.den) \in Int BY <1>1, RoundIsNear
    <2> QED BY <2>1, <2>2
  <1>3. CASE b <= SyncBlocks
    <2>1. settled(1) \in Int BY <1>1, <1>2, <1>3
    <2>2. Marked(block, b, m, e) = [block EXCEPT !.sync = settled(1)]
      BY <1>3, Zenon DEF Marked
    <2> HIDE DEF settled
    <2> QED BY <2>1, <2>2 DEF Block, m
  <1>4. CASE ~(b <= SyncBlocks)
    <2>1. b > SyncBlocks BY <1>4, SizeAssumption
    <2>2. \A k \in 1..BitsPerBlock : settled(k) \in Int BY <1>1, <1>2, <2>1
    <2>3. Marked(block, b, m, e) =
            [block EXCEPT !.data = [k \in 1..BitsPerBlock |-> settled(k)]]
      BY <1>4, Zenon DEF Marked
    <2> HIDE DEF settled
    <2> QED BY <2>2, <2>3 DEF Block, m
  <1> QED BY <1>3, <1>4

\* A block that is read as marking left it gives its bits, at its own energy and
\* not the one it was marked with, as long as the index of a coefficient times the
\* change of the step, with the rounding to pixels, stays under half of the step
\* (embed_watermark and extract_watermark, each with its own _adaptive_delta).
THEOREM MarkedBlockIsRead ==
    ASSUME NEW block \in Block, NEW b \in SyncBlocks + 1 .. SyncBlocks + DataBlocks,
           NEW p \in Payloads, NEW e \in Int, NEW k \in 1..BitsPerBlock,
           LET m == Marking(block, b, Codeword(p))
               after == Energy(Marked(block, b, m, e))
           IN EnergyUnit * (1 + 2 * Abs(e))
                + 2 * Abs(m.index[k] * (Delta * (after - Energy(block)))) < StepNum(after)
    PROVE  LET marked == Marked(block, b, Marking(block, b, Codeword(p)), e) IN
           QimBit(marked.data[k] * EnergyUnit, StepNum(Energy(marked)))
               = Bit(Codeword(p), Position(b, k))
  <1> DEFINE m == Marking(block, b, Codeword(p))
             marked == Marked(block, b, m, e)
  <1>1. b \in 1..SyncBlocks + DataBlocks /\ b > SyncBlocks /\ ~(b <= SyncBlocks)
    <2>1. PICK t \in Int, n \in Nat \ {0} : t = CodewordBytes * ByteBits /\ n = BitsPerBlock
      BY SizeAssumption
    <2>2. DataBlocks \in Int BY <2>1, Division DEF DataBlocks
    <2> QED BY <2>2, SizeAssumption
  <1>2. PICK u \in Int : u = EnergyUnit /\ u > 0 BY LatticeAssumption
  <1>3. PICK before \in Nat : before = Energy(block) BY EnergyType
  <1>4. PICK after \in Nat : after = Energy(marked) BY <1>1, MarkedType, EnergyType
  <1>5. PICK s \in Int : s = StepNum(before)
    BY StepType
  <1>6. m.num = s /\ m.den = u BY <1>1, <1>2, <1>3, <1>5, Zenon DEF Marking
  <1>7. PICK q \in Int : q = m.index[k] /\ q % 2 = Bit(Codeword(p), Position(b, k))
    BY <1>1, MarkingType
  <1>8. PICK n \in Int : n = q * s OBVIOUS
  <1>9. PICK near \in Int : /\ near = Round(n, u)
                            /\ 2 * n - u <= 2 * (u * near)
                            /\ 2 * (u * near) <= 2 * n + u
    BY <1>2, RoundIsNear
  <1>10. marked = [block EXCEPT !.data =
                     [j \in 1..BitsPerBlock |-> Round(m.index[j] * m.num, m.den) + e]]
    BY <1>1, Zenon DEF Marked
  <1>11. PICK value \in Int : value = marked.data[k] /\ value = near + e
    <2>1. marked.data[k] = Round(m.index[k] * m.num, m.den) + e
      <3> HIDE DEF marked, m
      <3> QED BY <1>10 DEF Block
    <2> QED BY <1>6, <1>7, <1>8, <1>9, <2>1
  <1> HIDE DEF m, marked
  <1>12. 2 * Abs(value * u - n) <= u * (1 + 2 * Abs(e))
    <2>1. PICK x \in Int : x = u * near OBVIOUS
    <2>2. PICK y \in Int : y = u * e OBVIOUS
    <2>3. value * u = x + y BY <1>11, <2>1, <2>2
    <2>4. u * (1 + 2 * Abs(e)) = u + 2 * Abs(y)
      <3>1. CASE e >= 0
        <4>1. y >= 0 BY <1>2, <2>2, <3>1
        <4> QED BY <2>2, <3>1, <4>1 DEF Abs
      <3>2. CASE e < 0
        <4>1. y < 0 BY <1>2, <2>2, <3>2
        <4>2. u * (1 + 2 * (-e)) = u - 2 * y BY <2>2
        <4> QED BY <3>2, <4>1, <4>2 DEF Abs
      <3> QED BY <3>1, <3>2
    <2>5. 2 * Abs(x + y - n) <= u + 2 * Abs(y) BY <1>2, <1>9, <2>1 DEF Abs
    <2> QED BY <2>3, <2>4, <2>5
  <1>13. PICK change \in Int : change = q * (Delta * (after - before))
    BY LatticeAssumption
  <1>14. PICK t \in Int : t = StepNum(after) BY StepType
  <1>15. u * (1 + 2 * Abs(e)) + 2 * Abs(change) < t
    BY <1>2, <1>3, <1>4, <1>7, <1>13, <1>14 DEF m, marked
  <1>16. 2 * Abs(value * u - n) + 2 * Abs(change) < t
    <2>1. PICK lhs \in Int : lhs = 2 * Abs(value * u - n) BY DEF Abs
    <2>2. PICK rhs \in Int : rhs = u * (1 + 2 * Abs(e)) BY DEF Abs
    <2>3. Abs(change) \in Int BY DEF Abs
    <2> QED BY <1>12, <1>15, <2>1, <2>2, <2>3
  <1>17. QimBit(value * EnergyUnit, StepNum(after)) = q % 2
    BY <1>2, <1>5, <1>8, <1>13, <1>14, <1>16, EnergyChangeTolerated
  <1> QED BY <1>4, <1>7, <1>11, <1>17 DEF m, marked

-----------------------------------------------------------------------------
(* Reading *)

\* The estimate is a positive gain.
LEMMA EstimateType ==
    ASSUME NEW blocks \in Seq(Block), Enough(blocks)
    PROVE  Estimate(blocks) \in Fractions
  <1>1. SyncBlocks \in Nat /\ SyncBlocks <= Len(blocks)
    <2>1. PICK t \in Nat, n \in Nat \ {0} : t = CodewordBytes * ByteBits /\ n = BitsPerBlock
      BY SizeAssumption
    <2>2. t \div n \in Nat OBVIOUS
    <2>3. DataBlocks \in Nat BY <2>1, <2>2 DEF DataBlocks
    <2> QED BY <2>3, SizeAssumption DEF Enough
  <1>2. IsFiniteSet(Lit(blocks)) /\ Cardinality(Lit(blocks)) \in Nat
    <2>1. IsFiniteSet(1..SyncBlocks) BY <1>1, FS_Interval
    <2> QED BY <2>1, FS_Subset, FS_CardinalityType DEF Lit
  <1> DEFINE r == [b \in Lit(blocks) |-> Ratio(blocks[b].sync)]
  <1>3. r \in [Lit(blocks) -> Fractions]
    <2>1. ASSUME NEW b \in Lit(blocks) PROVE Ratio(blocks[b].sync) \in Fractions
      <3>1. b \in 1..Len(blocks) /\ blocks[b].sync # 0 BY <1>1 DEF Lit
      <3>2. blocks[b] \in Block BY <3>1
      <3>3. blocks[b].sync \in Int BY <3>2 DEF Block
      <3> QED BY <3>1, <3>3, RatioType
    <2> QED BY <2>1
  <1>4. CASE Lit(blocks) = {}
    BY <1>4 DEF Estimate, Fractions
  <1>5. CASE Lit(blocks) # {}
    <2>1. Estimate(blocks) = Median(r) BY <1>5, Zenon DEF Estimate
    <2> HIDE DEF r
    <2>2. 2 * Cardinality(Lit(blocks)) > Cardinality(Lit(blocks))
      BY <1>2, <1>5, FS_EmptySet
    <2>3. Lit(blocks) \in SUBSET Lit(blocks) OBVIOUS
    <2> QED BY <1>2, <1>3, <2>1, <2>2, <2>3, MedianWithin
  <1> QED BY <1>4, <1>5

\* Where bit j of byte i is: the block and the coefficient.
BlockOf(i) == SyncBlocks + 1 + (i - 1) \div BitsPerBlock
PlaceOf(i) == 1 + ((i - 1) % BitsPerBlock)

LEMMA BitPlace ==
    ASSUME NEW i \in 1..CodewordBytes, NEW j \in 1..ByteBits
    PROVE  LET p == (i - 1) * ByteBits + j IN
           /\ p \in 1..CodewordBytes * ByteBits
           /\ BlockOf(p) \in SyncBlocks + 1 .. SyncBlocks + DataBlocks
           /\ PlaceOf(p) \in 1..BitsPerBlock
           /\ Position(BlockOf(p), PlaceOf(p)) = p
           /\ 1 + (p - 1) \div ByteBits = i
  <1>1. PICK n \in Nat \ {0}, d \in Nat \ {0}, m \in Nat, s \in Nat :
            n = BitsPerBlock /\ d = ByteBits /\ m = CodewordBytes /\ s = SyncBlocks
    BY SizeAssumption
  <1>2. PICK t \in Nat : t = m * d OBVIOUS
  <1>3. PICK q \in Int : q = DataBlocks /\ q = t \div n
    BY <1>1, <1>2, Division DEF DataBlocks
  <1>4. t = n * q
    <2>1. t % n = 0 BY <1>1, <1>2, SizeAssumption
    <2>2. t % n = t - n * (t \div n) BY Division
    <2> QED BY <1>3, <2>1, <2>2
  <1>5. PICK h \in Int : h = i - 1 /\ 0 <= h /\ h <= m - 1 BY <1>1
  <1>6. d * h >= 0 /\ d * h <= d * (m - 1) BY <1>5
  <1>7. d * (m - 1) = m * d - d /\ h * d = d * h BY <1>5
  <1>8. PICK p \in Int : p = h * d + j /\ p - 1 = d * h + (j - 1) /\ 1 <= p /\ p <= t
    BY <1>1, <1>2, <1>5, <1>6, <1>7
  <1>9. (i - 1) * ByteBits + j = p BY <1>1, <1>5, <1>8
  <1>10. (p - 1) \div d = h
    <2>1. PICK u \in Int : u = j - 1 /\ 0 <= u /\ u < d BY <1>1
    <2>2. (d * h + u) \div d = h BY <1>5, <2>1, DivisionIs
    <2> QED BY <1>8, <2>1, <2>2
  <1>11. PICK c \in Int, k \in Int :
             /\ c = (p - 1) \div n /\ k = (p - 1) % n
             /\ p - 1 = n * c + k /\ 0 <= k /\ k < n
    <2>1. p - 1 \in Int OBVIOUS
    <2> QED BY <2>1, Division
  <1>12. 0 <= c
    <2>1. ASSUME c <= -1 PROVE FALSE
      <3>1. n * c <= n * (-1) BY <2>1
      <3> QED BY <1>8, <1>11, <3>1
    <2> QED BY <2>1
  <1>13. c <= q - 1
    <2>1. ASSUME c >= q PROVE FALSE
      <3>1. n * c >= n * q BY <2>1
      <3> QED BY <1>4, <1>8, <1>11, <3>1
    <2> QED BY <2>1
  <1>14. BlockOf(p) = s + 1 + c /\ PlaceOf(p) = 1 + k
    BY <1>1, <1>11 DEF BlockOf, PlaceOf
  <1>15. Position(BlockOf(p), PlaceOf(p)) = p
    <2>1. c * n = n * c OBVIOUS
    <2>2. (s + 1 + c) - s - 1 = c OBVIOUS
    <2>3. Position(s + 1 + c, 1 + k) = c * n + (1 + k) BY <1>1, <2>2 DEF Position
    <2>4. PICK x \in Int : x = n * c OBVIOUS
    <2>5. x + (1 + k) = p BY <1>11, <2>4
    <2> QED BY <1>14, <2>1, <2>3, <2>4, <2>5
  <1>16. p \in 1..CodewordBytes * ByteBits BY <1>1, <1>2, <1>8
  <1>17. 1 + (p - 1) \div ByteBits = i BY <1>1, <1>5, <1>10
  <1>18. /\ BlockOf(p) \in SyncBlocks + 1 .. SyncBlocks + DataBlocks
         /\ PlaceOf(p) \in 1..BitsPerBlock
    BY <1>1, <1>3, <1>11, <1>12, <1>13, <1>14
  <1> QED BY <1>9, <1>15, <1>16, <1>17, <1>18

\* A bit is read as planned from a coefficient that is near the planned multiple.
LEMMA BitRead ==
    ASSUME NEW blocks \in Seq(Block), Enough(blocks),
           NEW p \in 1..CodewordBytes * ByteBits, NEW q \in Int,
           BlockOf(p) \in 1..Len(blocks), PlaceOf(p) \in 1..BitsPerBlock,
           LET num == ReadNum(blocks[BlockOf(p)], PlaceOf(p), Estimate(blocks))
               den == ReadDen(blocks[BlockOf(p)], Estimate(blocks))
           IN 2 * Abs(num - q * den) < den
    PROVE  ReadBits(blocks)[p] = q % 2
  <1> DEFINE g == Estimate(blocks)
             block == blocks[BlockOf(p)]
  <1>1. PICK g1, g2 \in Nat \ {0} : g1 = g[1] /\ g2 = g[2]
    <2>1. g \in Fractions BY EstimateType
    <2> HIDE DEF g
    <2> QED BY <2>1 DEF Fractions
  <1>2. block \in Block OBVIOUS
  <1>3. PICK den \in Int : den = ReadDen(block, g) /\ den > 0
    <2>1. PICK s \in Nat \ {0} : s = StepNum(Energy(block)) BY <1>2, EnergyType, StepType
    <2>2. s * g1 >= 1 /\ s * g1 \in Int OBVIOUS
    <2> HIDE DEF g, block
    <2> QED BY <1>1, <2>1, <2>2 DEF ReadDen
  <1>4. PICK num \in Int : num = ReadNum(block, PlaceOf(p), g)
    <2>1. PICK v \in Int : v = block.data[PlaceOf(p)] BY <1>2 DEF Block
    <2>2. PICK u \in Int : u = EnergyUnit BY LatticeAssumption
    <2>3. v * u * g2 \in Int OBVIOUS
    <2> HIDE DEF g, block
    <2> QED BY <1>1, <2>1, <2>2, <2>3 DEF ReadNum
  <1>5. 2 * Abs(num - q * den) < den BY <1>3, <1>4
  <1>6. ReadBits(blocks)[p] = QimBit(num, den)
    BY <1>3, <1>4, Zenon DEF ReadBits, BlockOf, PlaceOf
  <1> QED BY <1>3, <1>5, <1>6, BitSurvives

-----------------------------------------------------------------------------
(* Correction *)

\* Distances are counted by any set of bytes that contains the wrong ones.
LEMMA DistanceWithin ==
    ASSUME NEW a, NEW c, NEW B, IsFiniteSet(B),
           \A i \in 1..CodewordBytes : a[i] # c[i] => i \in B
    PROVE  Distance(a, c) \in Nat /\ Distance(a, c) <= Cardinality(B)
  <1>1. {i \in 1..CodewordBytes : a[i] # c[i]} \in SUBSET B OBVIOUS
  <1> QED BY <1>1, FS_Subset, FS_CardinalityType DEF Distance

LEMMA DistanceType ==
    ASSUME NEW a, NEW c
    PROVE  Distance(a, c) \in 0..CodewordBytes
  <1>1. CodewordBytes \in Nat BY SizeAssumption
  <1>2. IsFiniteSet(1..CodewordBytes) /\ Cardinality(1..CodewordBytes) = CodewordBytes
    BY <1>1, FS_Interval
  <1>3. Distance(a, c) \in Nat /\ Distance(a, c) <= CodewordBytes
    BY <1>2, DistanceWithin
  <1> QED BY <1>1, <1>3

\* A codeword with no more wrong bytes than the code corrects is decoded as what
\* it was: no other payload is as near (reedsolo's promise, from the distance of
\* the codewords alone).
THEOREM DecodesWithinRadius ==
    ASSUME NEW p \in Payloads, NEW codeword,
           Distance(Codeword(p), codeword) <= Radius
    PROVE  Decode(codeword) = [status |-> "ok", payload |-> p,
                               errors |-> Distance(Codeword(p), codeword)]
  <1> DEFINE near == {o \in Payloads : Within(o, codeword)}
             differ(a, c) == {i \in 1..CodewordBytes : a[i] # c[i]}
  <1>1. p \in near BY DEF Within
  <1>2. ASSUME NEW o \in near PROVE o = p
    <2> SUFFICES ASSUME o # p PROVE FALSE OBVIOUS
    <2> DEFINE A == differ(Codeword(p), codeword)
               B == differ(Codeword(o), codeword)
    <2>1. CodewordBytes \in Nat /\ EccBytes \in Nat BY SizeAssumption
    <2>2. IsFiniteSet(1..CodewordBytes) BY <2>1, FS_Interval
    <2>3. A \in SUBSET (1..CodewordBytes) /\ B \in SUBSET (1..CodewordBytes) OBVIOUS
    <2>4. Cardinality(A) <= Radius /\ Cardinality(B) <= Radius
      BY <1>2 DEF Distance, Within
    <2>5. \A i \in 1..CodewordBytes :
             Encode[p][i] # Encode[o][i] => i \in A \cup B
      BY DEF Codeword
    <2> HIDE DEF A, B
    <2>6. /\ IsFiniteSet(A) /\ IsFiniteSet(B) /\ IsFiniteSet(A \cup B)
          /\ Cardinality(A) \in Nat /\ Cardinality(B) \in Nat
          /\ Cardinality(A \cup B) \in Nat
      BY <2>2, <2>3, FS_Subset, FS_Union, FS_CardinalityType
    <2>7. Cardinality(A \cup B) <= Cardinality(A) + Cardinality(B)
      <3>1. Cardinality(A \cap B) \in Nat /\ IsFiniteSet(A \cap B)
        BY <2>6, FS_Intersection, FS_CardinalityType
      <3>2. Cardinality(A \cup B) = Cardinality(A) + Cardinality(B) - Cardinality(A \cap B)
        BY <2>6, FS_Union
      <3> QED BY <2>6, <3>1, <3>2
    <2>8. Distance(Encode[p], Encode[o]) <= Cardinality(A \cup B)
          /\ Distance(Encode[p], Encode[o]) \in Nat
      BY <2>5, <2>6, DistanceWithin
    <2>9. Distance(Encode[p], Encode[o]) > EccBytes
      BY CodecAssumption
    <2>10. 2 * Radius <= EccBytes /\ Radius \in Int BY <2>1 DEF Radius
    <2> QED BY <2>1, <2>4, <2>6, <2>7, <2>8, <2>9, <2>10
  <1>3. near = {p} BY <1>1, <1>2
  <1> DEFINE pick == CHOOSE o \in near : TRUE
  <1>4. pick = p
    <2> HIDE DEF near
    <2> QED BY <1>3
  <1>5. near # {} BY <1>3
  <1>6. Decode(codeword) = [status |-> "ok", payload |-> pick,
                            errors |-> Distance(Codeword(pick), codeword)]
    BY <1>5, Zenon DEF Decode
  <1> HIDE DEF pick
  <1> QED BY <1>4, <1>6

=============================================================================
