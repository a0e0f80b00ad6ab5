--------------------------- MODULE WatermarkCodec --------------------------
(* The watermark of app/engine/watermark.py in an image of 8x8 blocks that    *)
(* is marked, changed on its way and read: a block is its data coefficients,  *)
(* its synchronisation coefficient and the energy of the rest.                *)
EXTENDS QimLattice, Sequences, FiniteSets

CONSTANTS
    SyncBlocks,      \* SYNC_BLOCKS
    BitsPerBlock,    \* BITS_PER_BLOCK
    ByteBits,        \* bits of a byte
    EccBytes,        \* ECC_BYTES
    CodewordBytes,   \* CODEWORD_BYTES
    Payloads,        \* the payloads there are
    NoPayload,
    Encode,          \* the Reed-Solomon code: payload to sequence of bytes
    Images,          \* images to mark: [width, blocks], blocks in raster order
    Junk,            \* what a damaged block may become
    Gains,           \* amplitude changes <<n, d>> of a channel
    Noise,           \* rounding errors of a whole image in the pixel domain
    MaxEvents        \* bound of the models on what happens to one image

DataBlocks == (CodewordBytes * ByteBits) \div BitsPerBlock

\* Byte errors the code corrects.
Radius == EccBytes \div 2

\* What the codec makes of a payload.
Codeword(p) == Encode[p]

Distance(a, b) == Cardinality({i \in 1..CodewordBytes : a[i] # b[i]})

\* What is left of a number without its last n bits.
Shift(number, n) ==
    LET half[j \in 0..n] == IF j = 0 THEN number ELSE half[j - 1] \div 2
    IN half[n]

ASSUME SizeAssumption ==
    /\ SyncBlocks \in Nat /\ EccBytes \in Nat /\ CodewordBytes \in Nat
    /\ MaxEvents \in Nat
    /\ BitsPerBlock \in Nat \ {0} /\ ByteBits \in Nat \ {0}
    /\ (CodewordBytes * ByteBits) % BitsPerBlock = 0

\* Codewords are sequences of bytes, and far enough apart for Radius errors.
ASSUME CodecAssumption ==
    /\ NoPayload \notin Payloads
    /\ \A p \in Payloads :
          /\ Encode[p] \in [1..CodewordBytes -> Nat]
          /\ \A i \in 1..CodewordBytes : Shift(Encode[p][i], ByteBits) = 0
          /\ \A o \in Payloads \ {p} : Distance(Encode[p], Encode[o]) > EccBytes

\* A block of coefficients; rest is a sum of absolute values.
Block == [data : [1..BitsPerBlock -> Int], sync : Int, rest : Nat]

ASSUME ImageAssumption ==
    /\ Images \subseteq [width : Nat \ {0}, blocks : Seq(Block)]
    /\ Junk \subseteq Block
    /\ Gains \subseteq Nat \X (Nat \ {0})
    /\ Noise \subseteq Int

VARIABLES
    image,           \* the image in circulation: [width, blocks]
    payload,         \* the payload it was marked with last
    plan,            \* per block: the indices the last marking chose
    gain,            \* the amplitude change since
    harmed,          \* the blocks that are not what the last marking left
    events,          \* how much has happened to the image
    verdict          \* what the last extraction said

imageVars == <<image, payload, plan, gain, harmed, events>>

NoVerdict == [status |-> "none", payload |-> NoPayload, errors |-> 0]

-----------------------------------------------------------------------------
(* Bits and bytes *)

\* Bit k of the stream, the first of a byte being its most significant one.
Bit(codeword, k) ==
    LET byte == codeword[1 + (k - 1) \div ByteBits]
        place == ByteBits - 1 - ((k - 1) % ByteBits)
    IN Shift(byte, place) % 2

\* Mutant: the first bit of a byte is taken for its least significant one.
ByteLsbFirst(bits, i) ==
    LET value[j \in 0..ByteBits] ==
            IF j = 0 THEN 0 ELSE 2 * value[j - 1] + bits[i * ByteBits - j + 1]
    IN value[ByteBits]

\* Byte i of a stream of bits.
Byte(bits, i) ==
    LET value[j \in 0..ByteBits] ==
            IF j = 0 THEN 0 ELSE 2 * value[j - 1] + bits[(i - 1) * ByteBits + j]
    IN value[ByteBits]

-----------------------------------------------------------------------------
(* Blocks *)

\* The sum of the absolute AC coefficients.
Energy(block) ==
    LET sum[k \in 0..BitsPerBlock] ==
            IF k = 0 THEN 0 ELSE sum[k - 1] + Abs(block.data[k])
    IN sum[BitsPerBlock] + Abs(block.sync) + block.rest

\* The k-th bit that block b carries, counted in the stream.
Position(b, k) == (b - SyncBlocks - 1) * BitsPerBlock + k

\* What marking with the bits of a codeword makes of block b: the indices, the
\* step's numerator and its denominator.
Marking(block, b, codeword) ==
    IF b <= SyncBlocks
    THEN [index |-> <<QimIndex(block.sync, Delta, 1)>>, num |-> Delta, den |-> 1]
    ELSE LET num == StepNum(Energy(block)) IN
         [index |-> [k \in 1..BitsPerBlock |->
                        QimIndex(block.data[k] * EnergyUnit, num,
                                 Bit(codeword, Position(b, k)))],
          num |-> num, den |-> EnergyUnit]

\* Going back to pixels rounds the coefficients; e is what else it does to them.
Marked(block, b, m, e) ==
    LET settled(k) == Round(m.index[k] * m.num, m.den) + e IN
    IF b <= SyncBlocks
    THEN [block EXCEPT !.sync = settled(1)]
    ELSE [block EXCEPT !.data = [k \in 1..BitsPerBlock |-> settled(k)]]

-----------------------------------------------------------------------------
(* Reading *)

\* The k-th smallest of a family of ratios.
Nth(ratios, k) ==
    ratios[CHOOSE b \in DOMAIN ratios :
              /\ Cardinality({c \in DOMAIN ratios : ~RatioLeq(ratios[b], ratios[c])}) < k
              /\ Cardinality({c \in DOMAIN ratios : RatioLeq(ratios[c], ratios[b])}) >= k]

\* Mutant: the greatest ratio instead of the median.
MedianGreatest(ratios) == Nth(ratios, Cardinality(DOMAIN ratios))

\* The one in the middle, or the mean of the two.
Median(ratios) ==
    LET n == Cardinality(DOMAIN ratios)
    IN IF n % 2 = 1 THEN Nth(ratios, (n + 1) \div 2)
       ELSE Mean(Nth(ratios, n \div 2), Nth(ratios, n \div 2 + 1))

\* The synchronisation blocks that say something about the gain.
Lit(blocks) == {b \in 1..SyncBlocks : blocks[b].sync # 0}

\* The median of their ratios.
Estimate(blocks) ==
    IF Lit(blocks) = {} THEN <<1, 1>>
    ELSE Median([b \in Lit(blocks) |-> Ratio(blocks[b].sync)])

\* The index coefficient k of a block is read at, under an estimate of the gain.
ReadNum(block, k, g) == block.data[k] * EnergyUnit * g[2]
ReadDen(block, g) == StepNum(Energy(block)) * g[1]

ReadBits(blocks) ==
    LET g == Estimate(blocks) IN
    [i \in 1..CodewordBytes * ByteBits |->
        LET block == blocks[SyncBlocks + 1 + (i - 1) \div BitsPerBlock]
            k == 1 + ((i - 1) % BitsPerBlock)
        IN QimBit(ReadNum(block, k, g), ReadDen(block, g))]

ReadCodeword(blocks) ==
    LET bits == ReadBits(blocks) IN [i \in 1..CodewordBytes |-> Byte(bits, i)]

\* What the Reed-Solomon decoder corrects to p.
Within(p, codeword) == Distance(Codeword(p), codeword) <= Radius

Decode(codeword) ==
    LET near == {p \in Payloads : Within(p, codeword)} IN
    IF near = {}
    THEN [status |-> "failed", payload |-> NoPayload, errors |-> 0]
    ELSE LET p == CHOOSE p \in near : TRUE IN
         [status |-> "ok", payload |-> p, errors |-> Distance(Codeword(p), codeword)]

Enough(blocks) == Len(blocks) >= SyncBlocks + DataBlocks

-----------------------------------------------------------------------------
(* The life of an image *)

CodecInit ==
    /\ image \in Images
    /\ payload = NoPayload
    /\ plan = <<>>
    /\ gain = <<1, 1>>
    /\ harmed = {}
    /\ events = 0
    /\ verdict = NoVerdict

Happens == events < MaxEvents /\ events' = events + 1

\* embed_watermark on the image in circulation, whatever it carries already.
Embed(p, e) ==
    /\ Enough(image.blocks)
    /\ LET used == 1..SyncBlocks + DataBlocks
           blocks == image.blocks
           marking == [b \in used |-> Marking(blocks[b], b, Codeword(p))]
       IN
       /\ plan' = [b \in used |-> marking[b].index]
       /\ image' = [image EXCEPT !.blocks =
                      [b \in 1..Len(blocks) |->
                          IF b \in used THEN Marked(blocks[b], b, marking[b], e)
                          ELSE blocks[b]]]
    /\ payload' = p
    /\ gain' = <<1, 1>>
    /\ harmed' = {}
    /\ verdict' = NoVerdict
    /\ UNCHANGED events

\* extract_watermark.
Extract ==
    /\ verdict' = IF Enough(image.blocks)
                  THEN Decode(ReadCodeword(image.blocks))
                  ELSE [status |-> "capacity", payload |-> NoPayload, errors |-> 0]
    /\ UNCHANGED imageVars

\* One block is painted over, clipped or compressed beyond its step.
Damage(b, junk) ==
    /\ b \in 1..SyncBlocks + DataBlocks \ harmed
    /\ b <= Len(image.blocks)
    /\ image' = [image EXCEPT !.blocks[b] = junk]
    /\ harmed' = harmed \cup {b}
    /\ Happens
    /\ verdict' = NoVerdict
    /\ UNCHANGED <<payload, plan, gain>>

\* The contrast of the whole image changes.
Scale(g) ==
    /\ payload # NoPayload
    /\ gain = <<1, 1>>
    /\ gain' = g
    /\ LET scaled(v) == Round(v * g[1], g[2]) IN
       image' = [image EXCEPT !.blocks =
                   [b \in 1..Len(@) |->
                       [data |-> [k \in 1..BitsPerBlock |-> scaled(@[b].data[k])],
                        sync |-> scaled(@[b].sync),
                        rest |-> scaled(@[b].rest)]]]
    /\ verdict' = NoVerdict
    /\ Happens
    /\ UNCHANGED <<payload, plan, harmed>>

\* The bottom row of blocks is cut off.
CropBottom ==
    /\ Len(image.blocks) > image.width
    /\ image' = [image EXCEPT !.blocks = SubSeq(@, 1, Len(@) - image.width)]
    /\ harmed' = harmed \cap 1..Len(image'.blocks)
    /\ verdict' = NoVerdict
    /\ Happens
    /\ UNCHANGED <<payload, plan, gain>>

\* The rightmost column is cut off: raster order now runs over other blocks.
CropRight ==
    /\ image.width > 1
    /\ LET w == image.width - 1
           rows == Len(image.blocks) \div image.width
           from(i) == i + (i - 1) \div w
       IN
       /\ image' = [width |-> w,
                    blocks |-> [i \in 1..w * rows |-> image.blocks[from(i)]]]
       /\ harmed' = {i \in 1..w * rows : from(i) # i \/ i \in harmed}
    /\ verdict' = NoVerdict
    /\ Happens
    /\ UNCHANGED <<payload, plan, gain>>

-----------------------------------------------------------------------------
(* What a reading may rely on *)

\* The coefficients of block b are nearer to the planned multiples of the step
\* they are read with than to any other: the block was not harmed, and what
\* marking it did to its own energy, and the channel since, was little.
Steady(b, g) ==
    LET block == image.blocks[b]
    IN /\ b \notin harmed
       /\ \A k \in 1..BitsPerBlock :
             2 * Abs(ReadNum(block, k, g) - plan[b][k] * ReadDen(block, g))
                 < ReadDen(block, g)

\* The codeword bytes that a block which is not steady has bits of.
BadBytes ==
    LET g == Estimate(image.blocks)
        shaken == {b \in SyncBlocks + 1 .. SyncBlocks + DataBlocks : ~Steady(b, g)}
    IN {1 + (Position(b, k) - 1) \div ByteBits : b \in shaken, k \in 1..BitsPerBlock}

=============================================================================
