----------------------------- MODULE QimLattice ----------------------------
(* Quantisation index modulation as app/engine/watermark.py does it, on      *)
(* integers: a coefficient is a whole number of the finest unit, a step a    *)
(* fraction of integers.  All that is said here is said for every such       *)
(* coefficient and step.                                                      *)
EXTENDS Integers

CONSTANTS
    Delta,           \* the step qim_delta
    EnergyUnit       \* sum of |AC| that doubles the step: 63 * 100 coefficient units

ASSUME LatticeAssumption == Delta \in Nat \ {0} /\ EnergyUnit \in Nat \ {0}

Abs(x) == IF x < 0 THEN -x ELSE x

\* int(round(n / d)) for d > 0: to the nearest, a half to the even neighbour.
Round(n, d) ==
    LET up == (2 * n + d) \div (2 * d) IN
    IF (2 * n + d) % (2 * d) = 0 /\ up % 2 = 1 THEN up - 1 ELSE up

\* Mutant: the parity of the nearest multiple is left as it is.
QimIndexAnyParity(n, d, bit) == Round(n, d)

\* The multiple of the step n / d that carries the bit: the nearest one, or the
\* next one up when its parity is wrong.
QimIndex(n, d, bit) ==
    LET q == Round(n, d) IN IF q % 2 = bit THEN q ELSE q + 1

QimBit(n, d) == Round(n, d) % 2

\* The step of a block whose AC coefficients sum to the energy is
\* StepNum(energy) / EnergyUnit.
StepNum(energy) == Delta * (EnergyUnit + energy)

\* The odd multiple of Delta a synchronisation value v # 0 is taken for: an even
\* nearest multiple is moved away from zero.
Snap(v) ==
    LET q == Round(v, Delta) IN
    IF q % 2 = 1 THEN q ELSE IF v > 0 THEN q + 1 ELSE q - 1

\* The ratio of a synchronisation value to what it is taken for. Both have one
\* sign, so numerator and denominator are positive.
Ratio(v) == <<Abs(v), Abs(Snap(v)) * Delta>>

RatioLeq(a, b) == a[1] * b[2] <= b[1] * a[2]

Mean(a, b) == <<a[1] * b[2] + b[1] * a[2], 2 * a[2] * b[2]>>

=============================================================================
