\* Two embeds and a fetch of the first one's image; two workers, one
\* connection each, so that every request can find the pool empty.
SPECIFICATION Spec
CONSTANTS
    e1 = e1   e2 = e2   q1 = q1   q2 = q2   q3 = q3
    l1 = l1   w1 = w1   w2 = w2
    Embeds = {e1, e2}
    Images = {q1}
    Verifies = {}
    Legacy = {}
    Workers = {w1, w2}
    PoolCap = 1
    Asked <- MCAskedOne
SYMMETRY MCWorkerSymmetry
INVARIANTS
    TypeOK
    SuccessIsDurable
    FailureLeavesNoRow
    NoLeak
    ReadsAreRegular
PROPERTY ImplementsAtomicLedger
