\* A verification of a row that exists, while the database misbehaves.
SPECIFICATION Spec
CONSTANTS
    e1 = e1   e2 = e2   q1 = q1   q2 = q2   q3 = q3
    l1 = l1   w1 = w1   w2 = w2
    Embeds = {e1}
    Images = {}
    Verifies = {q2}
    Legacy = {l1}
    Workers = {w1}
    PoolCap = 1
    Asked <- MCAskedOne
INVARIANT NotFoundMeansAbsent
