\* An embed, a fetch of a row without an image and a verification of the
\* embed's row compete for a single connection.
SPECIFICATION FairSpec
CONSTANTS
    e1 = e1   e2 = e2   q1 = q1   q2 = q2   q3 = q3
    l1 = l1   w1 = w1   w2 = w2
    Embeds = {e1}
    Images = {q3}
    Verifies = {q2}
    Legacy = {l1}
    Workers = {w1}
    PoolCap = 1
    Asked <- MCAskedLegacy
PROPERTIES
    EveryRequestSettles
    ImplementsAtomicLedger
