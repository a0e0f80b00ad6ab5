\* An embed and a look-up under way at the same time.
SPECIFICATION Spec
CONSTANTS
    e1 = e1   e2 = e2   q1 = q1   q2 = q2
    Embeds = {e1, e2}
    Lookups = {q1}
    MaxInFlight = 2
    Asked <- MCAsked
INVARIANT CleanExitCommits
CHECK_DEADLOCK FALSE
