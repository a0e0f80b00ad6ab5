\* Two embeds and two look-ups, one at a time, in every order.
SPECIFICATION Spec
CONSTANTS
    e1 = e1   e2 = e2   q1 = q1   q2 = q2
    Embeds = {e1, e2}
    Lookups = {q1, q2}
    MaxInFlight = 1
    Asked <- MCAsked
PROPERTY ImplementsAtomicLedger
\* Every request may have been answered.
CHECK_DEADLOCK FALSE
