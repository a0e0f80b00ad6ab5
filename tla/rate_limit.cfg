\* Two workers count the calls of two routes under a key, a header that is none
\* and an address, over two windows and a deployment; no challenges.
SPECIFICATION Spec
CONSTANTS
    w1 = w1   w2 = w2   s1 = s1   s2 = s2
    Routes = {"embed", "image"}
    PublicRoutes = {"image"}
    ApiKeys = {"k1"}
    NoKey = "no key"
    NoHeader = NoHeader
    Malformed = Malformed
    Workers = {w1, w2}
    OtherKeys = {"k0"}
    Addresses = {"a1"}
    Amount <- MCAmount
    Period = 2
    TicksPerSecond = 2
    MaxTicks = 3
    Characters = {"|"}
    Accounts = {}
    Secrets = {s1}
    Nonces = {}
    TokenNonces = {}
    TTL = 1
    MaxRedeploys = 1
SYMMETRY MCWorkerSymmetry
CHECK_DEADLOCK FALSE
INVARIANTS
    TypeOK
    RefusedOnlyAtLimit
    
