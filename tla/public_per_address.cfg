\* One worker, one address and two header values on a public route.
SPECIFICATION Spec
CONSTANTS
    w1 = w1   w2 = w2   s1 = s1   s2 = s2
    Routes = {"embed", "image"}
    PublicRoutes = {"image"}
    ApiKeys = {"k1"}
    NoKey = "no key"
    NoHeader = NoHeader
    Malformed = Malformed
    Workers = {w1}
    OtherKeys = {"k0"}
    Addresses = {"a1"}
    Amount <- MCAmountOne
    Period = 2
    TicksPerSecond = 2
    MaxTicks = 2
    Characters = {"|"}
    Accounts = {}
    Secrets = {s1}
    Nonces = {}
    TokenNonces = {}
    TTL = 1
    MaxRedeploys = 0
CHECK_DEADLOCK FALSE
INVARIANT PublicLimitPerAddress
