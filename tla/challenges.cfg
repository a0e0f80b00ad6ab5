\* Two challenges for two accounts, asked for and presented over two seconds and
\* a half and two deployments; nobody calls a limited route.
SPECIFICATION Spec
CONSTANTS
    w1 = w1   w2 = w2   s1 = s1   s2 = s2
    Routes = {"embed", "image"}
    PublicRoutes = {"image"}
    ApiKeys = {"k1"}
    NoKey = "no key"
    NoHeader = NoHeader
    Malformed = Malformed
    Workers = {w1}
    OtherKeys = {"k0"}
    Addresses = {}
    Amount <- MCAmountOne
    Period = 1
    TicksPerSecond = 2
    MaxTicks = 5
    Characters = {"a", "b", "m", "n", "|"}
    Accounts <- MCAccounts
    Secrets = {s1, s2}
    Nonces <- MCNonces
    TokenNonces <- MCTokenNonces
    TTL = 1
    MaxRedeploys = 2
SYMMETRY MCSecretSymmetry
CHECK_DEADLOCK FALSE
INVARIANTS
    AcceptedWasIssued
    FreshIsAccepted
