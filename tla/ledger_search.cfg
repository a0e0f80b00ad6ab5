\* Three rows of two accounts, searched, looked up and listed while they are
\* registered, on the databases with and without migration 0002.
SPECIFICATION Spec
CONSTANTS
    r1 = r1   r2 = r2   r3 = r3   ann = ann   bob = bob
    w1 = w1   w2 = w2   w3 = w3
    NoHash = NoHash   NotHex = NotHex   NoPayload = NoPayload   NoAccount = NoAccount
    Rows <- MCRows
    PHash <- MCPHash
    DHash <- MCDHash
    Payload <- MCPayload
    Account <- MCAccount
    Created <- MCCreated
    Hashes <- MCHashes
    Suspects <- MCSuspects
    Limits = {1, 2, 3}
    Distances = {0}
    PageSizes = {1, 2}
    FuzzyLimit = 2
    FuzzyDistance = 1
INVARIANTS
    TypeOK
    NearestFirst
    NoDuplicateHits
    DistancesBelongToRow
    ExactMatchWins
    PagingMissesNothing
