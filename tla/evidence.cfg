SPECIFICATION Spec
CONSTANTS
    s1 = s1
    s2 = s2
    alice = alice
    bob = bob
    Delta = 4
    EnergyUnit = 80
    SyncBlocks = 4
    BitsPerBlock = 2
    ByteBits = 4
    EccBytes = 2
    CodewordBytes = 3
    Payloads <- MCPayloads
    NoPayload <- MCNoPayload
    Encode <- MCEncode
    Images <- MCImages
    Junk <- MCJunk
    Gains <- MCGains
    Noise <- MCNoise
    MaxEvents = 3
    P = 7
    Q = 3
    G = 2
    Secrets <- MCSecrets
    HSecret <- MCHSecret
    FirstSecret = s1
    Claims <- MCClaims
    PayloadOf <- MCPayloadOf
    Hashes <- MCHashes
    Digest <- MCDigest
    Randomness <- MCRandomness
    NoManifest = NoManifest
INVARIANTS
    TypeOK
    GainWithinIntact
    RecoveredWithinCapacity
    MarksAreRegistered
    OpensUnderItsSecretOnly
    ManifestIsTheRows
