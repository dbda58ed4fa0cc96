SPECIFICATION SumSpec
CONSTANTS
    v1 = v1
    v2 = v2
    p1 = p1
    p2 = p2
    t1 = t1
    t2 = t2
    k1 = k1
    Keys = {k1}
    Procs = {p1, p2}
    Threads = {t1, t2}
    Instants = {1, 2, 3}
    Resolution = 2
    MaxCounter = 6
    ExpiresAt <- MCExpiresAt
    Host <- MCHost
    Verifiers = {v1, v2}
    Artifacts <- DiscoveredArtifacts
    Origin <- DiscoveryOrigin
    DefaultMaxAge = 1
    Ages = {1}
    DiscoveryMaxTime = 2
    MaxPublished = 2
    Workers = {"w1", "w2"}
    TypeOf <- AttestedType
    AttestationMaxTime = 1
    MaxMoves = 1
    KmsMoves = {"Disabled", "unreachable"}
    Faulty = TRUE
    KeySet <- AuthorityKeySet
    Party <- Authority
    Attributed <- ArtifactsAttributed
    Actions = {"h1", "h2"}
    Receipts = {"r1", "r2"}
    StatusMaxAge = 1
    Lifetime = 4
    MaxSigned = 1
    AuthorityMaxTime = 4
CONSTRAINT Noticed
INVARIANTS ConsumedOnce RollbackLocksOut StoreInv MissingIsMissing  TrustedWasSigned MonitorFollowsOneLog
PROPERTIES ActiveClaimExclusiveToTheSecond 
CHECK_DEADLOCK FALSE
