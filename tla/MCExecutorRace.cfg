SPECIFICATION Spec
CONSTANTS
    a1 = a1
    a2 = a2
    a3 = a3
    k1 = k1
    k2 = k2
    p1 = p1
    p2 = p2
    o1 = o1
    h1 = h1
    h2 = h2
    e1 = e1
    e2 = e2
    f1 = f1
    None = None
    Attempts = {a1, a2, a3}
    Keys = {k1, k2}
    EscrowProofs = {k1, k2}
    Procs = {p1}
    Operations = {o1}
    Hashes = {h1, h2}
    EscrowIds = {e1, e2}
    Effects = {f1}
    Presents <- MixedPresents
    Host <- OneHost
    Operation <- OneOperation
    ActionHash <- TwoHashes
    EscrowOf <- OwnEscrow
    IssuedFor <- OwnIssuedFor
    EffectOf <- NoEffect
    ExpiresAt <- SoonExpiry
    EscrowExpiry <- RecordExpiry
    Resolution = 1
    Durable = TRUE
    Skew = 1
    MaxTime = 1
    ReplayOn = TRUE
    FailOpen = FALSE
    UseEscrow = FALSE
    UseIdempotency = TRUE
    UseEffects = FALSE
    Faults = {}
INVARIANTS NoOrphanClaim CredentialReturned
PROPERTIES SomeoneExecutes
CHECK_DEADLOCK FALSE
