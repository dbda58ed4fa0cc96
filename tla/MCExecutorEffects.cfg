SPECIFICATION Spec
CONSTANTS
    a1 = a1
    a2 = a2
    a3 = a3
    k1 = k1
    k2 = k2
    p1 = p1
    p2 = p2
    o1 = o1
    h1 = h1
    h2 = h2
    e1 = e1
    e2 = e2
    f1 = f1
    None = None
    Attempts = {a1, a2, a3}
    Keys = {k1, k2}
    EscrowProofs = {k1, k2}
    Procs = {p1, p2}
    Operations = {o1}
    Hashes = {h1, h2}
    EscrowIds = {e1, e2}
    Effects = {f1}
    Presents <- MixedPresents
    Host <- TwoHosts
    Operation <- OneOperation
    ActionHash <- OneHash
    EscrowOf <- OwnEscrow
    IssuedFor <- OwnIssuedFor
    EffectOf <- OneEffect
    ExpiresAt <- ProofExpiry
    EscrowExpiry <- RecordExpiry
    Resolution = 2
    Durable = TRUE
    Skew = 1
    MaxTime = 2
    ReplayOn = FALSE
    FailOpen = FALSE
    UseEscrow = FALSE
    UseIdempotency = FALSE
    UseEffects = TRUE
    Faults = {"ledger", "handler", "crash"}
INVARIANTS EffectOnce RefusedMeansNoSideEffect
CHECK_DEADLOCK FALSE
