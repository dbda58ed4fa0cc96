SPECIFICATION Spec
CONSTANTS
    c1 = c1
    c2 = c2
    k1 = k1
    e1 = e1
    None = None
    Calls = {c1}
    Keys = {k1}
    EscrowProofs = {k1}
    EscrowIds = {e1}
    Presents <- MCPresents
    EscrowOf <- MCEscrowOf
    IssuedFor <- MCIssuedFor
    ExpiresAt <- MCExpiresAt
    EscrowExpiry <- MCEscrowExpiry
    Resolution = 1
    Durable = TRUE
    Skew = 1
    MaxTime = 0
    Faults = {"store"}
INVARIANTS OutageNotRefusedAfterEffect
CHECK_DEADLOCK FALSE
