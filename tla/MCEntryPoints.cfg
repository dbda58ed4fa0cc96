SPECIFICATION SumSpec
CONSTANTS
    c1 = c1
    c2 = c2
    k1 = k1
    k2 = k2
    e1 = e1
    None = None
    Calls = {c1, c2}
    Keys = {k1, k2}
    EscrowProofs = {k1, k2}
    EscrowIds = {e1}
    Presents <- MCPresents
    EscrowOf <- MCEscrowOf
    IssuedFor <- MCIssuedFor
    ExpiresAt <- MCExpiresAt
    EscrowExpiry <- MCEscrowExpiry
    Resolution = 1
    Durable = TRUE
    Skew = 1
    MaxTime = 3
    Faults = {"store", "escrow", "handler", "writer", "crash"}
    BoundaryCalls = {"c1", "c2"}
    Workers = {"w1", "w2"}
    WorkerOf <- MCWorkerOf
    BoundaryRequests <- BoundaryCases
    Configurations <- BoundarySetups
    BoundarySkew = 1
    BoundaryMaxTime = 3
    Faulty = TRUE
    Contexts = {"c1", "c2"}
    Environments <- PostureCases
    MaxNesting = 2
    MaxObjects = 2
    ExecutorOptions <- OfferedToExecutor
    BoundaryOptions <- OfferedToBoundary
    GateOptions <- OfferedToGate
    GateCalls = {"c1", "c2"}
    Payloads <- GatePayloads
    GateRequests <- GateCases
    Ids = {"p1"}
    Policies = {"none", "approval"}
    Verdicts <- PreflightVerdicts
    Servers = {"s1", "s2"}
    McpEnvironments <- McpEnvironmentCases
    Grantable <- Granted
    ToolCalls <- McpCases
    Declarations <- McpDeclarations
    MaxProofs = 1
    MaxEntries = 2
    MaxLives = 2
INVARIANTS AtMostOnce ExecutedIsConsumed BoundaryAtMostOnce EffectReceiptHonest NoSilentDowngrade GateRunsWhatWasMinted  HistoryKept
CHECK_DEADLOCK FALSE
