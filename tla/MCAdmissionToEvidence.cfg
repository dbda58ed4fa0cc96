SPECIFICATION SumSpec
CONSTANTS
    e1 = e1
    e2 = e2
    e3 = e3
    q1 = q1
    q2 = q2
    EscrowIds = {e1, e2, e3}
    EscrowProofs = {q1, q2}
    EscrowInstants = {0, 1, 2}
    IssuedFor <- MCIssuedFor
    EscrowExpiry <- MCEscrowExpiry
    Durable = TRUE
    Submissions = {"s1"}
    KernelRequests <- KernelCases
    SealFields = {"pccb_id", "expires_at", "action"}
    KernelFaulty = TRUE
    SignedIntents <- MintedIntents
    Grants <- ProofGrants
    Presentations <- ProofCases
    VerificationMaxTime = 3
    Proofs = {"p", "q"}
    MaxOutcomes = 2
    WritesMayFail = TRUE
    KeyIds = {"k"}
    Secrets = {"old", "new", "other"}
    ResourceSecrets = {"old", "new"}
    MaxRotations = 2
    MaxPath = 9
    PreflightIntents <- PreflightCases
    Answers <- FullAnswers
    SignedSets <- ApprovalSets
    MaxRounds = 4
INVARIANTS RedeemedOnce AdmittedIsComplete DenyDominates AcceptedIsAuthorised  CanonicalAgreement  VerifiedTellsOneStory AnchorsAreRecorded VerdictTellsWhatRan 
 
CHECK_DEADLOCK FALSE
