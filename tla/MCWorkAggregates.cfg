SPECIFICATION Spec
CONSTANTS
    c1 = c1
    f1 = f1
    b1 = b1
    t1 = t1
    t2 = t2
    p1 = p1
    Operations <- MCOperations
    NoOperation = NoOperation
    Inputs <- MCInputs
    Texts <- MCTexts
    PlainTexts <- MCPlainTexts
    NoText = NoText
    MaxNamed = 1
    MaxBatch = 1
    MaxCurations = 2
    Fingerprints <- MCFingerprints
    NoFingerprint = NoFingerprint
    SolutionData <- MCSolutionData
    VerificationData <- MCVerificationData
    MaxCases = 2
    MaxNodes = 12
    Quota <- MCQuota
    MaxProposals = 1
INVARIANTS
    TypeOK
    AllOrNothing
    CheckpointIsReused
    FinalizedChain
    OutcomeSupported
PROPERTIES
    RepeatChangesNothing
    ReuseRevivesNothing
CHECK_DEADLOCK FALSE
