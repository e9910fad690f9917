SPECIFICATION Spec
CONSTANTS
    Fingerprints = {f1}
    NoFingerprint = NoFingerprint
    Titles = {t1}
    SolutionData <- MCSolutionData
    VerificationData <- MCVerificationData
    Quota <- MCQuota
    MaxCases = 3
    Problems = 3
    Attempts = 1
    RootCauses = 1
    Solutions = 2
    Verifications = 2
    Others = 1
    MaxNodes = 6
    MaxProposals = 3
INVARIANTS
    AppliedMergesStand
CHECK_DEADLOCK FALSE
