SPECIFICATION Spec
CONSTANTS
    None = None
    Commitments = {k1}
    TxIds = {t1}
    MaxRetries = 1
    Workers = {w1}
    OpaqueProofMaxLen = 1
    MaxVersion <- MCMaxVersion
    Lifetime = 1
    MaxTime = 3
    LastAnnouncement = 1
    MaxStaleness = 1
    Terms <- MCTerms
CHECK_DEADLOCK FALSE
INVARIANTS
    ComplianceGateInv
PROPERTIES
    VerifiedUnderLiveRoots
    RotationRevokes
    SubmittedWithinCredential
