SPECIFICATION Spec
CONSTANTS
    None = None
    Commitments = {k1}
    TxIds = {t1, t2, t3}
    Matchers = {m1, m2}
    MaxRetries = 1
    MaxTime = 3
    MaxStaleness = 1
    LateFailures = TRUE
SYMMETRY Symmetry
INVARIANTS
    SettlementInv
    SettlesAtMostOnce
    ExpiredOnlyAfterExpiry
PROPERTIES
    SubmittedInTime
