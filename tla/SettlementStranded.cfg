SPECIFICATION Spec
CONSTANTS
    None = None
    Commitments = {k1}
    TxIds = {t1, t2}
    Matchers = {m1, m2}
    MaxRetries = 1
    MaxTime = 2
    MaxStaleness = 1
    LateFailures = TRUE
SYMMETRY Symmetry
INVARIANTS
    ExpirySparesInFlight
