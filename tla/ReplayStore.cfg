SPECIFICATION Spec
CONSTANTS
    None = None
    Commitments = {k1, k2}
    TxIds = {t1, t2}
    Instants = {0, 1}
    MaxRetries = 1
SYMMETRY Symmetry
INVARIANTS
    TypeOK
    BookkeepingMatchesState
    AttemptsWithinBudget
    ConfirmedAtMostOnce
PROPERTIES
    RefusalsLeaveRecordsAlone
    TerminalRecordsAreFinal
    TxidForgottenOnlyByAcknowledgement
    KeepsPromise
