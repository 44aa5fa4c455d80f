SPECIFICATION Spec
CONSTANTS
    None = None
    Commitments = {k1}
    TxIds = {t1}
    Instants = {0, 1}
    MaxRetries = 1
PROPERTY
    LastFailureStaysRecorded
