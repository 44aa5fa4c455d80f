SPECIFICATION Spec
CONSTANTS
    Byte = {0, 1}
    ChunkWidth = 2
    ReceiverLen = 5
    U64 = {0, 1}
    InvestorClassMax = 1
    JurisdictionMax = 1
    Field = {f1, f2}
    MaxLen = 4
    MaxEdits = 4
CHECK_DEADLOCK FALSE
INVARIANTS
    BindingInv
    CommitmentBindsIntent
    LeafBindsCredential
    ReceiverIsBound
    EncodingsRoundTrip
