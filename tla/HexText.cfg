SPECIFICATION HexSpec
CONSTANTS
    Base = 3
    DecimalDigits = 2
    AssetBaseLen = 1
    DiversifierLen = 1
    TransmissionKeyLen = 2
    MaxHexText = 7
CHECK_DEADLOCK FALSE
INVARIANTS
    HexTextInv
    PrintedIsFoldedText
