SPECIFICATION Spec
CONSTANTS
    Radix = 3
    LimbBase = 4
    LimbCount = 3
    Modulus = 53
    MaxText = 5
CHECK_DEADLOCK FALSE
INVARIANTS
    FieldTextInv
    VerdictIsExact
    PrintedIsCanonical
PROPERTIES
    DivisionShrinks
