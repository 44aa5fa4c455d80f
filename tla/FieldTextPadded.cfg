SPECIFICATION Spec
CONSTANTS
    Radix = 3
    LimbBase = 4
    LimbCount = 3
    Modulus = 53
    MaxText = 3
CHECK_DEADLOCK FALSE
INVARIANTS
    AcceptedTextIsCanonical
