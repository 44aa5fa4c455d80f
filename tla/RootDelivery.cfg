SPECIFICATION FairSpec
CONSTANTS
    Nothing = Nothing
    ByteValues = 3
    U64 <- MCU64
    ToBeBytes <- MCToBeBytes
    WordLen = 2
    RootLen = 1
    PayloadMagic <- MCMagic
    KeyIdentifierMaxLen = 2
    OpaqueSignatureMaxLen = 1
    Roots <- MCRoots
    Identifiers <- MCIdentifiers
    Windows <- MCWindows
    Receivers = {r1, r2}
    MaxVersion = 2
    MaxPublished = 2
    MaxTime = 2
    MaxStaleness = 1
CHECK_DEADLOCK FALSE
INVARIANTS
    RootDeliveryInv
PROPERTIES
    AdoptedInsideItsWindow
    ImplementsRegister
    AnnouncementsGetThrough
