SPECIFICATION Spec
CONSTANTS
    f1 = f1
    f2 = f2
    Field = {f1, f2}
    WideLimb = WideLimb
    Byte = {0, 1}
    ChunkWidth = 2
    ReceiverLen = 5
    U64 = {0, 1}
    InvestorClassMax = 1
    JurisdictionMax = 1
    Span = 2
    Modulus = 11
    Credentials <- MCCredentials
    CredentialDepth = 2
    Policies <- MCPolicies
    PolicyDepth = 1
    Issuances <- MCIssuances
    IssuanceDepth = 1
    Receivers <- MCReceivers
    Requests <- AllRequests
    MaxEdits <- MCMaxEdits
CHECK_DEADLOCK FALSE
INVARIANTS
    WitnessesInv
    EligibilityIsSound
    ProvenanceIsSound
    JoinedByCommitment
    ConstraintsDescribeIntents
