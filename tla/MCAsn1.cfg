SPECIFICATION Spec
CONSTANTS
    MessageTypes <- MCMessageTypes
    Legal <- MCLegal
    Illegal <- MCIllegal
    asn_DEF <- ItsTable
    Depth = 3
    MaxTrailing = 2
    MaxFlips = 16
INVARIANTS
    TypeOK
    RoundTrip
    TruncationDetected
    RestIgnored
    LegalAccepted
    ReceivedInRange
    Relayed
CHECK_DEADLOCK FALSE
