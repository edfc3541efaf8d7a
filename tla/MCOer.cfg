SPECIFICATION Spec
CONSTANTS
    WrappedTypes <- MCWrappedTypes
    Legal <- MCLegal
    Illegal <- MCIllegal
    asn_DEF <- PkiTable
    Depth = 3
    MaxTrailing = 3
    MaxFlips = 24
INVARIANTS
    TypeOK
    OerRoundTrip
    OerTruncationDetected
    OerRelayed
CHECK_DEADLOCK FALSE
