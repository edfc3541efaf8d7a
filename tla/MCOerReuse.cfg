SPECIFICATION Spec
CONSTANTS
    WrappedTypes <- MCReused
    Legal <- MCReusedLegal
    Illegal <- MCReusedIllegal
    asn_DEF <- PkiTable
    Depth = 3
    MaxTrailing = 3
    MaxFlips = 24
INVARIANTS
    DecodeReportsTruth
CHECK_DEADLOCK FALSE
