SPECIFICATION Spec
CONSTANTS
    MessageTypes <- MCExtended
    Legal <- MCExtendedLegal
    Illegal <- MCExtendedIllegal
    asn_DEF <- ItsTable
    Depth = 3
    MaxTrailing = 2
    MaxFlips = 16
INVARIANTS
    NewerAccepted
CHECK_DEADLOCK FALSE
