SPECIFICATION Spec
CONSTANTS
    None = None
    Frames <- GoodFrames
    Positions <- MCPositions
    ZeroPosition = 0
    Ports <- MCPorts
    Indeterminate <- MCIndeterminate
    Distance <- MCDistance
    Signatures <- MCSignatures
    RuleSets <- NoRules
    ParserSets <- AllParsers
    MaxFrames = 1
INVARIANT NoSilentDrop
CHECK_DEADLOCK FALSE
