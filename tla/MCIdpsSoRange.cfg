SPECIFICATION Spec
CONSTANTS
    None = None
    Frames <- GoodFrames
    Positions <- MCPositions
    ZeroPosition = 0
    Ports <- MCPorts
    Indeterminate <- MCIndeterminate
    Distance <- MCDistance
    Signatures <- MCSignatures
    RuleSets <- OneRuleSets
    ParserSets <- AllParsers
    MaxFrames = 1
INVARIANT SoRangeFromFrame
CHECK_DEADLOCK FALSE
