SPECIFICATION Spec
CONSTANTS
    None = None
    Frames <- MCFrames
    Positions <- MCPositions
    ZeroPosition = 0
    Ports <- MCPorts
    Indeterminate <- MCIndeterminate
    Distance <- MCDistance
    Signatures <- MCSignatures
    RuleSets <- MCRuleSets
    ParserSets <- MCParserSets
    MaxFrames = 2
INVARIANTS
    TypeOK
    VerdictFromFrame
    LogExact
    LogOrdered
    DroppedIffLogged
    ForwardedIntact
    PayloadAlive
    LeakExact
    
    IInv
CHECK_DEADLOCK FALSE
PROPERTY ImplementsFilter
