SPECIFICATION Spec
CONSTANTS
    None = None
    Frames <- MCFrames
    Positions <- MCPositions
    ZeroPosition = 0
    Ports <- MCPorts
    Indeterminate <- MCIndeterminate
    Distance <- MCDistance
    Signatures <- MCSignatures
    RuleSets <- MCRuleSets
    ParserSets <- MCParserSets
    MaxFrames = 3
    QueueLimit = 1
    MaxDestFrames = 1
    MaxReports = 0
    UseGps = FALSE
INVARIANTS
    TypeOK
    ArrivalsAccounted
    EndToEnd
    OneFrameAtATime
