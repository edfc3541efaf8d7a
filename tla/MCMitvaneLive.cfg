SPECIFICATION Spec
CONSTANTS
    None = None
    Frames <- MCFewFrames
    Positions <- MCPositions
    ZeroPosition = 0
    Ports <- MCPorts
    Indeterminate <- MCIndeterminate
    Distance <- MCDistance
    Signatures <- MCSignatures
    RuleSets <- MCRuleSets
    ParserSets <- MCParserSets
    MaxFrames = 2
    QueueLimit = 1
    MaxDestFrames = 0
    MaxReports = 2
    UseGps = TRUE
INVARIANTS
    PositionUpToDate
PROPERTIES
    ImplementsIdps
    PositionOnlyReplaced
    QueuedFrameIsRead
    SignalStops
