SPECIFICATION Spec
CONSTANTS
    MaxRules = 3
    Files <- MCFiles
    tolower <- MCtolower
INVARIANTS
    TypeOK
    PrefixLoaded
    LoadedRulesValid
    ExitOnlyOnConversion
CHECK_DEADLOCK FALSE
