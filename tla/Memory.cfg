SPECIFICATION Spec
CONSTANTS
    Bits = 2
    Symbols = {"p", "q"}
    Settings <- MCSettings
    Writes <- MCWrites
    Loads <- MCLoads
    Regions <- MCRegions
    MaxNames = 1
    MaxMemories = 2
    MaxFailures = 1
    MaxCalls = 4
INVARIANTS
    LoadsRight
    BindsImage
CHECK_DEADLOCK FALSE
