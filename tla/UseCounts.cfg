SPECIFICATION Spec
CONSTANTS
    Starts <- MCStarts
    MaxNodes = 4
    MaxRuns = 3
INVARIANTS
    CountsExact
PROPERTIES
    ImplementsPlainUses
CHECK_DEADLOCK FALSE
