SPECIFICATION Spec
CONSTANTS
    Graphs <- MCGraphs
    Apply <- MCApply
    Shapes <- MCShapes
    Known = {{0, 1}, {1, 3}}
    Premises <- MCPremises
    Questions <- MCQuestions
    h1 = h1
    h2 = h2
    Hosts = {h1, h2}
    FactWork = 20
    Caps = {1}
    Steps = 14
    Rounds = 1
    MaxCalls = 4
SYMMETRY MCHosts
INVARIANTS
    FactsHold
    CachesCurrent
    ClassesFit
CHECK_DEADLOCK FALSE
