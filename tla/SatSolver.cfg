SPECIFICATION FairSpec
CONSTANTS
    NumVars = 5
    Formulas <- MCFormulas
    Lemmas <- MCLemmas
    Limits <- MCLimits
    Unbounded = 99
    MaxCalls = 2
    CallsBefore = {1, 3}
    RestartAfter = 3
    MaxReductions = 1
INVARIANTS
    ReasonsHold
    NothingMissed
    AnswersRight
    ProofChecks
PROPERTIES
    CallsEnd
