SPECIFICATION Spec
CONSTANTS
    s = s
    t = t
    a = a
    a1 = a1
    b = b
    b1 = b1
    c = c
    d = d
    None = None
    Saturators = {s, t}
    Exprs <- MCExprs
    Batches <- MCBatches
    Ending <- MCEnding
    Candidate <- MCCandidate
    Cost <- MCCost
    PerCalls = {1, 3, 9}
    Allowance = 5
    MaxCalls = 3
INVARIANTS
    MemoRight
    AllOrNothing
    CauseIsFirst
    RetryPublishes
    AllowancePaysForSearch
CHECK_DEADLOCK FALSE
