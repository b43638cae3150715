SPECIFICATION Spec
CONSTANTS
    a = a
    a1 = a1
    b = b
    b1 = b1
    c = c
    c1 = c1
    d = d
    d1 = d1
    d2 = d2
    e = e
    f = f
    f1 = f1
    k1 = k1
    k2 = k2
    w1 = w1
    w2 = w2
    w3 = w3
    None = None
    Forms <- MCForms
    Batches <- MCBatches
    Rewrite <- MCRewrite
    KeptBackBy <- MCKeptBackBy
    Uses <- MCUses
    Declined = {e}
    Constraints = {k1, k2}
    Worlds = {w1, w2, w3}
    Holds <- MCHolds
    Value <- MCValue
    PerCalls = {0, 2, 9}
    Allowance = 7
    MaxCalls = 2
INVARIANTS
    SettledTogether
    ReliesOnEnough
    StatsAddUp
    AllowancePaysForAll
CHECK_DEADLOCK FALSE
