CONSTANTS
  Callers = {c1, c2}
  Questions = {q1, q2, q3}
  MaxAbandoned = 1
  UsizeMod = 8
  None = None
SPECIFICATION FairSpec
INVARIANTS
  CountIsExact
  ThreadsBounded
  OutcomesAgree
  DrainNeverBlocks
PROPERTIES
  EveryCallReturns
CHECK_DEADLOCK FALSE
