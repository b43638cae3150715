CONSTANTS
  Nodes <- MCNodes
  Kids <- MCKids
  Rebuild <- MCRebuild
  Below <- MCBelow
  Opaque <- MCOpaque
  Attempts <- MCAttempts
  Constraints <- MCConstraints
  Limits <- MCLimits
  Worlds <- MCWorlds
  Value <- MCValue
  Holds <- MCHolds
  None = None
  Rewriters = {"wrong", "absorb", "known", "once", "same", "host", "pass", "mba"}
  Mba = "mba"
  Asks <- MCAsks
  Links <- MCLinks
  Heeded = {"wrong", "absorb", "known", "once", "same", "host"}
  LocalPhases = {}
  MaxRounds = 2
  NumPhases = 2
  MbaPhases = {2}
  Roots = {"r", "p"}
  Settings = {"passing", "asking"}
SPECIFICATION Spec
INVARIANTS TypeOK MemoTrue WaitsRight NeverWaitsTwice
