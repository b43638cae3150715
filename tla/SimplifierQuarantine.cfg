CONSTANTS
  Nodes <- MCNodes
  Kids <- MCKids
  Rebuild <- MCRebuild
  Below <- MCBelow
  Opaque <- MCOpaque
  Attempts <- MCAttempts
  Constraints <- MCConstraints
  Limits <- MCLimits
  Worlds <- MCWorlds
  Value <- MCValue
  Holds <- MCHolds
  None = None
  Rewriters = {"wrong", "absorb", "known", "once", "same", "host", "pass", "mba"}
  Mba = "mba"
  Asks <- MCAsks
  Links <- MCLinks
  Heeded = {"wrong", "absorb", "known", "once", "same", "host"}
  LocalPhases = {1}
  MaxRounds = 2
  NumPhases = 2
  MbaPhases = {}
  Roots = {"r"}
  Settings = {"plain"}
SPECIFICATION Spec
INVARIANTS QuarantineHolds
