CONSTANTS
  Size = 2
  MaxParents = 2
  MaxOthers = 1
  Slots = 3
  MaxPos = 2
  Abort = 1
  Timeout = 1
  Cooldown = 1
  StopCooldown = 1
SPECIFICATION SpecPairs
INVARIANTS
  BeliefHolds
  GroupWithinCap
PROPERTIES
  PendingEnds
