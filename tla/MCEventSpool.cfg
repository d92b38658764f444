CONSTANTS
  Event = {e1, e2, e3}
  Idle = Idle
  Minimum = 1
  MaxWrites = 3
  MaxRotations = 2
  MaxTears = 2
  MaxCrashes = 1
SPECIFICATION FairSpec
INVARIANTS
  SpoolInv
  LossIsExplained
PROPERTIES
  ImplementsEventLog
  WrittenIsStored
CHECK_DEADLOCK FALSE
