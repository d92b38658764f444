CONSTANTS
  MaxStarts = 2
  MaxPresses = 3
  MaxCrashes = 1
SPECIFICATION FairSpec
INVARIANTS
  GateInv
  PanelAgrees
  OffHolds
PROPERTIES
  OffTakesEffect
CHECK_DEADLOCK FALSE
