CONSTANTS
  Event = {i1, a1, p1}
  Internal = {i1}
  Approved = {a1}
  Admin = {admin}
  Subscriber = {s1, s2}
  Broken = {s2}
  NoEvent = NoEvent
  Limit = 1
  MaxFaults = 1
  MaxCrashes = 1
  MaxEdits = 3
SPECIFICATION FairSpec
INVARIANTS
  DeliveryInv
  NoLeakage
  RepeatsAreExplained
PROPERTIES
  SettledMeansTold
  AdminsHear
