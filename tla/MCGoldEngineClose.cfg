CONSTANTS
    MaxSignals = 1
    MaxPositions = 2
    MaxFaults = 0
    Lots = 2
    MaxMeddling = 0
    Comment <- MCComment
SPECIFICATION Spec
INVARIANTS
    EveryCloseTold
CHECK_DEADLOCK FALSE
