CONSTANTS
    MaxSignals = 1
    MaxPositions = 2
    MaxFaults = 2
    Lots = 2
    MaxMeddling = 2
    Comment <- MCComment
SPECIFICATION FairSpec
PROPERTIES
    ClosedIsReleased
CHECK_DEADLOCK FALSE
