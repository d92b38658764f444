CONSTANTS
    MaxSignals = 2
    MaxPositions = 2
    MaxFaults = 2
    Lots = 3
    MaxMeddling = 1
    Comment <- MCComment
SPECIFICATION Spec
INVARIANTS
    AuthorityInv
    OwnershipInv
    AuthorityMeansAccounted
    SendsOnlyWhenFlat
    ReportedOnce
    OnlyLateFillsMisattribute
PROPERTIES
    NothingAfterClosed
CHECK_DEADLOCK FALSE
