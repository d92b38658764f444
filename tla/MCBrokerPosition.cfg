SPECIFICATION FairSpec
CONSTANTS
    Workers = {old, new}
    Survivor = new
    NoOne = NoOne
    Repairs = {"REPAIR"}
    MaxFaults = 1
    MaxOutages = 1
    MaxMeddling = 1
INVARIANTS
    BrokerInv
    OneSendPerRow
    FailedMeansNoOrder
    OverIsFlat
    EventIsAnswered
PROPERTIES
    LedgerDrains
    DeadlineCloses
CHECK_DEADLOCK FALSE
