SPECIFICATION Spec
CONSTANTS
    Workers = {new}
    Survivor = new
    NoOne = NoOne
    Repairs = {"REPAIR"}
    MaxFaults = 1
    MaxOutages = 0
    MaxMeddling = 0
INVARIANT AlwaysManaged
CHECK_DEADLOCK FALSE
