SPECIFICATION FairSpec
CONSTANTS
    AllWorkers <- Both
    EnabledOnFirstBoot <- OnlyFirst
    Pid = {p1, p2, p3}
    NoPid = NoPid
    MaxCommands = 2
    MaxExits = 1
    MaxFaults = 1
    MaxDeaths = 1
INVARIANTS
    SupervisorInv
    LatestCommandSaved
PROPERTIES
    OffKeepsOff
    DesiredRuns
