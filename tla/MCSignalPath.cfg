SPECIFICATION Spec
CONSTANTS
    Period <- Periods
    MaxAge = 2
    Lookback = 1
    WatchM5 = 2
    EntryM1 = 2
    MaxWatch = 1
    OldSequence = 4
    MaxTime = 5
    MaxLost = 1
    MaxStops = 1
INVARIANTS
    SignalInv
    OneSignal
PROPERTIES
    LoadedIsNewest
    EveryBarOnce
    NoHistoricalTrade
CHECK_DEADLOCK FALSE
