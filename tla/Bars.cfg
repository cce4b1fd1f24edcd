SPECIFICATION FairSpec
CONSTANTS
    MaxBar = 2
    QueueCap = 1
    ClaimLimit = 2
    MaxRetries = 2
    Keep = 0
    MaxFaults = 2
    Lookback = 2
    ReadyBars = 2
INVARIANTS StatusesAreTrue RepeatsAreCaused
PROPERTIES EventsSettle ResultsCatchUp
CHECK_DEADLOCK FALSE
