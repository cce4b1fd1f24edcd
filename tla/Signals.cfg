SPECIFICATION FairSpec
CONSTANTS
    Events <- MCEvents
    BurstLimit = 2
    LaneCap = 1
    MinStable = 2
    MaxAge = 2
    MaxFailures = 2
    MaxClock = 2
    MaxOffers <- MCOffers
    MaxFaults = 1
    None = None
PROPERTIES QueueDrains
INVARIANTS NothingLost SamplesNotStarved ArmedIsStable
CHECK_DEADLOCK FALSE
