SPECIFICATION FairSpec
CONSTANTS
    InitialMode = "full"
    EodAction = "ingest_only"
    MaxRequests = 2
    MaxTurns = 2
    MaxZombies = 1
    None = None
INVARIANTS TypeOK SingleWorker ModeIsEffective ModeStopsWorkers
PROPERTIES ApplyFinishes EodStopsTrading RestoredNextSession
CHECK_DEADLOCK FALSE
