SPECIFICATION Spec
CONSTANTS
    InitialMode = "full"
    EodAction = "ingest_only"
    MaxRequests = 2
    MaxTurns = 2
    MaxZombies = 1
    None = None
INVARIANT NoExecutionOutsideFull
CHECK_DEADLOCK FALSE
