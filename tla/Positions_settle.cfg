SPECIFICATION FairSpec
CONSTANTS
    Tickets = {t1}
    Watched = {}
    MaxClock = 1
    MaxFaults = 1
    MaxSyncs = 1
    None = None
PROPERTIES LiveIsTracked RowsCatchUp CloseoutSettles
CHECK_DEADLOCK FALSE
