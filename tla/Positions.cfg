SPECIFICATION Spec
CONSTANTS
    Tickets = {t1}
    Watched = {t1}
    MaxClock = 2
    MaxFaults = 1
    MaxSyncs = 0
    None = None
INVARIANTS ClosedRowIsGone OutcomesAreCaused ClosedOutIsFlat
CHECK_DEADLOCK FALSE
