SPECIFICATION FairSpec
CONSTANTS
    g1 = g1
    g2 = g2
    g3 = g3
    limit = limit
    stop = stop
    None = None
    Groups = {g2, g3}
    MembersOf <- MCMembersOf
    DirOf <- MCDirOf
    StrategyOf <- MCStrategyOf
    MaxSweeps = 0
    MaxFaults = 1
INVARIANT OneLiveGroupPerStrategy
PROPERTY PlacedRowsSettle
CHECK_DEADLOCK FALSE
