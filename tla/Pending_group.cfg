SPECIFICATION Spec
CONSTANTS
    g1 = g1
    g2 = g2
    g3 = g3
    limit = limit
    stop = stop
    None = None
    Groups = {g1}
    MembersOf <- MCMembersOf
    DirOf <- MCDirOf
    StrategyOf <- MCStrategyOf
    MaxSweeps = 1
    MaxFaults = 2
SYMMETRY MemberSymmetry
INVARIANTS RowsAreTrue LiveOrdersAreWatched
CHECK_DEADLOCK FALSE
