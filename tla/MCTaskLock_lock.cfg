CONSTANTS
    Procs = {p1, p2, p3}
    MaxOps = 1
    MaxDisturbances = 1
SPECIFICATION FairSpec
INVARIANTS
    MutualExclusion
    NoLostUpdate
PROPERTIES
    LockIsFreed
CHECK_DEADLOCK FALSE
