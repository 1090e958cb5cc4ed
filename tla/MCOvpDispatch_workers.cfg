CONSTANTS
    Tasks = {t1}
    Dispatchers = {d1, d2}
    Leader = leader
    Strategies = {"merge"}
    Diffs = {"inside", "blemish", "outside"}
    LeaderDiffs = {"none"}
    OneAtATime = FALSE
    LiveWorkers = TRUE
    LiveLeader = FALSE
    MaxWork = 3
    MaxCommits = 3
    MaxEvents = 3
SPECIFICATION DispatchSpec
INVARIANTS
    OneWorkerAtATime
    DispatchedInScope
PROPERTIES
    ReportsTheState
CHECK_DEADLOCK FALSE
