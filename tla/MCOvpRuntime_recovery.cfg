CONSTANTS
    Tasks = {t1}
    Leader = leader
    Strategies = {"merge"}
    Diffs = {"inside"}
    LeaderDiffs = {"none", "shared"}
    OneAtATime = FALSE
    LiveWorkers = FALSE
    LiveLeader = TRUE
    MaxWork = 3
    MaxCommits = 5
    MaxEvents = 2
SPECIFICATION FairSpec
PROPERTIES
    AcceptedIsIntegrated
CHECK_DEADLOCK FALSE
