CONSTANTS
    Tasks = {t1}
    Leader = leader
    Strategies = {"merge"}
    Diffs = {"inside"}
    LeaderDiffs = {"none"}
    OneAtATime = FALSE
    LiveWorkers = TRUE
    LiveLeader = FALSE
    MaxWork = 3
    MaxCommits = 4
    MaxEvents = 0
SPECIFICATION Spec
INVARIANTS
    OnlyReviewedLands
CHECK_DEADLOCK FALSE
