CONSTANTS
    Tasks = {t1}
    Leader = leader
    Strategies = {"cherry-pick"}
    Diffs = {"inside", "outside"}
    LeaderDiffs = {"none"}
    OneAtATime = FALSE
    LiveWorkers = TRUE
    LiveLeader = TRUE
    MaxWork = 4
    MaxCommits = 5
    MaxEvents = 2
SPECIFICATION Spec
INVARIANTS
    EvidenceBound
    OnlyReviewedLands
PROPERTIES
    NothingDestroyed
CHECK_DEADLOCK FALSE
