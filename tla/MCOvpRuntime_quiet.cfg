CONSTANTS
    Tasks = {t1, t2}
    Leader = leader
    Strategies = {"merge", "cherry-pick"}
    Diffs = {"inside", "blemish", "outside"}
    LeaderDiffs = {"none", "shared"}
    OneAtATime = TRUE
    LiveWorkers = FALSE
    LiveLeader = FALSE
    MaxWork = 3
    MaxCommits = 5
    MaxEvents = 1
SPECIFICATION Spec
INVARIANTS
    AcceptedInScope
    ManifestBacked
PROPERTIES
    ImplementsProtocol
CHECK_DEADLOCK FALSE
