CONSTANTS
    Users = {u1, u2}
    Sessions = {s1}
    Worktrees = {w1}
    Contents = {c1, c2, edited}
    Commits = {c1, c2}
    Pids = {p1, p2}
    Windows = TRUE
    MaxStarts = 2
    MaxDisturbances = 1
SPECIFICATION ReviewSpec
INVARIANTS
    SignalsOwn
    StoppedIsGone
    LiveIsRecorded
    QuietlyPictured
SYMMETRY Symmetry
CHECK_DEADLOCK FALSE
