CONSTANTS
    s1 = s1
    s2 = s2
    p1 = p1
    p2 = p2
    Syncers = {s1, s2}
    Procs = {p1, p2}
    Percents = {4, 18, 20}
    Horizons = {8}
    MaxHistory = 2
    MaxDisturbances = 1
    Scenarios <- MCScenarios
    Credits = {2}
    Weekly = 13
SPECIFICATION Spec
INVARIANTS
    LunaIsCounted
    AnsweredIsLogged
    EveryLaneIsTried
    PlannedIsPermitted
    HistoryKept
    WorseIsStricter
PROPERTIES
    RunsEnd
CHECK_DEADLOCK FALSE
