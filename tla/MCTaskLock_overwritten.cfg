CONSTANTS
    Procs = {p1, p2}
    MaxOps = 2
    MaxDisturbances = 1
SPECIFICATION Spec
INVARIANTS
    NothingOverwritten
SYMMETRY ProcSymmetry
CHECK_DEADLOCK FALSE
