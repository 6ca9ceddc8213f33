SPECIFICATION MCSpec
CONSTANTS
    Procs = {p1, p2}
    NoProc = NoProc
    Serialized = FALSE
    Paths = {o1}
    Base = base
    Groups = {base, g1}
    MaxAttempts = 2
    MaxCrashes = 0
    MaxBinds = 1
SYMMETRY Exchangeable
INVARIANTS
    FinalOnlyOnce
CHECK_DEADLOCK FALSE
