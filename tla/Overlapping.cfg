SPECIFICATION MCSpec
CONSTANTS
    Procs = {p1, p2}
    NoProc = NoProc
    Serialized = FALSE
    Paths = {o1}
    Base = base
    Groups = {base, g1}
    MaxAttempts = 1
    MaxCrashes = 1
    MaxBinds = 1
INVARIANTS
    DecisionFilesBacked
    JudgedAgainstSomeChampion
    RepeatsBounded
PROPERTIES
    CommandsEnd
CHECK_DEADLOCK FALSE
