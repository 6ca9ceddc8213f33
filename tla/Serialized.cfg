SPECIFICATION MCSpec
CONSTANTS
    Procs = {p1}
    NoProc = NoProc
    Serialized = TRUE
    Paths = {o1, o2}
    Base = base
    Groups = {base, g1}
    MaxAttempts = 2
    MaxCrashes = 1
    MaxBinds = 2
INVARIANTS
    TypeOK
    AnchoredWhenWritten
    LabelsTruthful
PROPERTIES
    AtomicDecisions
CHECK_DEADLOCK FALSE
