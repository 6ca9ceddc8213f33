SPECIFICATION MCSpec
CONSTANTS
    Procs = {p1, p2}
    NoProc = NoProc
    MaxEntries = 2
    MaxCrashes = 1
    Events <- MCEvents
    Labels <- MCLabels
INVARIANTS
    TypeOK
    ChainIntact
    AnchorsTruthful
    PointerBacked
PROPERTIES
    AtomicAppend
    CallsEnd
