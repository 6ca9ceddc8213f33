SPECIFICATION MCSpec
CONSTANTS
    base = base
    g1 = g1
    g2 = g2
    Groups = {base, g1, g2}
    Base = base
    MaxAttempts = 3
    Tasks = {"id", "ood"}
    OodTasks = {"ood"}
    Adapters = {1, 2, 3}
    MinDelta = 1
    MinAdapterPasses = 2
    MinRate = 80
    Margin <- MCMargin
    MaxRegressed = 50
    Tables <- MCTables
INVARIANTS
    LogSound
    LossMeansRescored
    MarginNeverDecides
SYMMETRY Symmetry
CHECK_DEADLOCK FALSE
