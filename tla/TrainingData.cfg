SPECIFICATION MCSpec
CONSTANTS
    Candidates = {"right", "dev", "formal"}
    Order <- MCOrder
    Split <- MCSplit
    Outcomes <- MCOutcomes
    Exporters = {e1, e2}
    Imports <- MCImports
    Edits <- MCEdits
    MaxStarts = 1
    MaxImports = 3
    MaxLines = 5
    MaxExports = 2
    MaxEdits = 1
    MaxCrashes = 1
SYMMETRY Symmetry
INVARIANTS
    TypeOK
    TrainedRowsChecked
    OneSnapshot
    ScheduleFair
    ReceiptTrue
CHECK_DEADLOCK FALSE
