SPECIFICATION MCSpec
CONSTANTS
    a1 = a1
    a2 = a2
    a3 = a3
    a4 = a4
    b1 = b1
    a5 = a5
    id = id
    ood = ood
    train = train
    heldout = heldout
    final_ood = final_ood
    Papers <- MCPapers
    Strata = {id, ood}
    Stratum <- MCStratum
    SplitOrder <- MCSplitOrder
    Quota <- MCQuota
    ReserveMinimum <- MCReserveMinimum
    MinimumPool = 5
INVARIANTS
    TypeOK
    QuotasKept
    Partitioned
    HistoryExplains
PROPERTIES
    AuditEnds
CHECK_DEADLOCK FALSE
