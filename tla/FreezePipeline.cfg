SPECIFICATION MCSpec
CONSTANTS
    Configs = {draft, final}
    ReadyConfigs = {final}
    Registries = {r1, r2}
    Capsules = {c1}
    Evaluators = {e1, e2}
    Audits = {passed}
    PassedAudits = {passed}
    Bases = {b1}
    Powers = {w1, w2}
    MaxCrashes = 1
    MaxEntries = 2
INVARIANTS
    TypeOK
    BundleCoherent
    BindingsHold
    RecordsAgree
PROPERTIES
    DeadEndsStay
CHECK_DEADLOCK FALSE
