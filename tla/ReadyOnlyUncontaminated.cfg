SPECIFICATION MCSpec
CONSTANTS
    Configs = {final}
    ReadyConfigs = {final}
    Registries = {r1}
    Capsules = {c1}
    Evaluators = {e1}
    Audits = {passed, failed}
    PassedAudits = {passed}
    Bases = {b1}
    Powers = {w1}
    MaxCrashes = 0
    MaxEntries = 2
INVARIANTS
    ReadyOnlyUncontaminated
CHECK_DEADLOCK FALSE
