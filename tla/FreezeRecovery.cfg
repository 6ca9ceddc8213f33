SPECIFICATION DiligentSpec
CONSTANTS
    Configs = {final}
    ReadyConfigs = {final}
    Registries = {r1}
    Capsules = {c1}
    Evaluators = {e1}
    Audits = {passed}
    PassedAudits = {passed}
    Bases = {b1}
    Powers = {w1}
    MaxCrashes = 2
    MaxEntries = 2
PROPERTIES
    ReadyOrDeadEnd
CHECK_DEADLOCK FALSE
