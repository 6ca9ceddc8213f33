SPECIFICATION Spec
CONSTANTS
    c1 = c1
    c2 = c2
    d1 = d1
    d2 = d2
    h = h
    broken = broken
    narrow = narrow
    sound = sound
    clean = clean
    integers = integers
    reseeded = reseeded
    loose = loose
    looseBroken = looseBroken
    partial = partial
    Designs = {d1, d2}
    Forms <- MCForms
    Coerced <- MCCoerced
    Hypothesis <- MCHypothesis
    Codes = {broken, narrow, sound}
    PublicOk <- MCPublicOk
    GateOk = {sound}
    Raws = {clean, loose, looseBroken, partial}
    Parsed <- MCParsed
    CaseOrder <- MCCaseOrder
    MaxRepairs = 2
    MinimumValid = 1
    MaxPasses = 2
INVARIANTS
    ReportAgrees
    ConfirmationSound
CHECK_DEADLOCK FALSE
