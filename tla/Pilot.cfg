SPECIFICATION MCSpec
CONSTANTS
    a = a
    b = b
    Cases <- MCCases
    first = s1
    Salts = {s1, s2}
    Versions = {1, 2}
    Reviewers = {r1, r2}
    Proposals = {p1, p2}
    SliceSizes = {2}
    MaxMishaps = 1
    MaxChanges = 1
SYMMETRY Symmetry
INVARIANTS
    TypeOK
    ResumeWorks
PROPERTIES
    ReviewStands
    SliceSound
    SpoiledForGood
CHECK_DEADLOCK FALSE
