CONSTANTS
    a = a
    b = b
    c = c
    d = d
    e = e
    NoneVal = NoneVal
    None = NoneVal
    Ids <- MC_Ids
    kBuildIndexThreshold = 4
    kDestroyIndexThreshold = 2
    MaxAdvance = 2
    MaxBytes = 2
SPECIFICATION Spec
SYMMETRY MC_Symmetry
INVARIANTS
    CursorValid
    IndexConsistent
PROPERTIES
    ImplementsRoundRobinQueue
