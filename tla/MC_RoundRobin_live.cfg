CONSTANTS
    a = a
    b = b
    c = c
    d = d
    e = e
    NoneVal = NoneVal
    None = NoneVal
    Ids <- MC_IdsLive
    kBuildIndexThreshold = 2
    kDestroyIndexThreshold = 1
    MaxAdvance = 2
    MaxBytes = 1
SPECIFICATION FairSpec
PROPERTIES
    NoStarvation
