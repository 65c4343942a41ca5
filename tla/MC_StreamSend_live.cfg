CONSTANTS
    e1 = e1
    e2 = e2
    None = NoneVal
    NoneVal = NoneVal
    U64Max <- MC_U64Max
    NumBytes <- MC_NumBytesLive
    ErrorCodes <- MC_ErrorCodesLive
SPECIFICATION FairSpec
CHECK_DEADLOCK FALSE
PROPERTIES
    EventuallyClosed
