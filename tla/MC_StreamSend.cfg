CONSTANTS
    e1 = e1
    e2 = e2
    None = NoneVal
    NoneVal = NoneVal
    U64Max <- MC_U64Max
    NumBytes <- MC_NumBytes
    ErrorCodes <- MC_ErrorCodes
SPECIFICATION Spec
SYMMETRY MC_Symmetry
CHECK_DEADLOCK FALSE
INVARIANTS
    TypeOK
    ReliablePrefixDelivered
    ClosedHoldsNoData
    NoStreamStateError
    ClosedIffTerminal
