CONSTANTS
    MaxPacketNum = 3
SPECIFICATION Spec
CHECK_DEADLOCK FALSE
INVARIANTS
    NoPacketNumberReuse
    RetryCarriesExactlyZeroRtt
