CONSTANTS
    None = NoneVal
    NoneVal = NoneVal
    kMaxIdleTimeout = 600000
    kMinMaxUDPPayload = 1200
    kDefaultUDPSendPacketLen = 1252
    kDefaultMaxUDPPayload = 1452
    kMaxAckDelayExponent = 20
    kDefaultAckDelayExponent = 3
    kMaxDatagramPacketOverhead = 40
    kMaxMaxStreams = 1000
    maxReceiveTimestampsPerAckStored = 5
    canIgnorePathMTU = TRUE
    ServerParams <- MC_ServerParamsAckDelay
SPECIFICATION Spec
PROPERTIES
    FailedIngestionChangesNothing
