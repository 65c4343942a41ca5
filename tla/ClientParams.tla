---------------------------- MODULE ClientParams ----------------------------
(***************************************************************************)
(* The client's handling of the server's transport parameters, from       *)
(* quic/client/state/ClientStateMachine.cpp, across successive            *)
(* connections that share a resumption cache:                             *)
(*                                                                         *)
(*   processServerInitialParams               (ingestion, with its checks) *)
(*   cacheServerInitialParams                 (recording what was learnt)  *)
(*   getServerCachedTransportParameters       (the resumption snapshot)    *)
(*   updateTransportParamsFromCachedEarlyParams (0-RTT seeding)            *)
(*                                                                         *)
(* The connection's negotiated fields are one record `conn`.  Parameter   *)
(* values are small numbers drawn from the set ServerParams.  Of the two  *)
(* symmetric stream-limit pairs (bidi and uni) only the bidirectional one *)
(* is kept.                                                               *)
(***************************************************************************)
EXTENDS Naturals

CONSTANTS
    None,                           \* an absent parameter / std::nullopt
    ServerParams,                   \* the parameter sets a server may send
    kMaxIdleTimeout,
    kMinMaxUDPPayload,
    kDefaultUDPSendPacketLen,
    kDefaultMaxUDPPayload,
    kMaxAckDelayExponent,
    kDefaultAckDelayExponent,
    kMaxDatagramPacketOverhead,
    kMaxMaxStreams,                 \* the stream manager's limit on streams
    maxReceiveTimestampsPerAckStored, \* transportSettings field
    canIgnorePathMTU                \* transportSettings field

Opt(S) == S \cup {None}

\* A decoded ServerTransportParameters.  `malformed` is an integer or token
\* parameter that fails to decode; `reliable` is the reliable_stream_reset
\* parameter (absent, empty, or with a payload); `cidMatch` says whether
\* the initial_source and original_destination connection ids are present
\* and equal to the ones the client knows.
ParamRecords ==
    [malformed : BOOLEAN, reliable : {"absent", "empty", "nonempty"},
     cidMatch : BOOLEAN, maxData : Opt(Nat), maxStreamsBidi : Opt(Nat),
     idleTimeout : Opt(Nat), ackDelayExponent : Opt(Nat), packetSize : Opt(Nat),
     maxDatagramFrameSize : Opt(Nat), tsEnabled : Opt(Nat), tsMax : Opt(Nat),
     tsExp : Opt(Nat), knob : Opt(Nat)]

ASSUME ParamsAssumption == ServerParams \subseteq ParamRecords /\ None \notin Nat
ASSUME LimitsAssumption ==
    /\ {kMaxIdleTimeout, kMinMaxUDPPayload, kDefaultUDPSendPacketLen,
        kDefaultMaxUDPPayload, kMaxAckDelayExponent, kDefaultAckDelayExponent,
        kMaxDatagramPacketOverhead, kMaxMaxStreams,
        maxReceiveTimestampsPerAckStored} \subseteq Nat
    /\ canIgnorePathMTU \in BOOLEAN

\* The negotiated state of QuicClientConnectionState that these functions
\* read and write.
TsConfigs == [max : Nat, exp : Nat]
Conns ==
    [maxOffset : Nat,            \* flowControlState.peerAdvertisedMaxOffset
     maxLocalBidi : Nat,         \* streamManager max local bidi streams
     initialMaxStreamsBidi : Nat,\* peerAdvertisedInitialMaxStreamsBidi
     initialMaxData : Nat,       \* peerAdvertisedInitialMaxData
     idleTimeout : Nat,          \* peerIdleTimeout
     ackDelayExponent : Nat,     \* peerAckDelayExponent
     udpSendPacketLen : Nat,
     datagramMaxWrite : Nat,     \* datagramState.maxWriteFrameSize
     streamWindowsSet : BOOLEAN, \* existing streams got their windows
     reliableReset : BOOLEAN,    \* peerAdvertisedReliableStreamResetSupport
     knob : BOOLEAN,             \* peerAdvertisedKnobFrameSupport
     tsConfig : Opt(TsConfigs),  \* maybePeerAckReceiveTimestampsConfig
     paramsSet : BOOLEAN]        \* serverInitialParamsSet_

\* CachedServerTransportParameters.
Caches ==
    [idleTimeout : Nat, maxRecvPacketSize : Nat, initialMaxData : Nat,
     initialMaxStreamsBidi : Nat, knob : BOOLEAN, tsEnabled : BOOLEAN,
     tsMax : Nat, tsExp : Nat, reliable : BOOLEAN]

VARIABLES
    phase,       \* "none", "handshake", "established" or "closed"
    isV1,        \* conn.version is QUIC v1 or an alias
    conn,        \* the connection's negotiated fields
    cache,       \* the client's resumption record (None when empty)
    peerParams   \* the parameters the server sent on this connection

vars == <<phase, isV1, conn, cache, peerParams>>

-----------------------------------------------------------------------------
(* Helpers.                                                                *)

\* opt.value_or(d)
ValueOr(x, d) == IF x = None THEN d ELSE x

\* std::min / timeMin
Min(a, b) == IF a <= b THEN a ELSE b

\* static_cast<uint8_t>
U8(x) == x % 256

\* A fresh QuicClientConnectionState.
FreshConn ==
    [maxOffset |-> 0, maxLocalBidi |-> 0, initialMaxStreamsBidi |-> 0,
     initialMaxData |-> 0, idleTimeout |-> 0,
     ackDelayExponent |-> kDefaultAckDelayExponent,
     udpSendPacketLen |-> kDefaultUDPSendPacketLen, datagramMaxWrite |-> 0,
     streamWindowsSet |-> FALSE, reliableReset |-> FALSE, knob |-> FALSE,
     tsConfig |-> None, paramsSet |-> FALSE]

\* AckReceiveTimestampsConfig{min(uint8 max, uint8 stored), max(uint8 exp, 0)}
tsConfigOf(max, exp) ==
    [max |-> Min(U8(max), U8(maxReceiveTimestampsPerAckStored)), exp |-> U8(exp)]

-----------------------------------------------------------------------------
(* processServerInitialParams.  Its checks, in the order the code makes    *)
(* them; each one returns TRANSPORT_PARAMETER_ERROR (or the decoder's      *)
(* error) with whatever was written before it left in place.               *)

\* Every getIntegerParameter / getStatelessResetTokenParameter lookup.
decodeFails(p) == p.malformed

\* A reliable_stream_reset parameter with a payload.
reliableResetError(p) == p.reliable = "nonempty"

\* For QUIC v1 and its aliases, the connection ids must be present and match.
connIdsMismatch(p, v1) == v1 /\ ~p.cidMatch

\* Absent or zero max_packet_size means the default.
packetSizeOf(p) ==
    IF p.packetSize = None \/ p.packetSize = 0 THEN kDefaultUDPSendPacketLen
    ELSE p.packetSize

packetSizeError(p) == packetSizeOf(p) < kMinMaxUDPPayload

\* setMaxLocalBidirectionalStreams rejects a limit above the maximum.
streamLimitError(n) == n > kMaxMaxStreams

\* QuicStreamManager::setMaxLocalBidirectionalStreams(n, force = false): the
\* local stream limit is only ever raised, never lowered, by a new value.
setMaxLocalBidirectionalStreams(cur, n) == IF n > cur THEN n ELSE cur

ackDelayExponentError(p) ==
    p.ackDelayExponent # None /\ p.ackDelayExponent > kMaxAckDelayExponent

datagramSizeError(p) ==
    /\ p.maxDatagramFrameSize # None
    /\ p.maxDatagramFrameSize > 0
    /\ p.maxDatagramFrameSize <= kMaxDatagramPacketOverhead

\* Mutant: the server's idle timeout is taken as it is.
peerIdleTimeoutUnclamped(p) == ValueOr(p.idleTimeout, 0)

\* peerIdleTimeout: the server's value, at most the local maximum.
peerIdleTimeoutOf(p) == Min(ValueOr(p.idleTimeout, 0), kMaxIdleTimeout)

\* ack_receive_timestamps_enabled = 1 with both companions present.
tsActive(p) == p.tsEnabled = 1 /\ p.tsMax # None /\ p.tsExp # None

\* The check that fails first, or "none".
Stages == <<"decode", "reliable", "cid", "packetSize", "streams", "ackDelay",
            "datagram", "none">>
failureOf(p, v1) ==
    IF decodeFails(p) THEN "decode"
    ELSE IF reliableResetError(p) THEN "reliable"
    ELSE IF connIdsMismatch(p, v1) THEN "cid"
    ELSE IF packetSizeError(p) THEN "packetSize"
    ELSE IF streamLimitError(ValueOr(p.maxStreamsBidi, 0)) THEN "streams"
    ELSE IF ackDelayExponentError(p) THEN "ackDelay"
    ELSE IF datagramSizeError(p) THEN "datagram"
    ELSE "none"

\* The code gets past check s when the failing check comes after it.
Passed(f, s) ==
    \E i, j \in 1 .. 8 : Stages[i] = f /\ Stages[j] = s /\ i > j

\* The writes, each group made only once the checks before it passed:
\* the reliable-reset flag (before the connection-id check), the flow
\* control fields (before the stream limits), the stream limit and the idle
\* timeout (before the ack delay exponent check), the exponent, packet size
\* and existing streams' windows (before the datagram check), and the rest.
processServerInitialParams(c, p, v1) ==
    LET f  == failureOf(p, v1)
        c1 == IF Passed(f, "reliable")
                THEN [c EXCEPT !.reliableReset = (p.reliable = "empty")] ELSE c
        c2 == IF Passed(f, "packetSize")
                THEN [c1 EXCEPT !.maxOffset = ValueOr(p.maxData, 0)] ELSE c1
        c3 == IF Passed(f, "streams")
                THEN [c2 EXCEPT
                        !.maxLocalBidi =
                            setMaxLocalBidirectionalStreams(@, ValueOr(p.maxStreamsBidi, 0)),
                        !.initialMaxStreamsBidi = ValueOr(p.maxStreamsBidi, 0),
                        !.idleTimeout = peerIdleTimeoutOf(p)]
                ELSE c2
        c4 == IF Passed(f, "ackDelay")
                THEN [c3 EXCEPT
                        !.ackDelayExponent = ValueOr(p.ackDelayExponent, kDefaultAckDelayExponent),
                        !.udpSendPacketLen =
                            IF canIgnorePathMTU
                              THEN Min(packetSizeOf(p), kDefaultMaxUDPPayload)
                              ELSE @,
                        !.streamWindowsSet = TRUE]
                ELSE c3
        c5 == IF f = "none"
                THEN [c4 EXCEPT
                        !.datagramMaxWrite = ValueOr(p.maxDatagramFrameSize, @),
                        !.tsConfig = IF tsActive(p) THEN tsConfigOf(p.tsMax, p.tsExp) ELSE @,
                        !.knob = ValueOr(p.knob, 0) > 0]
                ELSE c4
    IN [ok |-> f = "none", conn |-> c5]

-----------------------------------------------------------------------------
(* Caching and resumption.                                                 *)

\* Mutant: the timestamps config is only ever set, never cleared.
cacheServerInitialParamsKeepsTs(c, p) ==
    [c EXCEPT !.paramsSet = TRUE,
              !.initialMaxData = ValueOr(p.maxData, 0),
              !.initialMaxStreamsBidi = ValueOr(p.maxStreamsBidi, 0),
              !.knob = ValueOr(p.knob, 0) > 0,
              !.reliableReset = (p.reliable = "empty"),
              !.tsConfig = IF tsActive(p) THEN tsConfigOf(p.tsMax, p.tsExp) ELSE @]

\* cacheServerInitialParams, called by the transport right after a
\* successful processServerInitialParams with the same server values.
cacheServerInitialParams(c, p) ==
    [c EXCEPT !.paramsSet = TRUE,
              !.initialMaxData = ValueOr(p.maxData, 0),
              !.initialMaxStreamsBidi = ValueOr(p.maxStreamsBidi, 0),
              !.knob = ValueOr(p.knob, 0) > 0,
              !.reliableReset = (p.reliable = "empty"),
              !.tsConfig = IF tsActive(p) THEN tsConfigOf(p.tsMax, p.tsExp) ELSE None]

\* Mutant: the timestamp fields of the record are left unset (nullopt)
\* when the extension is off.
getServerCachedTransportParametersUnset(c) ==
    [idleTimeout |-> c.idleTimeout, maxRecvPacketSize |-> c.udpSendPacketLen,
     initialMaxData |-> c.initialMaxData,
     initialMaxStreamsBidi |-> c.initialMaxStreamsBidi, knob |-> c.knob,
     tsEnabled |-> c.tsConfig # None,
     tsMax |-> IF c.tsConfig # None THEN c.tsConfig.max ELSE None,
     tsExp |-> IF c.tsConfig # None THEN c.tsConfig.exp ELSE None,
     reliable |-> c.reliableReset]

\* getServerCachedTransportParameters: absent timestamp fields stay 0.
getServerCachedTransportParameters(c) ==
    [idleTimeout |-> c.idleTimeout, maxRecvPacketSize |-> c.udpSendPacketLen,
     initialMaxData |-> c.initialMaxData,
     initialMaxStreamsBidi |-> c.initialMaxStreamsBidi, knob |-> c.knob,
     tsEnabled |-> c.tsConfig # None,
     tsMax |-> IF c.tsConfig # None THEN c.tsConfig.max ELSE 0,
     tsExp |-> IF c.tsConfig # None THEN c.tsConfig.exp ELSE 0,
     reliable |-> c.reliableReset]

\* updateTransportParamsFromCachedEarlyParams: the idle timeout and flow
\* control are applied before the stream limit, which may fail.
updateTransportParamsFromCachedEarlyParams(c, k) ==
    LET c1 == [c EXCEPT !.idleTimeout = k.idleTimeout,
                        !.maxOffset = k.initialMaxData]
    IN IF streamLimitError(k.initialMaxStreamsBidi)
         THEN [ok |-> FALSE, conn |-> c1]
         ELSE [ok |-> TRUE,
               conn |-> [c1 EXCEPT
                           !.maxLocalBidi =
                               setMaxLocalBidirectionalStreams(@, k.initialMaxStreamsBidi),
                           !.knob = k.knob,
                           !.reliableReset = k.reliable,
                           !.tsConfig = IF k.tsEnabled
                                          THEN tsConfigOf(k.tsMax, k.tsExp)
                                          ELSE None]]

-----------------------------------------------------------------------------
(* The connection lifecycle around them.                                   *)

Init ==
    /\ phase = "none"
    /\ isV1 = FALSE
    /\ conn = FreshConn
    /\ cache = None
    /\ peerParams = None

\* A new connection, without resumption.
StartConnection ==
    /\ phase \in {"none", "closed"}
    /\ phase' = "handshake"
    /\ isV1' \in BOOLEAN
    /\ conn' = FreshConn
    /\ peerParams' = None
    /\ UNCHANGED cache

\* A new connection that attempts 0-RTT from the cached parameters.
StartZeroRttConnection ==
    LET r == updateTransportParamsFromCachedEarlyParams(FreshConn, cache)
    IN
    /\ phase \in {"none", "closed"}
    /\ cache # None
    /\ phase' = IF r.ok THEN "handshake" ELSE "closed"
    /\ isV1' \in BOOLEAN
    /\ conn' = r.conn
    /\ peerParams' = None
    /\ UNCHANGED cache

\* The server's transport parameters arrive in the handshake.
ReceiveServerParams(p) ==
    LET r == processServerInitialParams(conn, p, isV1)
    IN
    /\ phase = "handshake"
    /\ peerParams' = p
    /\ IF r.ok
         THEN /\ conn' = cacheServerInitialParams(r.conn, p)
              /\ phase' = "established"
         ELSE /\ conn' = r.conn
              /\ phase' = "closed"
    /\ UNCHANGED <<isV1, cache>>

\* The client stores the resumption record of an established connection.
SaveCache ==
    /\ phase = "established"
    /\ cache' = getServerCachedTransportParameters(conn)
    /\ UNCHANGED <<phase, isV1, conn, peerParams>>

CloseConnection ==
    /\ phase = "established"
    /\ phase' = "none"
    /\ UNCHANGED <<isV1, conn, cache, peerParams>>

Next ==
    \/ StartConnection
    \/ StartZeroRttConnection
    \/ \E p \in ServerParams : ReceiveServerParams(p)
    \/ SaveCache
    \/ CloseConnection

Spec == Init /\ [][Next]_vars

-----------------------------------------------------------------------------
(* Properties.                                                             *)

TypeOK ==
    /\ phase \in {"none", "handshake", "established", "closed"}
    /\ isV1 \in BOOLEAN
    /\ conn \in Conns
    /\ cache \in Opt(Caches)
    /\ peerParams \in Opt(ServerParams)

\* The idle timer is never armed beyond the local maximum: not after the
\* server's value is clamped (processServerInitialParams), and not in a
\* 0-RTT connection, which applies the cached value without a clamp
\* (updateTransportParamsFromCachedEarlyParams).
IdleTimeoutBounded == conn.idleTimeout <= kMaxIdleTimeout

\* The fields the connection uses once established, as the server's
\* parameters prescribe them. The stream manager's local limit is not among
\* them: its setter only raises it, so after a 0-RTT start it keeps a larger
\* cached limit, and the transport, not this code, rejects 0-RTT then.
ServerView(p) ==
    [maxOffset |-> ValueOr(p.maxData, 0),
     initialMaxStreamsBidi |-> ValueOr(p.maxStreamsBidi, 0),
     idleTimeout |-> Min(ValueOr(p.idleTimeout, 0), kMaxIdleTimeout),
     reliableReset |-> p.reliable = "empty",
     knob |-> ValueOr(p.knob, 0) > 0,
     tsConfig |-> IF tsActive(p) THEN tsConfigOf(p.tsMax, p.tsExp) ELSE None]
ConnView(c) ==
    [maxOffset |-> c.maxOffset, initialMaxStreamsBidi |-> c.initialMaxStreamsBidi,
     idleTimeout |-> c.idleTimeout, reliableReset |-> c.reliableReset,
     knob |-> c.knob, tsConfig |-> c.tsConfig]

\* Once the handshake completes, every negotiated field is the one this
\* server advertised, never a value seeded from the resumption cache of an
\* earlier connection: updateTransportParamsFromCachedEarlyParams may have
\* enabled ack receive timestamps that the server now omits, and
\* processServerInitialParams does not clear them.
NegotiatedMatchesServer ==
    phase = "established" => ConnView(conn) = ServerView(peerParams)

\* Spec 4.2: "On success the engine updates ..." the negotiated fields: a
\* rejected parameter set leaves the connection's fields as they were.
FailedIngestionChangesNothing ==
    [][phase = "handshake" /\ phase' = "closed" => conn' = conn]_vars

\* Spec 4.2: max_receive_timestamps_per_ack "is clamped to a local ceiling".
TimestampsClampedToCeiling ==
    phase = "established" /\ conn.tsConfig # None
        => conn.tsConfig.max = Min(peerParams.tsMax, maxReceiveTimestampsPerAckStored)

=============================================================================
