------------------------- MODULE ClientParamsProofs -------------------------
(***************************************************************************)
(* The idle timeout bound of ClientParams, for every choice of limits and *)
(* every set of parameter sets a server may send.                         *)
(***************************************************************************)
EXTENDS ClientParams, TLAPS

\* The connection keeps the shape of a QuicClientConnectionState, its idle
\* timeout is bounded, and so is the one in the resumption record: a 0-RTT
\* connection applies the cached value unclamped, so the bound must hold of
\* the cache as well.
IdleInv ==
    /\ DOMAIN conn = DOMAIN FreshConn
    /\ conn.idleTimeout \in 0 .. kMaxIdleTimeout
    /\ cache # None => cache.idleTimeout \in 0 .. kMaxIdleTimeout

\* A connection record updated field by field keeps its fields.
LEMMA FreshDomain ==
    "idleTimeout" \in DOMAIN FreshConn
BY DEF FreshConn

\* processServerInitialParams leaves a connection with a bounded idle
\* timeout with a bounded one, whether it succeeds or not.
LEMMA ProcessKeepsIdleBound ==
    ASSUME NEW c, NEW p \in ServerParams, NEW v1,
           DOMAIN c = DOMAIN FreshConn,
           c.idleTimeout \in 0 .. kMaxIdleTimeout
    PROVE  LET r == processServerInitialParams(c, p, v1)
           IN  /\ DOMAIN r.conn = DOMAIN FreshConn
               /\ r.conn.idleTimeout \in 0 .. kMaxIdleTimeout
<1>1. peerIdleTimeoutOf(p) \in 0 .. kMaxIdleTimeout
  <2>1. ValueOr(p.idleTimeout, 0) \in Nat
    BY ParamsAssumption DEF ParamRecords, Opt, ValueOr
  <2>2. QED
    BY <2>1, LimitsAssumption DEF peerIdleTimeoutOf, Min
<1>2. QED
  BY <1>1, FreshDomain DEF processServerInitialParams
\* 0-RTT seeding from a bounded resumption record gives a bounded idle
\* timeout, whether the stream limit is accepted or not.
LEMMA SeedKeepsIdleBound ==
    ASSUME NEW k, k.idleTimeout \in 0 .. kMaxIdleTimeout
    PROVE  LET r == updateTransportParamsFromCachedEarlyParams(FreshConn, k)
           IN  /\ DOMAIN r.conn = DOMAIN FreshConn
               /\ r.conn.idleTimeout \in 0 .. kMaxIdleTimeout
BY FreshDomain DEF updateTransportParamsFromCachedEarlyParams

\* IdleInv holds initially and is preserved by every step.
LEMMA IdleInvInductive == (Init => IdleInv) /\ (IdleInv /\ [Next]_vars => IdleInv')
<1>1. Init => IdleInv
  BY LimitsAssumption DEF Init, IdleInv, FreshConn
<1>2. IdleInv /\ [Next]_vars => IdleInv'
  <2> SUFFICES ASSUME IdleInv, [Next]_vars PROVE IdleInv'
    OBVIOUS
  <2>1. CASE StartConnection
    BY <2>1, LimitsAssumption DEF StartConnection, IdleInv, FreshConn
  <2>2. CASE StartZeroRttConnection
    BY <2>2, SeedKeepsIdleBound DEF StartZeroRttConnection, IdleInv
  <2>3. ASSUME NEW p \in ServerParams, ReceiveServerParams(p) PROVE IdleInv'
    <3> DEFINE r == processServerInitialParams(conn, p, isV1)
    <3>1. DOMAIN r.conn = DOMAIN FreshConn /\ r.conn.idleTimeout \in 0 .. kMaxIdleTimeout
      BY ProcessKeepsIdleBound DEF IdleInv
    <3>2. /\ DOMAIN cacheServerInitialParams(r.conn, p) = DOMAIN FreshConn
          /\ cacheServerInitialParams(r.conn, p).idleTimeout \in 0 .. kMaxIdleTimeout
      BY <3>1, FreshDomain DEF cacheServerInitialParams
    <3>3. QED
      BY <2>3, <3>1, <3>2 DEF ReceiveServerParams, IdleInv
  <2>4. CASE SaveCache
    BY <2>4, ParamsAssumption DEF SaveCache, IdleInv, getServerCachedTransportParameters
  <2>5. CASE CloseConnection
    BY <2>5 DEF CloseConnection, IdleInv
  <2>6. CASE UNCHANGED vars
    BY <2>6 DEF vars, IdleInv
  <2>7. QED
    BY <2>1, <2>2, <2>3, <2>4, <2>5, <2>6 DEF Next
<1>3. QED
  BY <1>1, <1>2

\* processServerInitialParams clamps the server's idle timeout and the
\* resumption path (getServerCachedTransportParameters, then
\* updateTransportParamsFromCachedEarlyParams) only ever replays a clamped
\* value: for every limit and every server, the connection's idle timeout
\* never exceeds kMaxIdleTimeout (IdleTimeoutBounded of the clientparams run).
THEOREM IdleTimeoutSafety == Spec => []IdleTimeoutBounded
<1>1. IdleInv => IdleTimeoutBounded
  BY DEF IdleInv, IdleTimeoutBounded
<1>2. QED
  BY <1>1, IdleInvInductive, PTL DEF Spec

-----------------------------------------------------------------------------
(* The negotiated fields of an established connection.                    *)

\* Every check of processServerInitialParams passed: each write group of
\* the function was made.
LEMMA NoneFailedPassesAll ==
    ASSUME NEW s \in {"reliable", "packetSize", "streams", "ackDelay"}
    PROVE  Passed("none", s)
BY DEF Passed, Stages

\* A successful processServerInitialParams followed by
\* cacheServerInitialParams with the same server values leaves exactly the
\* server's view in the negotiated fields, whatever the connection held
\* before (in particular, whatever 0-RTT seeded from the cache).
LEMMA SuccessSetsServerView ==
    ASSUME NEW c, DOMAIN c = DOMAIN FreshConn,
           NEW p \in ServerParams, NEW v1,
           processServerInitialParams(c, p, v1).ok
    PROVE  ConnView(cacheServerInitialParams(processServerInitialParams(c, p, v1).conn, p))
               = ServerView(p)
<1> DEFINE r == processServerInitialParams(c, p, v1)
<1>1. failureOf(p, v1) = "none"
  BY DEF processServerInitialParams
<1>2. /\ r.conn.maxOffset = ValueOr(p.maxData, 0)
      /\ r.conn.initialMaxStreamsBidi = ValueOr(p.maxStreamsBidi, 0)
      /\ r.conn.idleTimeout = peerIdleTimeoutOf(p)
      /\ r.conn.reliableReset = (p.reliable = "empty")
      /\ DOMAIN r.conn = DOMAIN FreshConn
  BY <1>1, NoneFailedPassesAll, FreshDomain DEF processServerInitialParams, FreshConn
<1>3. QED
  BY <1>2 DEF cacheServerInitialParams, ConnView, ServerView, peerIdleTimeoutOf, FreshConn

\* An established connection carries the parameters of the server it
\* negotiated with.
NInv ==
    /\ IdleInv
    /\ phase = "established" => peerParams \in ServerParams
    /\ NegotiatedMatchesServer

\* NInv holds initially and is preserved by every step.
LEMMA NInvInductive == (Init => NInv) /\ (NInv /\ [Next]_vars => NInv')
<1>1. Init => NInv
  BY IdleInvInductive DEF Init, NInv, NegotiatedMatchesServer
<1>2. NInv /\ [Next]_vars => NInv'
  <2> SUFFICES ASSUME NInv, [Next]_vars
               PROVE  /\ phase' = "established" => peerParams' \in ServerParams
                      /\ NegotiatedMatchesServer'
    BY IdleInvInductive DEF NInv
  <2>1. CASE StartConnection
    BY <2>1 DEF StartConnection, NegotiatedMatchesServer
  <2>2. CASE StartZeroRttConnection
    BY <2>2 DEF StartZeroRttConnection, NegotiatedMatchesServer
  <2>3. ASSUME NEW p \in ServerParams, ReceiveServerParams(p)
        PROVE  /\ phase' = "established" => peerParams' \in ServerParams
               /\ NegotiatedMatchesServer'
    <3>1. CASE processServerInitialParams(conn, p, isV1).ok
      <4>1. DOMAIN conn = DOMAIN FreshConn
        BY DEF NInv, IdleInv
      <4>2. QED
        BY <2>3, <3>1, <4>1, SuccessSetsServerView
           DEF ReceiveServerParams, NegotiatedMatchesServer
    <3>2. CASE ~processServerInitialParams(conn, p, isV1).ok
      BY <2>3, <3>2 DEF ReceiveServerParams, NegotiatedMatchesServer
    <3>3. QED
      BY <3>1, <3>2
  <2>4. CASE SaveCache
    BY <2>4 DEF SaveCache, NInv, NegotiatedMatchesServer
  <2>5. CASE CloseConnection
    BY <2>5 DEF CloseConnection, NegotiatedMatchesServer
  <2>6. CASE UNCHANGED vars
    BY <2>6 DEF vars, NInv, NegotiatedMatchesServer
  <2>7. QED
    BY <2>1, <2>2, <2>3, <2>4, <2>5, <2>6 DEF Next
<1>3. QED
  BY <1>1, <1>2

\* processServerInitialParams writes every negotiated field on success and
\* cacheServerInitialParams rewrites the resumable ones: for every server
\* and every limit, an established connection runs with the parameters
\* its server advertised, whatever 0-RTT seeded from the resumption cache
\* (NegotiatedMatchesServer of the clientparams run).
THEOREM NegotiatedSafety == Spec => []NegotiatedMatchesServer
<1>1. NInv => NegotiatedMatchesServer
  BY DEF NInv
<1>2. QED
  BY <1>1, NInvInductive, PTL DEF Spec

-----------------------------------------------------------------------------
(* Type correctness.                                                       *)

\* The timestamps configuration is a pair of naturals.
LEMMA TsConfigTyped ==
    ASSUME NEW m \in Nat, NEW e \in Nat
    PROVE  tsConfigOf(m, e) \in TsConfigs
BY LimitsAssumption DEF tsConfigOf, TsConfigs, U8, Min

\* The writes of the ack-delay group keep a connection record well typed.
LEMMA AckDelayGroupTyped ==
    ASSUME NEW cr \in Conns, NEW e \in Nat, NEW n \in Nat
    PROVE  [cr EXCEPT !.ackDelayExponent = e, !.udpSendPacketLen = n,
                     !.streamWindowsSet = TRUE] \in Conns
BY DEF Conns

\* The server's values read by the writes are naturals.
LEMMA ServerValuesTyped ==
    ASSUME NEW p \in ServerParams
    PROVE  /\ ValueOr(p.maxData, 0) \in Nat
           /\ ValueOr(p.maxStreamsBidi, 0) \in Nat
           /\ ValueOr(p.ackDelayExponent, kDefaultAckDelayExponent) \in Nat
           /\ ValueOr(p.knob, 0) \in Nat
           /\ peerIdleTimeoutOf(p) \in Nat
           /\ Min(packetSizeOf(p), kDefaultMaxUDPPayload) \in Nat
           /\ tsActive(p) => tsConfigOf(p.tsMax, p.tsExp) \in TsConfigs
<1>1. p \in ParamRecords
  BY ParamsAssumption
<1>2. /\ ValueOr(p.idleTimeout, 0) \in Nat
      /\ packetSizeOf(p) \in Nat
  BY <1>1, LimitsAssumption DEF ParamRecords, Opt, ValueOr, packetSizeOf
<1>3. QED
  BY <1>1, <1>2, LimitsAssumption, TsConfigTyped
     DEF ParamRecords, Opt, ValueOr, peerIdleTimeoutOf, Min, tsActive

\* The five write groups of processServerInitialParams, one operator each,
\* as the LET of the function chains them.
WriteReliable(cr, p, v1) ==
    IF Passed(failureOf(p, v1), "reliable")
      THEN [cr EXCEPT !.reliableReset = (p.reliable = "empty")] ELSE cr
WriteFlowControl(cr, p, v1) ==
    IF Passed(failureOf(p, v1), "packetSize")
      THEN [cr EXCEPT !.maxOffset = ValueOr(p.maxData, 0)] ELSE cr
WriteStreamLimits(cr, p, v1) ==
    IF Passed(failureOf(p, v1), "streams")
      THEN [cr EXCEPT
              !.maxLocalBidi =
                  setMaxLocalBidirectionalStreams(cr.maxLocalBidi, ValueOr(p.maxStreamsBidi, 0)),
              !.initialMaxStreamsBidi = ValueOr(p.maxStreamsBidi, 0),
              !.idleTimeout = peerIdleTimeoutOf(p)]
      ELSE cr
WriteAckDelay(cr, p, v1) ==
    IF Passed(failureOf(p, v1), "ackDelay")
      THEN [cr EXCEPT
              !.ackDelayExponent = ValueOr(p.ackDelayExponent, kDefaultAckDelayExponent),
              !.udpSendPacketLen =
                  IF canIgnorePathMTU
                    THEN Min(packetSizeOf(p), kDefaultMaxUDPPayload)
                    ELSE cr.udpSendPacketLen,
              !.streamWindowsSet = TRUE]
      ELSE cr
WriteFinal(cr, p, v1) ==
    IF failureOf(p, v1) = "none"
      THEN [cr EXCEPT
              !.datagramMaxWrite = ValueOr(p.maxDatagramFrameSize, cr.datagramMaxWrite),
              !.tsConfig = IF tsActive(p) THEN tsConfigOf(p.tsMax, p.tsExp) ELSE cr.tsConfig,
              !.knob = ValueOr(p.knob, 0) > 0]
      ELSE cr

\* processServerInitialParams is the chain of its write groups.
LEMMA ProcessIsChain ==
    ASSUME NEW c, NEW p, NEW v1
    PROVE  processServerInitialParams(c, p, v1).conn =
             WriteFinal(WriteAckDelay(WriteStreamLimits(WriteFlowControl(
               WriteReliable(c, p, v1), p, v1), p, v1), p, v1), p, v1)
BY DEF processServerInitialParams, WriteReliable, WriteFlowControl,
       WriteStreamLimits, WriteAckDelay, WriteFinal

\* Each write group keeps a connection record well typed.
LEMMA GroupsTyped ==
    ASSUME NEW cr \in Conns, NEW p \in ServerParams, NEW v1
    PROVE  /\ WriteReliable(cr, p, v1) \in Conns
           /\ WriteFlowControl(cr, p, v1) \in Conns
           /\ WriteStreamLimits(cr, p, v1) \in Conns
           /\ WriteAckDelay(cr, p, v1) \in Conns
           /\ WriteFinal(cr, p, v1) \in Conns
<1>0. /\ ValueOr(p.maxData, 0) \in Nat
      /\ ValueOr(p.maxStreamsBidi, 0) \in Nat
      /\ ValueOr(p.ackDelayExponent, kDefaultAckDelayExponent) \in Nat
      /\ ValueOr(p.knob, 0) \in Nat
      /\ peerIdleTimeoutOf(p) \in Nat
      /\ Min(packetSizeOf(p), kDefaultMaxUDPPayload) \in Nat
      /\ tsActive(p) => tsConfigOf(p.tsMax, p.tsExp) \in TsConfigs
  BY ServerValuesTyped
<1>1. WriteReliable(cr, p, v1) \in Conns
  BY DEF WriteReliable, Conns
<1>2. WriteFlowControl(cr, p, v1) \in Conns
  BY <1>0 DEF WriteFlowControl, Conns
<1>3. WriteStreamLimits(cr, p, v1) \in Conns
  BY <1>0 DEF WriteStreamLimits, Conns, setMaxLocalBidirectionalStreams
<1>4. WriteAckDelay(cr, p, v1) \in Conns
  <2>1. (IF canIgnorePathMTU THEN Min(packetSizeOf(p), kDefaultMaxUDPPayload)
         ELSE cr.udpSendPacketLen) \in Nat
    BY <1>0 DEF Conns
  <2>2. QED
    BY <1>0, <2>1, AckDelayGroupTyped DEF WriteAckDelay
<1>5. WriteFinal(cr, p, v1) \in Conns
  <2>1. ValueOr(p.maxDatagramFrameSize, cr.datagramMaxWrite) \in Nat
    BY ParamsAssumption DEF ParamRecords, Opt, ValueOr, Conns
  <2>2. (IF tsActive(p) THEN tsConfigOf(p.tsMax, p.tsExp) ELSE cr.tsConfig)
          \in Opt(TsConfigs)
    BY <1>0 DEF Conns, Opt
  <2>3. (ValueOr(p.knob, 0) > 0) \in BOOLEAN
    BY <1>0
  <2>4. QED
    BY <2>1, <2>2, <2>3 DEF WriteFinal, Conns
<1>6. QED
  BY <1>1, <1>2, <1>3, <1>4, <1>5

\* processServerInitialParams keeps the connection well typed, whichever
\* check fails.
LEMMA ProcessTyped ==
    ASSUME NEW c \in Conns, NEW p \in ServerParams, NEW v1
    PROVE  processServerInitialParams(c, p, v1).conn \in Conns
<1>1. WriteReliable(c, p, v1) \in Conns
  BY GroupsTyped
<1>2. WriteFlowControl(WriteReliable(c, p, v1), p, v1) \in Conns
  BY <1>1, GroupsTyped
<1>3. WriteStreamLimits(WriteFlowControl(WriteReliable(c, p, v1), p, v1), p, v1) \in Conns
  BY <1>2, GroupsTyped
<1>4. WriteAckDelay(WriteStreamLimits(WriteFlowControl(
        WriteReliable(c, p, v1), p, v1), p, v1), p, v1) \in Conns
  BY <1>3, GroupsTyped
<1>5. WriteFinal(WriteAckDelay(WriteStreamLimits(WriteFlowControl(
        WriteReliable(c, p, v1), p, v1), p, v1), p, v1), p, v1) \in Conns
  BY <1>4, GroupsTyped
<1>6. QED
  BY <1>5, ProcessIsChain

\* cacheServerInitialParams keeps a connection record well typed.
LEMMA CacheWriteTyped ==
    ASSUME NEW cr \in Conns, NEW p \in ServerParams
    PROVE  cacheServerInitialParams(cr, p) \in Conns
<1>1. /\ ValueOr(p.maxData, 0) \in Nat
      /\ ValueOr(p.maxStreamsBidi, 0) \in Nat
      /\ ValueOr(p.knob, 0) \in Nat
      /\ tsActive(p) => tsConfigOf(p.tsMax, p.tsExp) \in TsConfigs
  BY ServerValuesTyped
<1>2. (IF tsActive(p) THEN tsConfigOf(p.tsMax, p.tsExp) ELSE None) \in Opt(TsConfigs)
  BY <1>1 DEF Opt
<1>3. (ValueOr(p.knob, 0) > 0) \in BOOLEAN
  BY <1>1
<1>4. QED
  BY <1>1, <1>2, <1>3 DEF cacheServerInitialParams, Conns

\* The resumption record of a well-typed connection is well typed.
LEMMA SnapshotTyped ==
    ASSUME NEW cr \in Conns
    PROVE  getServerCachedTransportParameters(cr) \in Caches
<1>1. cr.tsConfig # None => cr.tsConfig \in TsConfigs
  BY DEF Conns, Opt
<1>2. QED
  BY <1>1 DEF getServerCachedTransportParameters, Caches, Conns, TsConfigs

\* A fresh connection is well typed.
LEMMA FreshTyped == FreshConn \in Conns
BY LimitsAssumption DEF FreshConn, Conns, Opt

\* 0-RTT seeding from a well-typed resumption record keeps the connection
\* well typed, whether the stream limit is accepted or not.
LEMMA SeedTyped ==
    ASSUME NEW k \in Caches
    PROVE  updateTransportParamsFromCachedEarlyParams(FreshConn, k).conn \in Conns
<1> DEFINE c1 == [FreshConn EXCEPT !.idleTimeout = k.idleTimeout,
                                   !.maxOffset = k.initialMaxData]
<1>1. c1 \in Conns
  BY FreshTyped DEF Caches, Conns
<1>2. (IF k.tsEnabled THEN tsConfigOf(k.tsMax, k.tsExp) ELSE None) \in Opt(TsConfigs)
  BY TsConfigTyped DEF Caches, Opt
<1>3. [c1 EXCEPT !.maxLocalBidi =
                     setMaxLocalBidirectionalStreams(c1.maxLocalBidi, k.initialMaxStreamsBidi),
                 !.knob = k.knob,
                 !.reliableReset = k.reliable,
                 !.tsConfig = IF k.tsEnabled THEN tsConfigOf(k.tsMax, k.tsExp) ELSE None]
        \in Conns
  BY <1>1, <1>2 DEF Caches, Conns, setMaxLocalBidirectionalStreams
<1>4. QED
  BY <1>1, <1>3 DEF updateTransportParamsFromCachedEarlyParams, c1

\* Every step keeps the state well typed.
LEMMA TypeInductive == (Init => TypeOK) /\ (TypeOK /\ [Next]_vars => TypeOK')
<1>1. Init => TypeOK
  BY FreshTyped DEF Init, TypeOK, Opt
<1>2. TypeOK /\ [Next]_vars => TypeOK'
  <2> SUFFICES ASSUME TypeOK, [Next]_vars PROVE TypeOK'
    OBVIOUS
  <2>1. CASE StartConnection
    BY <2>1, FreshTyped DEF StartConnection, TypeOK, Opt
  <2>2. CASE StartZeroRttConnection
    <3>1. cache \in Caches
      BY <2>2, ParamsAssumption DEF StartZeroRttConnection, TypeOK, Opt
    <3>2. QED
      BY <2>2, <3>1, SeedTyped DEF StartZeroRttConnection, TypeOK, Opt
  <2>3. ASSUME NEW p \in ServerParams, ReceiveServerParams(p) PROVE TypeOK'
    <3>1. processServerInitialParams(conn, p, isV1).conn \in Conns
      BY ProcessTyped DEF TypeOK
    <3>2. cacheServerInitialParams(processServerInitialParams(conn, p, isV1).conn, p) \in Conns
      BY <3>1, CacheWriteTyped
    <3>3. QED
      BY <2>3, <3>1, <3>2 DEF ReceiveServerParams, TypeOK, Opt
  <2>4. CASE SaveCache
    BY <2>4, SnapshotTyped DEF SaveCache, TypeOK, Opt
  <2>5. CASE CloseConnection
    BY <2>5 DEF CloseConnection, TypeOK
  <2>6. CASE UNCHANGED vars
    BY <2>6 DEF vars, TypeOK
  <2>7. QED
    BY <2>1, <2>2, <2>3, <2>4, <2>5, <2>6 DEF Next
<1>3. QED
  BY <1>1, <1>2

\* Every negotiated field, the resumption record and the server's
\* parameters keep their types through ingestion, caching and 0-RTT
\* seeding, for every limit and every server (TypeOK of the clientparams
\* run).
THEOREM ClientParamsTypeCorrect == Spec => []TypeOK
BY TypeInductive, PTL DEF Spec

=============================================================================
