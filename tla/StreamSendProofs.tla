------------------------- MODULE StreamSendProofs -------------------------
(***************************************************************************)
(* Proofs about the stream send state machine of StreamSend, for every    *)
(* stream length and every set of error codes.                            *)
(***************************************************************************)
EXTENDS StreamSend, TLAPS

\* Reset frames carry the reset that was issued: every queued or in-flight
\* RESET_STREAM(_AT) has the stream's reliable size and exists only once the
\* send half has left Open, and the smallest acked reliable size is that
\* same size.
ResetFramesMatch ==
    /\ \A f \in inflight \cap ResetFrames :
          f.rs = reliableSizeToPeer /\ sendState \in {"ResetSent", "Closed"}
    /\ pendingReset # None =>
          pendingReset.rs = reliableSizeToPeer /\ sendState \in {"ResetSent", "Closed"}
    /\ minReliableSizeAcked # None =>
          /\ minReliableSizeAcked = SizeOf(reliableSizeToPeer)
          /\ sendState \in {"ResetSent", "Closed"}

\* The inductive invariant behind ReliablePrefixDelivered.
IInv == TypeOK /\ ResetFramesMatch /\ ReliablePrefixDelivered
-----------------------------------------------------------------------------
(* Type correctness.                                                        *)

LEMMA FrameKinds ==
    ASSUME NEW f \in Frames
    PROVE  /\ f.type = "stream" => f \in StreamFrames
           /\ f.type # "stream" => f \in ResetFrames
BY DEF Frames, StreamFrames, ResetFrames

\* Every step of the stream, from a well-typed state, leads to a well-typed
\* state.
LEMMA TypeStep == TypeOK /\ [Next]_vars => TypeOK'
<1> SUFFICES ASSUME TypeOK, [Next]_vars PROVE TypeOK'
  OBVIOUS
<1> USE NumBytesAssumption DEF TypeOK
<1>1. CASE WriteData
  BY <1>1 DEF WriteData, Offsets
<1>2. ASSUME NEW o \in Offsets, WriteStreamFrame(o) PROVE TypeOK'
  BY <1>2 DEF WriteStreamFrame, Frames, StreamFrames
<1>3. CASE WriteReset
  BY <1>3 DEF WriteReset, Frames
<1>4. CASE ResetStream
  <2>1. PICK err \in ErrorCodes, rs \in (0 .. writeOffset) \cup {None} :
               sendRstSMHandler(err, rs)
    BY <1>4 DEF ResetStream
  <2>2. rs \in (0 .. NumBytes) \cup {None}
    OBVIOUS
  <2>3. CASE sendState = "Open"
    BY <2>1, <2>2, <2>3 DEF sendRstSMHandler, resetQuicStream, Kept, ResetFrames, SendStates
  <2>4. CASE sendState = "Invalid"
    BY <2>1, <2>4 DEF sendRstSMHandler
  <2>5. QED
    BY <2>1, <2>3, <2>4 DEF sendRstSMHandler
<1>5. CASE ReceiveStopSending
  BY <1>5 DEF ReceiveStopSending, sendStopSendingSMHandler
<1>6. ASSUME NEW f \in inflight, AckFrame(f) PROVE TypeOK'
  <2>1. CASE f.type = "stream"
    <3>1. f \in StreamFrames
      BY <2>1, FrameKinds
    <3>2. sendAckSMHandler(f)
      BY <1>6, <2>1 DEF AckFrame
    <3>3. QED
      BY <3>1, <3>2 DEF sendAckSMHandler, addClosedIfTerminal, StreamFrames, Offsets, SendStates
  <2>2. CASE f.type # "stream"
    <3>1. f \in ResetFrames
      BY <2>2, FrameKinds
    <3>2. sendRstAckSMHandler(f)
      BY <1>6, <2>2 DEF AckFrame
    <3>3. CASE sendState = "ResetSent"
      <4>1. minReliableSizeAcked' \in 0 .. NumBytes
        BY <3>1, <3>2, <3>3, NoneAssumption DEF sendRstAckSMHandler, ResetFrames
      <4>2. QED
        BY <3>2, <3>3, <4>1 DEF sendRstAckSMHandler, addClosedIfTerminal, SendStates
    <3>4. CASE sendState # "ResetSent"
      BY <3>2, <3>4 DEF sendRstAckSMHandler
    <3>5. QED
      BY <3>3, <3>4
  <2>3. QED
    BY <2>1, <2>2
<1>7. ASSUME NEW f \in inflight, LoseFrame(f) PROVE TypeOK'
  <2>1. CASE f.type = "stream"
    BY <1>7, <2>1, FrameKinds DEF LoseFrame, StreamFrames
  <2>2. CASE f.type # "stream"
    BY <1>7, <2>2, FrameKinds DEF LoseFrame
  <2>3. QED
    BY <2>1, <2>2
<1>8. CASE ReceiveClose
  BY <1>8 DEF ReceiveClose, RecvStates
<1>9. CASE DeliverCallbacks
  BY <1>9 DEF DeliverCallbacks
<1>10. CASE UNCHANGED vars
  BY <1>10 DEF vars
<1>11. QED
  BY <1>1, <1>2, <1>3, <1>4, <1>5, <1>6, <1>7, <1>8, <1>9, <1>10 DEF Next

\* The stream is created well typed.
LEMMA InitTypeOK == Init => TypeOK
<1> SUFFICES ASSUME Init PROVE TypeOK
  OBVIOUS
<1>1. sendState \in SendStates /\ recvState \in RecvStates
  BY DEF Init, SendStates, RecvStates
<1>2. writeOffset \in 0 .. NumBytes /\ finalWriteOffset \in {None, NumBytes}
  BY NumBytesAssumption DEF Init
<1>3. deliverable \in BOOLEAN /\ closed \in BOOLEAN /\ connError \in BOOLEAN
  BY DEF Init
<1>4. QED
  BY <1>1, <1>2, <1>3 DEF Init, TypeOK

\* Every reachable state is well typed (TypeOK of the streamsend runs).
THEOREM TypeCorrect == Spec => []TypeOK
BY InitTypeOK, TypeStep, PTL DEF Spec

-----------------------------------------------------------------------------
(* The reliable prefix of a reset is delivered before the send half closes. *)

\* A reliable size never exceeds the stream's length, so acking every byte
\* through the FIN acks the reliable prefix.
LEMMA FinCoversPrefix ==
    ASSUME TypeOK, NEW acked \in SUBSET Offsets,
           allBytesTillFinAcked(acked), reliableSizeToPeer # None
    PROVE  allBytesAckedTill(acked, reliableSizeToPeer - 1)
BY NumBytesAssumption, NoneAssumption
   DEF TypeOK, allBytesTillFinAcked, allBytesAckedTill

\* An acked reset whose smallest acked size is that of the issued reset
\* covers the reliable prefix.
LEMMA DeliveredCoversPrefix ==
    ASSUME TypeOK, NEW acked \in SUBSET Offsets,
           reliableDataDelivered(SizeOf(reliableSizeToPeer), acked),
           reliableSizeToPeer # None
    PROVE  allBytesAckedTill(acked, reliableSizeToPeer - 1)
BY NumBytesAssumption, NoneAssumption
   DEF TypeOK, reliableDataDelivered, allBytesAckedTill, SizeOf, minusOneU64

\* IInv is inductive.
LEMMA IInvStep == IInv /\ [Next]_vars => IInv'
<1> SUFFICES ASSUME IInv, [Next]_vars
             PROVE  ResetFramesMatch' /\ ReliablePrefixDelivered'
  BY TypeStep DEF IInv
<1> USE DEF IInv
<1>1. CASE WriteData
  BY <1>1 DEF WriteData, ResetFramesMatch, ReliablePrefixDelivered
<1>2. ASSUME NEW o \in Offsets, WriteStreamFrame(o)
      PROVE  ResetFramesMatch' /\ ReliablePrefixDelivered'
  <2>1. [type |-> "stream", off |-> o] \notin ResetFrames
    BY DEF ResetFrames
  <2>2. QED
    BY <1>2, <2>1 DEF WriteStreamFrame, ResetFramesMatch, ReliablePrefixDelivered
<1>3. CASE WriteReset
  BY <1>3, NoneAssumption DEF WriteReset, ResetFramesMatch, ReliablePrefixDelivered, TypeOK
<1>4. CASE ResetStream
  <2>1. PICK err \in ErrorCodes, rs \in (0 .. writeOffset) \cup {None} :
               sendRstSMHandler(err, rs)
    BY <1>4 DEF ResetStream
  <2>2. inflight \cap ResetFrames = {} /\ minReliableSizeAcked = None
    BY <2>1 DEF sendRstSMHandler, ResetFramesMatch
  <2>3. QED
    BY <2>1, <2>2 DEF sendRstSMHandler, resetQuicStream, ResetFramesMatch, ReliablePrefixDelivered
<1>5. CASE ReceiveStopSending
  BY <1>5 DEF ReceiveStopSending, sendStopSendingSMHandler, ResetFramesMatch, ReliablePrefixDelivered
<1>6. ASSUME NEW f \in inflight, AckFrame(f)
      PROVE  ResetFramesMatch' /\ ReliablePrefixDelivered'
  <2>1. CASE f.type = "stream"
    <3> DEFINE acked == IF f.off \in retransmissionBuffer
                          THEN ackedIntervals \cup {f.off} ELSE ackedIntervals
    <3>1. sendAckSMHandler(f)
      BY <1>6, <2>1 DEF AckFrame
    <3>2. f \in StreamFrames
      BY <2>1, FrameKinds DEF TypeOK
    <3>3. acked \subseteq Offsets
      BY <3>2 DEF TypeOK, StreamFrames
    <3>4. ResetFramesMatch'
      BY <3>1 DEF sendAckSMHandler, ResetFramesMatch
    <3>5. CASE sendState \in {"Open", "ResetSent"} /\ ackClosesStream(acked)
      <4>1. sendState' = "Closed" /\ ackedIntervals' = acked
        BY <3>1, <3>5 DEF sendAckSMHandler
      <4>2. reliableSizeToPeer' = reliableSizeToPeer
        BY <3>1 DEF sendAckSMHandler
      <4>3. SUFFICES ASSUME reliableSizeToPeer # None
                     PROVE  allBytesAckedTill(acked, reliableSizeToPeer - 1)
        BY <3>4, <4>1, <4>2 DEF ReliablePrefixDelivered, allBytesAckedTill
      <4>4. CASE allBytesTillFinAcked(acked)
        BY <3>3, <4>3, <4>4, FinCoversPrefix
      <4>5. CASE reliableDataDelivered(minReliableSizeAcked, acked)
        <5>1. minReliableSizeAcked = SizeOf(reliableSizeToPeer)
          BY <4>5 DEF reliableDataDelivered, ResetFramesMatch
        <5>2. reliableDataDelivered(SizeOf(reliableSizeToPeer), acked)
          BY <4>5, <5>1
        <5>3. QED
          BY <3>3, <4>3, <5>2, DeliveredCoversPrefix
      <4>6. QED
        BY <3>5, <4>4, <4>5 DEF ackClosesStream
    <3>6. CASE sendState \in {"Open", "ResetSent"} /\ ~ackClosesStream(acked)
      <4>1. sendState' \in {"Open", "ResetSent"}
        BY <3>1, <3>6 DEF sendAckSMHandler
      <4>2. QED
        BY <3>4, <4>1 DEF ReliablePrefixDelivered
    <3>7. CASE sendState \notin {"Open", "ResetSent"}
      <4>1. UNCHANGED <<sendState, ackedIntervals, reliableSizeToPeer>>
        BY <3>1, <3>7 DEF sendAckSMHandler
      <4>2. QED
        BY <3>4, <4>1 DEF ReliablePrefixDelivered, allBytesAckedTill
    <3>8. QED
      BY <3>4, <3>5, <3>6, <3>7
  <2>2. CASE f.type # "stream"
    <3>1. sendRstAckSMHandler(f)
      BY <1>6, <2>2 DEF AckFrame
    <3>2. f \in ResetFrames
      BY <2>2, FrameKinds DEF TypeOK
    <3>3. f.rs = reliableSizeToPeer /\ sendState \in {"ResetSent", "Closed"}
      BY <3>2 DEF ResetFramesMatch
    <3>4. CASE sendState = "ResetSent"
      <4> DEFINE size == SizeOf(reliableSizeToPeer)
      <4>1. size \in Nat
        BY DEF SizeOf, TypeOK
      <4>2. minReliableSizeAcked' = size
        BY <3>1, <3>3, <3>4, <4>1 DEF sendRstAckSMHandler, SizeOf, ResetFramesMatch, TypeOK
      <4>3. sendState' = "Closed" => reliableDataDelivered(size, ackedIntervals)
        BY <3>1, <3>3, <3>4, <4>2 DEF sendRstAckSMHandler, SizeOf, rstAckClosesStream
      <4>4. sendState' \in {"ResetSent", "Closed"}
        BY <3>1, <3>4 DEF sendRstAckSMHandler
      <4>5. UNCHANGED <<ackedIntervals, reliableSizeToPeer, pendingReset>>
        BY <3>1 DEF sendRstAckSMHandler
      <4>6. inflight' \subseteq inflight
        BY <3>1 DEF sendRstAckSMHandler
      <4>7. ReliablePrefixDelivered'
        BY <4>3, <4>5, DeliveredCoversPrefix DEF ReliablePrefixDelivered, TypeOK
      <4>8. ResetFramesMatch'
        BY <4>2, <4>4, <4>5, <4>6 DEF ResetFramesMatch
      <4>9. QED
        BY <4>7, <4>8
    <3>5. CASE sendState = "Closed"
      BY <3>1, <3>5 DEF sendRstAckSMHandler, ResetFramesMatch, ReliablePrefixDelivered
    <3>6. QED
      BY <3>3, <3>4, <3>5
  <2>3. QED
    BY <2>1, <2>2
<1>7. ASSUME NEW f \in inflight, LoseFrame(f)
      PROVE  ResetFramesMatch' /\ ReliablePrefixDelivered'
  <2>1. inflight' \subseteq inflight
    BY <1>7 DEF LoseFrame
  <2>2. CASE f.type = "stream"
    BY <1>7, <2>1, <2>2 DEF LoseFrame, ResetFramesMatch, ReliablePrefixDelivered
  <2>3. CASE f.type # "stream"
    <3>1. f \in ResetFrames
      BY <2>3, FrameKinds DEF TypeOK
    <3>2. QED
      BY <1>7, <2>1, <2>3, <3>1 DEF LoseFrame, ResetFramesMatch, ReliablePrefixDelivered
  <2>4. QED
    BY <2>2, <2>3
<1>8. CASE ReceiveClose
  BY <1>8 DEF ReceiveClose, ResetFramesMatch, ReliablePrefixDelivered
<1>9. CASE DeliverCallbacks
  BY <1>9 DEF DeliverCallbacks, ResetFramesMatch, ReliablePrefixDelivered
<1>10. CASE UNCHANGED vars
  BY <1>10 DEF vars, ResetFramesMatch, ReliablePrefixDelivered
<1>11. QED
  BY <1>1, <1>2, <1>3, <1>4, <1>5, <1>6, <1>7, <1>8, <1>9, <1>10 DEF Next

\* Reliable reset (sendAckSMHandler, sendRstAckSMHandler): for every stream
\* length and set of error codes, a send half that is Closed after a reset
\* with reliable size R has had every byte below R acked by the peer.
THEOREM ReliableResetSafety == Spec => []ReliablePrefixDelivered
<1>1. Init => IInv
  BY InitTypeOK, NoneAssumption
     DEF Init, IInv, ResetFramesMatch, ReliablePrefixDelivered
<1>2. IInv => ReliablePrefixDelivered
  BY DEF IInv
<1>3. QED
  BY <1>1, <1>2, IInvStep, PTL DEF Spec

=============================================================================
