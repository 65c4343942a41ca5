----------------------- MODULE StreamSendStateProofs -----------------------
(***************************************************************************)
(* Proofs of the remaining StreamSend invariants, for every stream length  *)
(* and every set of error codes: the DCHECKs of a Closed send half, the    *)
(* absence of STREAM_STATE_ERROR on legal peer frames, the stream          *)
(* manager's closed set, and the finality of a reset.                      *)
(***************************************************************************)
EXTENDS StreamSendProofs

\* Every buffered or acked byte has been written: the buffers and the acked
\* intervals only hold offsets below writeOffset.
BuffersWritten ==
    pendingWrites \cup retransmissionBuffer \cup lossBuffer \cup ackedIntervals
        \subseteq 0 .. writeOffset - 1

\* A byte is in at most one place: waiting to be written, in flight awaiting
\* its ack, declared lost, or acked.
BuffersDisjoint ==
    /\ pendingWrites \cap retransmissionBuffer = {}
    /\ pendingWrites \cap lossBuffer = {}
    /\ retransmissionBuffer \cap lossBuffer = {}
    /\ ackedIntervals \cap (pendingWrites \cup retransmissionBuffer \cup lossBuffer) = {}

\* After resetQuicStream, nothing at or beyond the reliable size is buffered
\* again: the buffers of a send half in ResetSent lie below it.
BuffersTrimmed ==
    sendState = "ResetSent" =>
        pendingWrites \cup retransmissionBuffer \cup lossBuffer
            \subseteq Kept(reliableSizeToPeer)

\* An application error code is recorded only by the reset, which leaves Open.
ResetLeftOpen ==
    appErrorCodeToPeer # None => sendState \in {"ResetSent", "Closed"}

\* The inductive invariant behind the state invariants of the streamsend run.
SInv ==
    /\ IInv
    /\ BuffersWritten
    /\ BuffersDisjoint
    /\ BuffersTrimmed
    /\ ResetLeftOpen
    /\ ClosedHoldsNoData
    /\ NoStreamStateError
    /\ ClosedIffTerminal

\* The rest of SInv, the part IInv does not already carry.
SRest ==
    /\ BuffersWritten
    /\ BuffersDisjoint
    /\ BuffersTrimmed
    /\ ResetLeftOpen
    /\ ClosedHoldsNoData
    /\ NoStreamStateError
    /\ ClosedIffTerminal

-----------------------------------------------------------------------------
(* Lemmas on the closure tests.                                            *)

\* A buffer that lies in a set of acked bytes and shares none of them is
\* empty.
LEMMA CoveredIsEmpty ==
    ASSUME NEW B, NEW K, NEW A, B \subseteq K, K \subseteq A, A \cap B = {}
    PROVE  B = {}
OBVIOUS

\* allBytesTillFinAcked: every offset of the stream is acked.
LEMMA FinAckedCoversAll ==
    ASSUME TypeOK, NEW A, allBytesTillFinAcked(A)
    PROVE  Offsets \subseteq A
BY NoneAssumption DEF TypeOK, allBytesTillFinAcked, allBytesAckedTill, Offsets

\* reliableDataDelivered for the issued reset: every byte the reset keeps
\* is acked.
LEMMA DeliveredCoversKept ==
    ASSUME TypeOK, NEW A,
           reliableDataDelivered(SizeOf(reliableSizeToPeer), A)
    PROVE  Kept(reliableSizeToPeer) \subseteq A
<1>1. CASE reliableSizeToPeer = None
  BY <1>1 DEF Kept
<1>2. CASE reliableSizeToPeer # None
  <2>1. reliableSizeToPeer \in 0 .. NumBytes
    BY <1>2 DEF TypeOK
  <2>2. QED
    BY <1>2, <2>1, NoneAssumption
       DEF reliableDataDelivered, allBytesAckedTill, SizeOf, minusOneU64, Kept
<1>3. QED
  BY <1>1, <1>2

-----------------------------------------------------------------------------
(* SInv is inductive.                                                      *)

\* A new stream holds no data and has issued no reset.
LEMMA InitSInv == Init => SInv
<1> SUFFICES ASSUME Init PROVE SInv
  OBVIOUS
<1>1. IInv
  BY InitTypeOK, NoneAssumption
     DEF Init, IInv, ResetFramesMatch, ReliablePrefixDelivered
<1>2. SRest
  BY NoneAssumption
     DEF Init, SRest, BuffersWritten, BuffersDisjoint, BuffersTrimmed,
         ResetLeftOpen, ClosedHoldsNoData, NoStreamStateError,
         ClosedIffTerminal, inTerminalStates
<1>3. QED
  BY <1>1, <1>2 DEF SInv, SRest

\* Every step of the stream preserves SInv.
LEMMA SInvStep == SInv /\ [Next]_vars => SInv'
<1> SUFFICES ASSUME SInv, [Next]_vars PROVE SRest'
  BY IInvStep DEF SInv, SRest
<1>0. /\ TypeOK /\ ResetFramesMatch /\ BuffersWritten /\ BuffersDisjoint
      /\ BuffersTrimmed /\ ResetLeftOpen /\ ClosedHoldsNoData
      /\ NoStreamStateError /\ ClosedIffTerminal
  BY DEF SInv, IInv
<1> HIDE DEF SInv
<1>1. CASE WriteData
  <2>1. writeOffset \notin pendingWrites \cup retransmissionBuffer \cup lossBuffer \cup ackedIntervals
    BY <1>0 DEF BuffersWritten
  <2>2. appErrorCodeToPeer = None /\ sendState = "Open"
    BY <1>0, <1>1 DEF WriteData, ResetLeftOpen
  <2>3. QED
    BY <1>0, <1>1, <2>1, <2>2
       DEF WriteData, SRest, BuffersWritten, BuffersDisjoint, BuffersTrimmed,
           ResetLeftOpen, ClosedHoldsNoData, NoStreamStateError, ClosedIffTerminal, TypeOK
<1>2. ASSUME NEW o \in Offsets, WriteStreamFrame(o) PROVE SRest'
  <2>1. o \notin ackedIntervals /\ o \notin retransmissionBuffer
    BY <1>0, <1>2 DEF WriteStreamFrame, BuffersDisjoint
  <2>2. o \in 0 .. writeOffset - 1
    BY <1>0, <1>2 DEF WriteStreamFrame, BuffersWritten
  <2>3. QED
    BY <1>0, <1>2, <2>1, <2>2
       DEF WriteStreamFrame, SRest, BuffersWritten, BuffersDisjoint, BuffersTrimmed,
           ResetLeftOpen, ClosedHoldsNoData, NoStreamStateError, ClosedIffTerminal
<1>3. CASE WriteReset
  BY <1>0, <1>3
     DEF WriteReset, SRest, BuffersWritten, BuffersDisjoint, BuffersTrimmed,
         ResetLeftOpen, ClosedHoldsNoData, NoStreamStateError, ClosedIffTerminal
<1>4. CASE ResetStream
  <2>1. PICK err \in ErrorCodes, rs \in (0 .. writeOffset) \cup {None} :
               sendRstSMHandler(err, rs)
    BY <1>4 DEF ResetStream
  <2>2. CASE sendState = "Open"
    <3>1. ~connError /\ ~closed
      BY <1>0, <2>2 DEF NoStreamStateError, ClosedIffTerminal, inTerminalStates
    <3>2. err # None
      BY NoneAssumption
    <3>3. QED
      BY <1>0, <2>1, <2>2, <3>1, <3>2
         DEF sendRstSMHandler, resetQuicStream, SRest, BuffersWritten, BuffersDisjoint,
             BuffersTrimmed, ResetLeftOpen, ClosedHoldsNoData, NoStreamStateError,
             ClosedIffTerminal, inTerminalStates
  <2>3. CASE sendState = "Invalid"
    BY <1>0, <2>1, <2>3
       DEF sendRstSMHandler, SRest, BuffersWritten, BuffersDisjoint,
           BuffersTrimmed, ResetLeftOpen, ClosedHoldsNoData, NoStreamStateError,
           ClosedIffTerminal, inTerminalStates
  <2>4. QED
    BY <2>1, <2>2, <2>3 DEF sendRstSMHandler
<1>5. CASE ReceiveStopSending
  BY <1>0, <1>5
     DEF ReceiveStopSending, sendStopSendingSMHandler, SRest, BuffersWritten,
         BuffersDisjoint, BuffersTrimmed, ResetLeftOpen, ClosedHoldsNoData,
         NoStreamStateError, ClosedIffTerminal
<1>6. ASSUME NEW f \in inflight, AckFrame(f) PROVE SRest'
  <2>1. CASE f.type = "stream"
    <3> DEFINE acked == IF f.off \in retransmissionBuffer
                          THEN ackedIntervals \cup {f.off} ELSE ackedIntervals
    <3>1. sendAckSMHandler(f)
      BY <1>6, <2>1 DEF AckFrame
    <3>2. f \in StreamFrames
      BY <1>0, <2>1, FrameKinds DEF TypeOK
    <3>3. f.off \in retransmissionBuffer =>
             /\ f.off \in 0 .. writeOffset - 1
             /\ f.off \notin pendingWrites \cup lossBuffer
      BY <1>0 DEF BuffersWritten, BuffersDisjoint
    <3>4. UNCHANGED <<recvState, writeOffset, pendingWrites, lossBuffer,
                      appErrorCodeToPeer, reliableSizeToPeer, connError>>
      BY <3>1 DEF sendAckSMHandler
    <3>5. CASE sendState \notin {"Open", "ResetSent"}
      <4>1. UNCHANGED <<ackedIntervals, retransmissionBuffer, sendState, closed>>
        BY <3>1, <3>5 DEF sendAckSMHandler
      <4>2. QED
        BY <1>0, <3>4, <4>1
           DEF SRest, BuffersWritten, BuffersDisjoint, BuffersTrimmed,
               ResetLeftOpen, ClosedHoldsNoData, NoStreamStateError, ClosedIffTerminal
    <3>6. CASE sendState \in {"Open", "ResetSent"}
      <4>1. /\ ackedIntervals' = acked
            /\ retransmissionBuffer' = retransmissionBuffer \ {f.off}
            /\ sendState' = IF ackClosesStream(acked) THEN "Closed" ELSE sendState
            /\ closed' = (closed \/ (sendState' = "Closed" /\ inTerminalStates(sendState', recvState)))
        BY <3>1, <3>6 DEF sendAckSMHandler, addClosedIfTerminal
      <4>2. ~closed /\ ~connError
        BY <1>0, <3>6 DEF ClosedIffTerminal, NoStreamStateError, inTerminalStates
      <4>3. BuffersWritten' /\ BuffersDisjoint'
        BY <1>0, <3>3, <3>4, <4>1 DEF BuffersWritten, BuffersDisjoint
      <4>4. BuffersTrimmed' /\ ResetLeftOpen' /\ NoStreamStateError' /\ ClosedIffTerminal'
        BY <1>0, <3>4, <3>6, <4>1, <4>2
           DEF BuffersTrimmed, ResetLeftOpen, NoStreamStateError, ClosedIffTerminal, inTerminalStates
      <4>5. ClosedHoldsNoData'
        <5>1. SUFFICES ASSUME ackClosesStream(acked)
                       PROVE  retransmissionBuffer' = {} /\ pendingWrites' = {}
          BY <3>6, <4>1 DEF ClosedHoldsNoData
        <5>2. acked \cap (pendingWrites \cup retransmissionBuffer') = {}
          BY <1>0, <3>3, <4>1 DEF BuffersDisjoint
        <5>3. pendingWrites \cup retransmissionBuffer' \subseteq Offsets
          BY <1>0, <4>1 DEF TypeOK
        <5>4. CASE allBytesTillFinAcked(acked)
          <6>1. Offsets \subseteq acked
            BY <1>0, <5>4, FinAckedCoversAll
          <6>2. QED
            BY <3>4, <5>2, <5>3, <6>1, CoveredIsEmpty
        <5>5. CASE reliableDataDelivered(minReliableSizeAcked, acked)
          <6>1. minReliableSizeAcked = SizeOf(reliableSizeToPeer)
                /\ sendState = "ResetSent"
            BY <1>0, <3>6, <5>5 DEF reliableDataDelivered, ResetFramesMatch
          <6>2. Kept(reliableSizeToPeer) \subseteq acked
            BY <1>0, <5>5, <6>1, DeliveredCoversKept
          <6>3. pendingWrites \cup retransmissionBuffer' \subseteq Kept(reliableSizeToPeer)
            BY <1>0, <4>1, <6>1 DEF BuffersTrimmed
          <6>4. QED
            BY <3>4, <5>2, <6>2, <6>3, CoveredIsEmpty
        <5>6. QED
          BY <5>1, <5>4, <5>5 DEF ackClosesStream
      <4>6. QED
        BY <4>3, <4>4, <4>5 DEF SRest
    <3>7. QED
      BY <3>5, <3>6
  <2>2. CASE f.type # "stream"
    <3>1. sendRstAckSMHandler(f)
      BY <1>6, <2>2 DEF AckFrame
    <3>2. f \in ResetFrames
      BY <1>0, <2>2, FrameKinds DEF TypeOK
    <3>3. f.rs = reliableSizeToPeer /\ sendState \in {"ResetSent", "Closed"}
      BY <1>0, <3>2 DEF ResetFramesMatch
    <3>4. UNCHANGED <<recvState, writeOffset, pendingWrites, retransmissionBuffer,
                      lossBuffer, ackedIntervals, appErrorCodeToPeer,
                      reliableSizeToPeer>>
      BY <3>1 DEF sendRstAckSMHandler
    <3>5. CASE sendState = "Closed"
      <4>1. UNCHANGED <<sendState, closed, connError>>
        BY <3>1, <3>5 DEF sendRstAckSMHandler
      <4>2. QED
        BY <1>0, <3>4, <4>1
           DEF SRest, BuffersWritten, BuffersDisjoint, BuffersTrimmed,
               ResetLeftOpen, ClosedHoldsNoData, NoStreamStateError, ClosedIffTerminal
    <3>6. CASE sendState = "ResetSent"
      <4> DEFINE size == SizeOf(reliableSizeToPeer)
      <4>1. size \in Nat
        BY <1>0 DEF SizeOf, TypeOK
      <4>2. /\ sendState' = IF rstAckClosesStream(size) THEN "Closed" ELSE sendState
            /\ closed' = (closed \/ (sendState' = "Closed" /\ inTerminalStates(sendState', recvState)))
            /\ UNCHANGED connError
        BY <1>0, <3>1, <3>3, <3>6, <4>1
           DEF sendRstAckSMHandler, addClosedIfTerminal, SizeOf, ResetFramesMatch, TypeOK
      <4>3. ~closed /\ ~connError
        BY <1>0, <3>6 DEF ClosedIffTerminal, NoStreamStateError, inTerminalStates
      <4>4. BuffersWritten' /\ BuffersDisjoint' /\ BuffersTrimmed' /\ ResetLeftOpen'
            /\ NoStreamStateError' /\ ClosedIffTerminal'
        BY <1>0, <3>4, <3>6, <4>2, <4>3
           DEF BuffersWritten, BuffersDisjoint, BuffersTrimmed, ResetLeftOpen,
               NoStreamStateError, ClosedIffTerminal, inTerminalStates
      <4>5. ClosedHoldsNoData'
        <5>1. SUFFICES ASSUME rstAckClosesStream(size)
                       PROVE  retransmissionBuffer = {} /\ pendingWrites = {}
          BY <3>4, <3>6, <4>2 DEF ClosedHoldsNoData
        <5>2. Kept(reliableSizeToPeer) \subseteq ackedIntervals
          BY <1>0, <5>1, DeliveredCoversKept DEF rstAckClosesStream
        <5>3. pendingWrites \cup retransmissionBuffer \subseteq Kept(reliableSizeToPeer)
          BY <1>0, <3>6 DEF BuffersTrimmed
        <5>4. ackedIntervals \cap (pendingWrites \cup retransmissionBuffer) = {}
          BY <1>0 DEF BuffersDisjoint
        <5>5. QED
          BY <5>2, <5>3, <5>4, CoveredIsEmpty
      <4>6. QED
        BY <4>4, <4>5 DEF SRest
    <3>7. QED
      BY <3>3, <3>5, <3>6
  <2>3. QED
    BY <2>1, <2>2
<1>7. ASSUME NEW f \in inflight, LoseFrame(f) PROVE SRest'
  <2>1. CASE f.type = "stream"
    <3>1. f.off \in retransmissionBuffer
      BY <1>7, <2>1 DEF LoseFrame
    <3>2. QED
      BY <1>0, <1>7, <2>1, <3>1
         DEF LoseFrame, SRest, BuffersWritten, BuffersDisjoint, BuffersTrimmed,
             ResetLeftOpen, ClosedHoldsNoData, NoStreamStateError, ClosedIffTerminal
  <2>2. CASE f.type # "stream"
    BY <1>0, <1>7, <2>2
       DEF LoseFrame, SRest, BuffersWritten, BuffersDisjoint, BuffersTrimmed,
           ResetLeftOpen, ClosedHoldsNoData, NoStreamStateError, ClosedIffTerminal
  <2>3. QED
    BY <2>1, <2>2
<1>8. CASE ReceiveClose
  BY <1>0, <1>8
     DEF ReceiveClose, SRest, BuffersWritten, BuffersDisjoint, BuffersTrimmed,
         ResetLeftOpen, ClosedHoldsNoData, NoStreamStateError, ClosedIffTerminal,
         inTerminalStates
<1>9. CASE DeliverCallbacks
  BY <1>0, <1>9
     DEF DeliverCallbacks, SRest, BuffersWritten, BuffersDisjoint, BuffersTrimmed,
         ResetLeftOpen, ClosedHoldsNoData, NoStreamStateError, ClosedIffTerminal
<1>10. CASE UNCHANGED vars
  BY <1>0, <1>10
     DEF vars, SRest, BuffersWritten, BuffersDisjoint, BuffersTrimmed,
         ResetLeftOpen, ClosedHoldsNoData, NoStreamStateError, ClosedIffTerminal
<1>11. QED
  BY <1>1, <1>2, <1>3, <1>4, <1>5, <1>6, <1>7, <1>8, <1>9, <1>10 DEF Next

-----------------------------------------------------------------------------
(* The invariants of the streamsend run, for every constant.               *)

LEMMA SInvAlways == Spec => []SInv
BY InitSInv, SInvStep, PTL DEF Spec

\* sendAckSMHandler's DCHECKs: a Closed send half holds no data waiting to
\* be written or retransmitted, whether the FIN or a reliable reset closed
\* it, for every stream length.
THEOREM ClosedHoldsNoDataSafety == Spec => []ClosedHoldsNoData
<1>1. SInv => ClosedHoldsNoData
  BY DEF SInv
<1>2. QED
  BY <1>1, SInvAlways, PTL

\* The acks and STOP_SENDING frames of a legal peer never make
\* sendStopSendingSMHandler or sendRstAckSMHandler return
\* STREAM_STATE_ERROR on a stream that has a send half.
THEOREM NoStreamStateErrorSafety == Spec => []NoStreamStateError
<1>1. SInv => NoStreamStateError
  BY DEF SInv
<1>2. QED
  BY <1>1, SInvAlways, PTL

\* The stream manager's closed set holds the stream exactly when both
\* halves are terminal (addClosed in the send and receive handlers).
THEOREM ClosedIffTerminalSafety == Spec => []ClosedIffTerminal
<1>1. SInv => ClosedIffTerminal
  BY DEF SInv
<1>2. QED
  BY <1>1, SInvAlways, PTL

=============================================================================
