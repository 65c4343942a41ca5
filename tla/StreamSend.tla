----------------------------- MODULE StreamSend -----------------------------
(***************************************************************************)
(* The send half of one QUIC stream (quic/state/stream/StreamSendHandlers) *)
(* together with the parts of the connection it touches: the stream       *)
(* manager's pending-reset, stop-sending, deliverable and closed sets, and *)
(* a lossy network that carries STREAM and RESET_STREAM(_AT) frames to the *)
(* peer and brings back their acknowledgements in any order.               *)
(*                                                                         *)
(* Data is abstracted to byte offsets 0..NumBytes-1; the chunk at offset   *)
(* NumBytes-1 carries the FIN.  The retransmission buffer, the loss buffer *)
(* and the acked intervals are sets of offsets.                            *)
(***************************************************************************)
EXTENDS Naturals, FiniteSets

CONSTANTS
    NumBytes,     \* bytes the application writes on the stream
    ErrorCodes,   \* application error codes a reset may carry
    None,         \* the empty Optional
    U64Max        \* the largest uint64_t (a stand-in no smaller than NumBytes)

ASSUME NumBytesAssumption == NumBytes \in Nat \ {0}
ASSUME NoneAssumption == None \notin Nat \cup ErrorCodes
ASSUME U64MaxAssumption == U64Max \in Nat /\ NumBytes <= U64Max

Offsets == 0 .. NumBytes - 1

SendStates == {"Open", "ResetSent", "Closed", "Invalid"}
RecvStates == {"Open", "Closed", "Invalid"}

StreamFrames == [type : {"stream"}, off : Offsets]
ResetFrames  == [type : {"reset"}, err : ErrorCodes, rs : (0 .. NumBytes) \cup {None}]
Frames       == StreamFrames \cup ResetFrames

VARIABLES
    sendState,            \* stream.sendState
    recvState,            \* stream.recvState (receive half, abstracted)
    writeOffset,          \* next offset the application writes
    finalWriteOffset,     \* stream.finalWriteOffset (None until FIN written)
    pendingWrites,        \* stream.pendingWrites
    retransmissionBuffer, \* stream.retransmissionBuffer (and ...BufMetas)
    lossBuffer,           \* stream.lossBuffer
    ackedIntervals,       \* stream.ackedIntervals
    appErrorCodeToPeer,   \* stream.appErrorCodeToPeer
    reliableSizeToPeer,   \* stream.reliableSizeToPeer
    minReliableSizeAcked, \* stream.minReliableSizeAcked
    pendingReset,         \* conn.pendingEvents.resets[id] (None or a frame)
    stopSending,          \* streamManager stop-sending entry (None or code)
    deliverable,          \* id \in streamManager deliverable set
    closed,               \* id \in streamManager closed set
    inflight,             \* frames in packets not yet acked or dropped
    connError             \* a handler returned STREAM_STATE_ERROR

vars == <<sendState, recvState, writeOffset, finalWriteOffset, pendingWrites,
          retransmissionBuffer, lossBuffer, ackedIntervals, appErrorCodeToPeer,
          reliableSizeToPeer, minReliableSizeAcked, pendingReset, stopSending,
          deliverable, closed, inflight, connError>>

-----------------------------------------------------------------------------
(* Helpers of QuicStreamState / QuicStreamFunctions.                       *)

\* stream.allBytesAckedTill(n) over the acked intervals `acked`: every
\* offset in [0, n] is acked.
allBytesAckedTill(acked, n) == \A o \in 0 .. n : o \in acked

\* allBytesTillFinAcked(stream): the FIN is known and every byte up to it
\* (the FIN travels with the last chunk) has been acked.
allBytesTillFinAcked(acked) ==
    finalWriteOffset # None /\ allBytesAckedTill(acked, finalWriteOffset - 1)

\* *stream.minReliableSizeAcked - 1 on a uint64_t: it wraps to the largest
\* value at 0.
minusOneU64(n) == IF n = 0 THEN U64Max ELSE n - 1

\* Mutant: the test for a reliable size of 0 is dropped.
reliableDataDeliveredNoZeroTest(minAcked, acked) ==
    minAcked # None /\ allBytesAckedTill(acked, minusOneU64(minAcked))

\* The reliable part of an acked reset is delivered: minReliableSizeAcked
\* is set and is 0 or every byte below it is acked.
reliableDataDelivered(minAcked, acked) ==
    minAcked # None
    /\ (minAcked = 0 \/ allBytesAckedTill(acked, minusOneU64(minAcked)))

\* stream.inTerminalStates(), evaluated on the state after the step.
inTerminalStates(ss, rs) == ss \in {"Closed", "Invalid"} /\ rs \in {"Closed", "Invalid"}

\* Offsets a reset leaves to be delivered: below the reliable size.
Kept(rs) == IF rs = None THEN {} ELSE 0 .. rs - 1

-----------------------------------------------------------------------------
(* Initial state: the stream has just been created.  A receive-only        *)
(* unidirectional stream has sendState Invalid; a send-only one has        *)
(* recvState Invalid; a bidirectional stream has both halves Open.         *)

Init ==
    /\ \E dir \in {"bidi", "uniSend", "uniRecv"} :
          /\ sendState = IF dir = "uniRecv" THEN "Invalid" ELSE "Open"
          /\ recvState = IF dir = "uniSend" THEN "Invalid" ELSE "Open"
    /\ writeOffset = 0
    /\ finalWriteOffset = None
    /\ pendingWrites = {}
    /\ retransmissionBuffer = {}
    /\ lossBuffer = {}
    /\ ackedIntervals = {}
    /\ appErrorCodeToPeer = None
    /\ reliableSizeToPeer = None
    /\ minReliableSizeAcked = None
    /\ pendingReset = None
    /\ stopSending = None
    /\ deliverable = FALSE
    /\ closed = FALSE
    /\ inflight = {}
    /\ connError = FALSE

-----------------------------------------------------------------------------
(* Application and write path.                                             *)

\* Mutant: the write path accepts one byte past the stream's end.
WriteDataPastEnd ==
    /\ sendState = "Open"
    /\ writeOffset <= NumBytes
    /\ pendingWrites' = pendingWrites \cup {writeOffset}
    /\ writeOffset' = writeOffset + 1
    /\ finalWriteOffset' = IF writeOffset + 1 = NumBytes THEN NumBytes ELSE None
    /\ UNCHANGED <<sendState, recvState, retransmissionBuffer, lossBuffer,
                   ackedIntervals, appErrorCodeToPeer, reliableSizeToPeer,
                   minReliableSizeAcked, pendingReset, stopSending,
                   deliverable, closed, inflight, connError>>

\* writeDataToQuicStream: the application appends the next byte; the last
\* one carries the FIN.
WriteData ==
    /\ sendState = "Open"
    /\ writeOffset < NumBytes
    /\ pendingWrites' = pendingWrites \cup {writeOffset}
    /\ writeOffset' = writeOffset + 1
    /\ finalWriteOffset' = IF writeOffset + 1 = NumBytes THEN NumBytes ELSE None
    /\ UNCHANGED <<sendState, recvState, retransmissionBuffer, lossBuffer,
                   ackedIntervals, appErrorCodeToPeer, reliableSizeToPeer,
                   minReliableSizeAcked, pendingReset, stopSending,
                   deliverable, closed, inflight, connError>>

\* The packet scheduler writes a STREAM frame for a pending or a lost chunk;
\* the chunk moves to the retransmission buffer.
WriteStreamFrame(o) ==
    /\ o \in pendingWrites \cup lossBuffer
    /\ sendState \in {"Open", "ResetSent"}
    /\ pendingWrites' = pendingWrites \ {o}
    /\ lossBuffer' = lossBuffer \ {o}
    /\ retransmissionBuffer' = retransmissionBuffer \cup {o}
    /\ inflight' = inflight \cup {[type |-> "stream", off |-> o]}
    /\ UNCHANGED <<sendState, recvState, writeOffset, finalWriteOffset,
                   ackedIntervals, appErrorCodeToPeer, reliableSizeToPeer,
                   minReliableSizeAcked, pendingReset, stopSending,
                   deliverable, closed, connError>>

\* The packet scheduler writes the pending RESET_STREAM(_AT) frame.
WriteReset ==
    /\ pendingReset # None
    /\ inflight' = inflight \cup {pendingReset}
    /\ pendingReset' = None
    /\ UNCHANGED <<sendState, recvState, writeOffset, finalWriteOffset,
                   pendingWrites, retransmissionBuffer, lossBuffer,
                   ackedIntervals, appErrorCodeToPeer, reliableSizeToPeer,
                   minReliableSizeAcked, stopSending, deliverable, closed,
                   connError>>

-----------------------------------------------------------------------------
(* sendRstSMHandler(stream, errorCode, reliableSize).  In ResetSent and    *)
(* Closed the handler does nothing (a stuttering step); on a receive-only  *)
(* stream (Invalid) it returns STREAM_STATE_ERROR.  The CHECKs of the      *)
(* Open case are assertions: with a single reset per stream they compare   *)
(* against None and always pass.  resetQuicStream drops every byte at or   *)
(* beyond the reliable size and records it; appendPendingStreamReset       *)
(* queues the frame.  The API only passes a reliable size up to the bytes  *)
(* written so far.                                                         *)

\* Mutant: resetQuicStream keeps the bytes beyond the reliable size.
resetQuicStreamNoTrim(rs) ==
    /\ reliableSizeToPeer' = rs
    /\ UNCHANGED <<pendingWrites, retransmissionBuffer, lossBuffer>>

\* resetQuicStream(stream, errorCode, reliableSize): records the reliable
\* size and drops every buffered byte at or beyond it.
resetQuicStream(rs) ==
    /\ reliableSizeToPeer' = rs
    /\ pendingWrites' = pendingWrites \cap Kept(rs)
    /\ retransmissionBuffer' = retransmissionBuffer \cap Kept(rs)
    /\ lossBuffer' = lossBuffer \cap Kept(rs)

sendRstSMHandler(err, rs) ==
    \/ /\ sendState = "Open"
       /\ appErrorCodeToPeer' = err
       /\ resetQuicStream(rs)
       /\ pendingReset' = [type |-> "reset", err |-> err, rs |-> rs]
       /\ sendState' = "ResetSent"
       /\ UNCHANGED <<recvState, writeOffset, finalWriteOffset, ackedIntervals,
                      minReliableSizeAcked, stopSending, deliverable, closed,
                      inflight, connError>>
    \/ /\ sendState = "Invalid"
       /\ connError' = TRUE
       /\ UNCHANGED <<sendState, recvState, writeOffset, finalWriteOffset,
                      pendingWrites, retransmissionBuffer, lossBuffer,
                      ackedIntervals, appErrorCodeToPeer, reliableSizeToPeer,
                      minReliableSizeAcked, pendingReset, stopSending,
                      deliverable, closed, inflight>>

ResetStream ==
    \E err \in ErrorCodes, rs \in (0 .. writeOffset) \cup {None} :
        sendRstSMHandler(err, rs)

-----------------------------------------------------------------------------
(* Frames from the peer.                                                   *)

\* Mutant: STOP_SENDING is an error in every state but Open.
sendStopSendingSMHandlerStrict(err) ==
    /\ IF sendState = "Open"
         THEN /\ stopSending' = err
              /\ UNCHANGED connError
         ELSE /\ connError' = TRUE
              /\ UNCHANGED stopSending
    /\ UNCHANGED <<sendState, recvState, writeOffset, finalWriteOffset,
                   pendingWrites, retransmissionBuffer, lossBuffer,
                   ackedIntervals, appErrorCodeToPeer, reliableSizeToPeer,
                   minReliableSizeAcked, pendingReset, deliverable, closed,
                   inflight>>

\* sendStopSendingSMHandler: in Open the stream manager records the
\* peer's error code for the application; ResetSent and Closed ignore it;
\* on a receive-only stream it is a STREAM_STATE_ERROR.
sendStopSendingSMHandler(err) ==
    /\ sendState \in {"Open", "Invalid"}
    /\ IF sendState = "Open"
         THEN /\ stopSending' = err
              /\ UNCHANGED connError
         ELSE /\ connError' = TRUE
              /\ UNCHANGED stopSending
    /\ UNCHANGED <<sendState, recvState, writeOffset, finalWriteOffset,
                   pendingWrites, retransmissionBuffer, lossBuffer,
                   ackedIntervals, appErrorCodeToPeer, reliableSizeToPeer,
                   minReliableSizeAcked, pendingReset, deliverable, closed,
                   inflight>>

ReceiveStopSending == \E err \in ErrorCodes : sendStopSendingSMHandler(err)

\* Mutant: the stream registers with the manager's closed set never.
addClosedNever(ss) == UNCHANGED closed

\* `if (stream.inTerminalStates()) addClosed(id)` after the send half
\* moved to state ss.
addClosedIfTerminal(ss) ==
    closed' = (closed \/ (ss = "Closed" /\ inTerminalStates(ss, recvState)))

\* Mutant: an ack closes the send half only when all bytes through the FIN
\* are acked, ignoring acked reliable resets.
ackClosesStreamFinOnly(acked) == allBytesTillFinAcked(acked)

\* sendAckSMHandler's closure test over the updated acked intervals.
ackClosesStream(acked) ==
    \/ allBytesTillFinAcked(acked)
    \/ reliableDataDelivered(minReliableSizeAcked, acked)

\* sendAckSMHandler: the packet carrying STREAM frame f was acked.
\* In Open and ResetSent the chunk, if still in the retransmission buffer,
\* joins the acked intervals; the stream becomes deliverable; and the send
\* half closes once all bytes through the FIN, or all bytes below the
\* smallest acked reliable size, are acked.  In Closed nothing changes.
sendAckSMHandler(f) ==
    LET acked == IF f.off \in retransmissionBuffer
                   THEN ackedIntervals \cup {f.off} ELSE ackedIntervals
        ss == IF ackClosesStream(acked) THEN "Closed" ELSE sendState
    IN
    /\ inflight' = inflight \ {f}
    /\ IF sendState \in {"Open", "ResetSent"}
         THEN /\ ackedIntervals' = acked
              /\ retransmissionBuffer' = retransmissionBuffer \ {f.off}
              /\ deliverable' = TRUE
              /\ sendState' = ss
              /\ addClosedIfTerminal(ss)
         ELSE UNCHANGED <<ackedIntervals, retransmissionBuffer, deliverable,
                          sendState, closed>>
    /\ UNCHANGED <<recvState, writeOffset, finalWriteOffset, pendingWrites,
                   lossBuffer, appErrorCodeToPeer, reliableSizeToPeer,
                   minReliableSizeAcked, pendingReset, stopSending, connError>>

\* Mutant: any reset ack closes the send half.
rstAckClosesStreamAlways(minAcked) == TRUE

\* sendRstAckSMHandler's closure test: every byte below the smallest acked
\* reliable size is acked.
rstAckClosesStream(minAcked) == reliableDataDelivered(minAcked, ackedIntervals)

\* sendRstAckSMHandler: the packet carrying reset frame f was acked.  In
\* ResetSent the smallest acked reliable size is updated (a plain
\* RESET_STREAM counts as 0) and the send half closes if every byte below
\* it is acked; in Closed the ack is dropped; in Open it is an error.
sendRstAckSMHandler(f) ==
    LET size == IF f.rs = None THEN 0 ELSE f.rs
        minAcked == IF minReliableSizeAcked = None THEN size
                    ELSE IF size < minReliableSizeAcked THEN size
                    ELSE minReliableSizeAcked
        ss == IF rstAckClosesStream(minAcked) THEN "Closed" ELSE sendState
    IN
    /\ inflight' = inflight \ {f}
    /\ CASE sendState = "ResetSent" ->
              /\ minReliableSizeAcked' = minAcked
              /\ sendState' = ss
              /\ addClosedIfTerminal(ss)
              /\ UNCHANGED connError
         [] sendState = "Closed" ->
              UNCHANGED <<minReliableSizeAcked, sendState, closed, connError>>
         [] OTHER ->
              /\ connError' = TRUE
              /\ UNCHANGED <<minReliableSizeAcked, sendState, closed>>
    /\ UNCHANGED <<recvState, writeOffset, finalWriteOffset, pendingWrites,
                   retransmissionBuffer, lossBuffer, ackedIntervals,
                   appErrorCodeToPeer, reliableSizeToPeer, pendingReset,
                   stopSending, deliverable>>

AckFrame(f) ==
    /\ f \in inflight
    /\ IF f.type = "stream" THEN sendAckSMHandler(f) ELSE sendRstAckSMHandler(f)

\* Loss detection declares the packet carrying f lost.  Its stream data, if
\* still unacked, moves to the loss buffer; a lost reset is queued again
\* while the stream is in ResetSent.  The packet may still reach the peer
\* and be acked later (spurious loss), or be gone for good.
LoseFrame(f) ==
    /\ f \in inflight
    /\ \E late \in BOOLEAN : inflight' = IF late THEN inflight ELSE inflight \ {f}
    /\ IF f.type = "stream"
         THEN /\ f.off \in retransmissionBuffer
              /\ retransmissionBuffer' = retransmissionBuffer \ {f.off}
              /\ lossBuffer' = lossBuffer \cup {f.off}
              /\ UNCHANGED pendingReset
         ELSE /\ pendingReset' = IF sendState = "ResetSent" THEN f ELSE pendingReset
              /\ UNCHANGED <<retransmissionBuffer, lossBuffer>>
    /\ UNCHANGED <<sendState, recvState, writeOffset, finalWriteOffset,
                   pendingWrites, ackedIntervals, appErrorCodeToPeer,
                   reliableSizeToPeer, minReliableSizeAcked, stopSending,
                   deliverable, closed, connError>>

-----------------------------------------------------------------------------
(* The rest of the stream.                                                 *)

\* The receive half reaches its terminal state (FIN read or reset
\* received); the receive handlers add the stream to the closed set when
\* the send half is terminal too.
ReceiveClose ==
    /\ recvState = "Open"
    /\ recvState' = "Closed"
    /\ closed' = (closed \/ inTerminalStates(sendState, "Closed"))
    /\ UNCHANGED <<sendState, writeOffset, finalWriteOffset, pendingWrites,
                   retransmissionBuffer, lossBuffer, ackedIntervals,
                   appErrorCodeToPeer, reliableSizeToPeer,
                   minReliableSizeAcked, pendingReset, stopSending,
                   deliverable, inflight, connError>>

\* The transport invokes the delivery callbacks of a deliverable stream
\* and removes it from the deliverable set.
DeliverCallbacks ==
    /\ deliverable
    /\ deliverable' = FALSE
    /\ UNCHANGED <<sendState, recvState, writeOffset, finalWriteOffset,
                   pendingWrites, retransmissionBuffer, lossBuffer,
                   ackedIntervals, appErrorCodeToPeer, reliableSizeToPeer,
                   minReliableSizeAcked, pendingReset, stopSending, closed,
                   inflight, connError>>

Next ==
    \/ WriteData
    \/ \E o \in Offsets : WriteStreamFrame(o)
    \/ WriteReset
    \/ ResetStream
    \/ ReceiveStopSending
    \/ \E f \in inflight : AckFrame(f)
    \/ \E f \in inflight : LoseFrame(f)
    \/ ReceiveClose
    \/ DeliverCallbacks

\* An ack that finds its data still awaiting acknowledgement (an ack that
\* arrives after loss was declared finds the chunk in the loss buffer and
\* is wasted).
TimelyAck(f) == AckFrame(f) /\ (f.type = "stream" => f.off \in retransmissionBuffer)

\* The network eventually delivers a frame that is sent again and again
\* before its loss is declared (strong fairness on each timely ack); the
\* packet scheduler eventually writes each pending chunk (weak fairness).
\* Loss is never forced.
Fairness ==
    /\ \A f \in Frames : SF_vars(TimelyAck(f))
    /\ \A o \in Offsets : WF_vars(WriteStreamFrame(o))
    /\ WF_vars(WriteReset)
    /\ WF_vars(DeliverCallbacks)

Spec == Init /\ [][Next]_vars

FairSpec == Spec /\ Fairness

-----------------------------------------------------------------------------
(* Properties.                                                             *)

TypeOK ==
    /\ sendState \in SendStates
    /\ recvState \in RecvStates
    /\ writeOffset \in 0 .. NumBytes
    /\ finalWriteOffset \in {None, NumBytes}
    /\ pendingWrites \subseteq Offsets
    /\ retransmissionBuffer \subseteq Offsets
    /\ lossBuffer \subseteq Offsets
    /\ ackedIntervals \subseteq Offsets
    /\ appErrorCodeToPeer \in ErrorCodes \cup {None}
    /\ reliableSizeToPeer \in (0 .. NumBytes) \cup {None}
    /\ minReliableSizeAcked \in (0 .. NumBytes) \cup {None}
    /\ pendingReset \in ResetFrames \cup {None}
    /\ stopSending \in ErrorCodes \cup {None}
    /\ deliverable \in BOOLEAN
    /\ closed \in BOOLEAN
    /\ inflight \subseteq Frames
    /\ connError \in BOOLEAN

\* Reliable reset (RESET_STREAM_AT): once the send half is Closed after a
\* reset with reliable size R, the peer has acked every byte below R, however
\* the acks of the data and of the reset were ordered, lost or repeated
\* (sendAckSMHandler and sendRstAckSMHandler both decide closure).
ReliablePrefixDelivered ==
    sendState = "Closed" /\ reliableSizeToPeer # None
        => allBytesAckedTill(ackedIntervals, reliableSizeToPeer - 1)

\* The DCHECKs of sendAckSMHandler's Closed case: a Closed send half holds
\* no data waiting to be sent or retransmitted, whether it closed through
\* the FIN or through a (reliable) reset.
ClosedHoldsNoData ==
    sendState = "Closed" => retransmissionBuffer = {} /\ pendingWrites = {}

\* The peer's legal frames (acks of what was sent, STOP_SENDING) never make
\* a handler return STREAM_STATE_ERROR on a stream that has a send half.
NoStreamStateError == connError => sendState = "Invalid"

\* The stream manager learns of the stream's closure (addClosed) exactly
\* when both halves are terminal, whichever half closes last.
ClosedIffTerminal == closed <=> inTerminalStates(sendState, recvState)

\* Size of a reset's reliable part (a plain RESET_STREAM keeps nothing).
SizeOf(rs) == IF rs = None THEN 0 ELSE rs

\* Once the whole stream has been written with FIN, or a reset is issued,
\* the send half eventually closes, given eventual delivery.
EventuallyClosed ==
    (finalWriteOffset # None \/ sendState = "ResetSent") ~> sendState = "Closed"

=============================================================================
