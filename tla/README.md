# TLA+ verification of mvfst

This directory holds TLA+ models of parts of mvfst, Meta's QUIC implementation,
whose sources are under `src/quic`. It contains TLC configurations that
model-check the models on small instances, and TLAPS proofs that establish the
main safety properties of the stream send state machine, the client's
transport-parameter handling and the client's stateless retry for every
instance.
`PROJECT.json` lists the components, runs, mutants, the source lines each
definition models, the hazards and the theorems.

## The system and its parts

| Part | Source | State | Operations | Status |
|---|---|---|---|---|
| Stream send state machine | `state/stream/StreamSendHandlers.cpp` | `sendState`, write/retransmission/loss buffers, acked intervals, `appErrorCodeToPeer`, `reliableSizeToPeer`, `minReliableSizeAcked` | `sendStopSendingSMHandler`, `sendRstSMHandler`, `sendAckSMHandler`, `sendRstAckSMHandler` | modelled (`StreamSend`) |
| Round-robin scheduler | `priority/RoundRobin.cpp` | `list_`, `nextIt_`, `current_`, `advanceType_`, `advanceAfter_`, `useIndexMap_`, `indexMap_` | `insert`, `erase`, `getNext`/`consume`/`maybeAdvance`, `advanceAfterNext/Bytes`, `clear` | modelled (`RoundRobin`, `RoundRobinQueue`) |
| Server transport parameters | `client/state/ClientStateMachine.cpp` | the connection's flow-control, stream-limit, idle and ack-timestamp settings; the 0-RTT cache | `processServerInitialParams`, `cacheServerInitialParams`, `getServerCachedTransportParameters`, `updateTransportParamsFromCachedEarlyParams` | modelled (`ClientParams`) |
| Stateless retry | `client/state/ClientStateMachine.cpp` | the whole client connection state | `undoAllClientStateForRetry` | modelled (`ClientRetry`) |
| Client handshake | `client/handshake/ClientHandshake.h` | phase, `trafficSecretSync_` | declared only | planned from the header |
| Transport base, batch writer, qlog, config | headers, tests, aliases | none of their own | no code under `src/` that changes state | not modelled |

How the parts interact:
- The transport's ack and loss processing calls the stream handlers. It is
  driven by packets that may be lost, reordered, acked after loss was declared,
  or acked twice.
- The stream manager keeps the deliverable and closed sets, which the handlers
  update.
- The scheduler picks which stream's frames the packet writer emits next.
- The client state machine configures the connection from the server's
  transport parameters. Among other things it decides whether reliable resets
  (`RESET_STREAM_AT`) may be used at all (line 268).

## Modules

**StreamSend** models one stream's send half.

- Its variables are the fields of `QuicStreamState` that the handlers touch.
  Around them it keeps the frames in flight, the pending reset event, and the
  stream manager's STOP_SENDING, deliverable and closed entries.
- Data is abstracted to byte offsets `0 .. NumBytes-1`. Each byte is a chunk,
  and the last one carries the FIN.
- Error codes are model values.
- `minReliableSizeAcked - 1` is a `uint64_t` subtraction (`minusOneU64`): it
  wraps to the largest value at 0. The constant `U64Max` stands for 2^64 - 1;
  the MC module gives it TLC's largest integer, which is equivalent because no
  offset from `NumBytes` up is ever acked. Dropping the code's `== 0` test
  then leaves a plainly reset stream open forever, which `EventuallyClosed`
  catches.
- Each handler is one action (`sendStopSendingSMHandler`, `sendRstSMHandler`,
  `sendAckSMHandler`, `sendRstAckSMHandler`), with its guards, error returns
  and trailing `addClosed`. For example, a reset of a receive-only stream
  (send state Invalid) returns `STREAM_STATE_ERROR`.
- `resetQuicStream` trims the buffers beyond the reliable size as part of the
  reset action.
- The code around the handlers is not under `src/`, so it is modelled from the
  specification and marked so in the map: the write path, the packet
  scheduler, loss detection (including spurious loss, after which the packet
  may still be acked) and the receive half.
- The handlers' `CHECK`s in the Open case compare against an unset reliable
  size, so they always pass with one reset per stream.

**RoundRobin** models the scheduler.

- `list_` is a sequence.
- The iterator `nextIt_` is a position, with `Len(list)+1` standing for
  `end()`. A std::list iterator is stable, so erasing before the cursor shifts
  the position down.
- The index map is the set of identifiers that have an entry.
- The thresholds (30 and 10 in the code) are constants, so that small instances
  build, use, destroy and rebuild the index.
- Every mutating method is one action. `getNext` includes `consume` and
  `maybeAdvance`.

**RoundRobinQueue** is the abstract promise: a rotating queue whose `Serve`
returns the head and at most moves it to the back. `RoundRobin` maps onto it by
rotating `list` so that the cursor's element comes first (`Rotation`).

**ClientParams** models how the client configures a connection from the
server's transport parameters.

- A server's parameter set is a record over small sets of values: whether it
  decodes, the reliable-reset parameter (absent, empty, non-empty), whether the
  connection ids match, and the numeric parameters, each possibly absent
  (`None`).
- `processServerInitialParams` keeps the code's order. `failureOf` returns the
  first check that fails (decode, reliable reset, CIDs, packet size, stream
  limit, ack delay exponent, datagram size) and the LET chain applies exactly
  the writes the code makes before that return. A failing set therefore leaves
  the reliable-reset flag, the flow-control, stream and idle limits behind.
- The `uint8` casts of the timestamp parameters are `x % 256`.
- Connections start afresh or from the 0-RTT cache
  (`updateTransportParamsFromCachedEarlyParams` over the cached record). A
  successful ingestion is followed by `cacheServerInitialParams`, as in the
  caller. That call also rewrites the reliable-reset flag.
- `setMaxLocalBidirectionalStreams` (its body is not under `src/`) raises the
  stream manager's limit and never lowers it. Both ingestion paths call it. `SaveCache` runs `getServerCachedTransportParameters`.
- `peerParams` is a history variable holding the parameters of the last server.

**ClientRetry** models `undoAllClientStateForRetry` as it affects packet
numbers and outstanding packets.

- Packets are records of space, 0-RTT flag, number, lost flag and flight
  (`epoch` 0 before the Retry, 1 after).
- Sending and acking are modelled from the spec. Before the Retry only Initial
  and 0-RTT packets can be sent.
- The Retry copies each space's next number, keeps only the AppData 0-RTT
  outstandings and marks them lost (`markZeroRttPacketsLost`), in one action.
- `sent` and `acked` are history variables that the properties compare against.

**StreamSendProofs**, **StreamSendStateProofs**, **ClientParamsProofs**,
**ClientRetryProofs**, **RoundRobinProofs** and **RoundRobinRefinement** hold
the TLAPS proofs.

The MC modules (`MC_StreamSend`, `MC_RoundRobin`, `MC_ClientParams`) give the constants model
values and define the symmetry sets.

## Runs

| Run | Checks | Bounds | Shows |
|---|---|---|---|
| `streamsend_safety` | `TypeOK`, `ReliablePrefixDelivered`, `ClosedHoldsNoData`, `NoStreamStateError`, `ClosedIffTerminal` | 3 bytes, 2 error codes (symmetric), all stream directions | see below |
| `streamsend_liveness` | `EventuallyClosed` | 2 bytes, 1 error code | a stream written to FIN or reset always closes, under the fairness below |
| `roundrobin_refinement` | `CursorValid`, `IndexConsistent`, `ImplementsRoundRobinQueue` | 5 ids (symmetric), build threshold 4, destroy threshold 2, advance ≤ 2, bytes ≤ 2 | the cursor never points at `end()` on a non-empty list; the index is exact; the scheduler refines the rotating queue |
| `roundrobin_liveness` | `NoStarvation` | 3 ids, thresholds 2 and 1, advance ≤ 2, bytes = 1 | a caller that passes byte counts and settles on one mode serves every identifier in the list, or erases it |
| `clientparams_safety` | `TypeOK`, `IdleTimeoutBounded`, `NegotiatedMatchesServer` | stream limits 5, 10, 2000 (above the 1000 ceiling), idle timeouts absent, below and above the clamp, timestamps on or off with 3 or 200 per ack, reliable reset absent, empty or non-empty, CIDs matching or not | the idle timeout stays clamped, also through the cache; an established connection, fresh or 0-RTT, holds exactly what its server advertised |
| `clientparams_atomic` | `FailedIngestionChangesNothing` | a server whose ack delay exponent is 25 | violated: the rejected set leaves its limits and reliable-reset flag in the connection |
| `clientparams_u8` | `TimestampsClampedToCeiling` | a server advertising 256 timestamps per ack, ceiling 5 | violated: the negotiated limit is 0 |
| `clientretry_safety` | `NoPacketNumberReuse`, `RetryCarriesExactlyZeroRtt` | 3 packets per space | packet numbers are never reused across the Retry; the new state carries exactly the unacked 0-RTT packets, marked lost |

What `streamsend_safety` shows:
- A closed stream that was reset reliably has had its reliable prefix acked,
  whichever ack arrived last.
- A closed stream holds no data, which is the DCHECK at line 192.
- Legal peer frames never cause `STREAM_STATE_ERROR` on a stream that has a
  send half.
- The closed set is updated exactly when both halves are terminal.

Why these bounds are enough:
- Three bytes let a reliable size be 0, strictly inside the stream, or the
  whole stream. They also let data acks arrive before, between and after reset
  acks.
- Two error codes let a reset and a STOP_SENDING carry different codes.
- Five identifiers with thresholds 4 and 2 cross both index thresholds in both
  directions, with the cursor at, before and after the erased element.
- Every mutant in `PROJECT.json` is a plausible bug in a mapped definition.
  Each one is caught under the run's own configuration.

Findings:
- **Partial update on error** (`clientparams_atomic`, line 345). The spec says
  the engine updates the negotiated fields on success. The code writes the
  reliable-reset flag, the flow-control limits, the stream limits and the idle
  timeout before it rejects a too-large ack delay exponent (or, at line 381,
  a too-small datagram frame size).
- **`uint8` truncation** (`clientparams_u8`, line 399, also 446 and 522). The
  spec says the timestamp count is clamped to the local ceiling. The code casts
  the server's value to `uint8` first, so 256 becomes 0.

More on the bounds: the ClientParams values straddle each limit (idle timeout
above `kMaxIdleTimeout`, stream limit above `kMaxMaxStreams`), and two valid
stream limits and two timestamp settings let a 0-RTT connection be seeded with
values its server then changes. Three packets per space let a Retry come after
a mix of acked and unacked Initial and 0-RTT packets, and let numbering reach
the bound after it.

## Fairness

`EventuallyClosed` assumes that the packet scheduler eventually writes every
pending chunk and the pending reset. That is weak fairness, one constraint per
chunk, because the scheduler serves every stream with pending data.

It also assumes strong fairness on each timely ack: a frame that is sent again
and again is eventually acked before its loss is declared. This is what
eventual delivery means. Loss is never forced.

Without the strong fairness, a spurious loss followed by a late ack wastes the
ack (`sendAckSMHandler` finds the chunk in the loss buffer). A stream that
suffers this forever never closes, and TLC shows that lasso. This is recorded
as a hazard.

`NoStarvation` assumes strong fairness on `getNext` with a byte count. The
packet writer calls `getNext` with the bytes it wrote whenever it has room to
send. The list can be empty in between, after an erase or a clear, so the call
is only intermittently enabled and the fairness has to be strong. The property
is an implication: if the caller eventually stops switching between Nexts and
Bytes mode, every listed identifier is served or removed. Without that
hypothesis TLC finds the starving lasso, in which a mode switch before each
advance resets the counter. `getNext(none)` in Bytes mode is the other way to
starve the list, and the fairness excludes it.

## What is proved

`StreamSendProofs` proves two theorems for every `NumBytes ∈ Nat \ {0}` and
every set of error codes that does not contain `None`. Both assumptions are
stated in `StreamSend`.

- `TypeCorrect: Spec => []TypeOK` (StreamSend). It follows from `InitTypeOK` and the
  one-step lemma `TypeStep`, which has one step per action.
- `ReliableResetSafety: Spec => []ReliablePrefixDelivered`.

`ReliablePrefixDelivered` is not inductive on its own. A reset ack closes the
stream when the bytes below `minReliableSizeAcked` are acked, but nothing in
the property says that this size is the issued one. The strengthening `IInv`
adds `ResetFramesMatch`:
- every queued or in-flight reset frame carries `reliableSizeToPeer`, and
  exists only after the send half left Open;
- `minReliableSizeAcked`, once set, equals that size.

With it:
- closure by `sendRstAckSMHandler` covers exactly the reliable prefix;
- closure by `sendAckSMHandler` through the FIN covers every byte, which is
  lemma `FinCoversPrefix`;
- closure by `sendAckSMHandler` through an acked reset covers the reliable
  prefix, which is lemma `DeliveredCoversPrefix`.

TLC checked `IInv` as an invariant before it was proved.

`ClientParamsProofs` proves `IdleTimeoutSafety: Spec => []IdleTimeoutBounded`
for every value of the limits and every set of server parameters allowed by
`ParamsAssumption` and `LimitsAssumption`. The bound alone is not inductive: a
0-RTT connection copies the cache's idle timeout without a clamp, so `IdleInv`
adds that the cache's idle timeout is bounded too, and that the connection
record keeps its fields. `ProcessKeepsIdleBound` shows that every outcome of
`processServerInitialParams`, failing or not, keeps the bound;
`SeedKeepsIdleBound` does the same for the cache path.

`ClientRetryProofs` proves `PacketNumbersFresh: Spec => []NoPacketNumberReuse`
and `RetryCarriesZeroRtt: Spec => []RetryCarriesExactlyZeroRtt` for every
`MaxPacketNum`. Both rest on `IInv`, which adds:
- before the Retry, the outstanding set is exactly what was sent and not acked,
  and all of it is of the first flight (`FirstFlight`);
- an outstanding packet of the current flight was sent and not acked
  (`CurrentOutstanding`), so acks only remove sent packets;
- only AppData packets are 0-RTT (`ZeroRttInAppData`), so the code's filter on
  space and flag keeps exactly the 0-RTT packets.

`StreamSendStateProofs` proves the other state invariants of the
`streamsend_safety` run for every `NumBytes`:
`ClosedHoldsNoDataSafety`, `NoStreamStateErrorSafety` and
`ClosedIffTerminalSafety` (each `Spec => []P`). None of the three invariants is
inductive alone: a Closed half is reached by an ack that covers every byte
(or the reset's kept prefix), and that empties the buffers only if the
buffers hold nothing else. The strengthening `SInv` adds to `IInv`:
- `BuffersWritten`: buffered and acked bytes all lie below `writeOffset`;
- `BuffersDisjoint`: a byte is pending, in flight, lost or acked, never two;
- `BuffersTrimmed`: after `resetQuicStream` the buffers lie within the kept
  prefix (the trim is part of the reset action);
- `ResetLeftOpen`: an application error code exists only once the half has
  left Open.
With these, an ack that closes the half leaves the buffers empty
(`CoveredIsEmpty`, `FinAckedCoversAll`, `DeliveredCoversKept`). TLC checked
`SInv` as an invariant of a 3-byte instance before it was proved.

`ClientParamsProofs` also proves
`NegotiatedSafety: Spec => []NegotiatedMatchesServer`. Its invariant `NInv`
adds to `IdleInv` that an established connection's `peerParams` is a server
parameter set; `SuccessSetsServerView` shows that a successful
`processServerInitialParams` followed by `cacheServerInitialParams` writes
exactly `ServerView(p)` over any connection, fresh or seeded from the cache.
The view holds the advertised initial stream limit
(`peerAdvertisedInitialMaxStreamsBidi`), not the stream manager's limit.
`setMaxLocalBidirectionalStreams` only raises that limit, so after a 0-RTT
start it may keep a larger cached value. Spec 4.2 says 0-RTT is then marked
rejected. That check lives in the transport, which is not under `src/`.
`ClientParamsTypeCorrect: Spec => []TypeOK` splits
`processServerInitialParams` into its five write groups (`WriteReliable`,
`WriteFlowControl`, `WriteStreamLimits`, `WriteAckDelay`, `WriteFinal`, the
LET chain of the action written as operators; `ProcessIsChain` shows they
compose to it) and proves each keeps the record typed.
`ClientRetryProofs` proves `ClientRetryTypeCorrect: Spec => []TypeOK` from its
`IInv`.
The type invariants of RoundRobin and ClientRetry are proved here and not
re-checked by their runs, whose properties are the safety invariants.

`RoundRobinProofs` proves `RoundRobinTypeCorrect`, `CursorValidSafety` and
`IndexConsistentSafety` (`Spec => []P`) for every set of ids and every pair of
thresholds with `kDestroyIndexThreshold <= kBuildIndexThreshold`, and
`MaxAdvance >= 1` (the initial `advanceAfter_` is 1). The three together
(`RInv`) are inductive. They rest on lemmas about the list operations:
`InsertAtProps` and `RemoveAtProps` give length and elements pointwise,
`InsertElems` and `RemoveElems` give the identifier set and keep it
distinct, and `PosOfProps` locates an identifier. Distinctness is what lets
erase's removal at `PosOf` remove exactly the erased identifier and keep the
index equal to the list's identifiers.

`RoundRobinRefinement` proves
`RoundRobinRefinesQueue: Spec => Abstract!Init /\ [][QueueNext]_<<Rotation, served>>`.
`QueueNext` is `RoundRobinQueue`'s next-state relation with `Erase(v)`
written as the removal of the single position holding `v`. The lemmas
`RotInsert`, `RotAdvance` and `RotErase` show, pointwise over the rotation
`Rot(list, nextIt)`, that insert appends to the queue, that getNext serves
its head and moving the cursor (with the wrap) moves the head to the back,
and that erase (at, before or after the cursor) removes exactly the erased
position. `advanceAfter*` leaves the rotation alone.

Only model-checked:
- the liveness properties `EventuallyClosed` and `NoStarvation`, because TLAPS does not handle
  fairness or `ENABLED`;
- that `QueueNext`'s erase is `RoundRobinQueue`'s `Erase` on distinct ids,
  and so `ImplementsRoundRobinQueue` as stated. `Erase` uses `SelectSeq`, a
  recursive function; what it computes on every input needs induction over
  sequences, and the library's induction theorems take an operator
  parameter that the installed provers cannot instantiate;

Every other property of a passing run is proved. `FailedIngestionChangesNothing`
and `TimestampsClampedToCeiling` are the properties of the two violation runs:
the code does not satisfy them, and TLC's counterexamples are the findings.

## Not modelled, and why

- The transport base, batch writer, qlog and config have no state-changing code
  under `src/`. Only API declarations, tests and aliases are there.
- `resetQuicStream` is treated as infallible. Its failure path, and the
  `appErrorCodeToPeer` assignment made before it, are listed as a hazard.

## Plan for the next sittings

1. **Handshake**: the handshake phases, modelled from the header and the
   spec.
2. **ClientParams**: the datagram and packet-size writes as separate
   observed fields, with the properties they call for.
