----------------------------- MODULE ClientRetry -----------------------------
(***************************************************************************)
(* Stateless retry on the client: undoAllClientStateForRetry in           *)
(* quic/client/state/ClientStateMachine.cpp rebuilds the connection state  *)
(* when the server answers the first flight with a Retry.  The model      *)
(* keeps what the rebuild does to packet numbering and to the outstanding *)
(* packets: the next packet number of each space is copied, only zero-RTT *)
(* packets of the AppData space are carried over, and those are marked    *)
(* lost so that their data is sent again.  The fields copied verbatim     *)
(* (connection ids, version, addresses, settings) are left out.           *)
(***************************************************************************)
EXTENDS Naturals, FiniteSets

CONSTANTS
    MaxPacketNum    \* packets sent per space in a run

ASSUME MaxPacketNumAssumption == MaxPacketNum \in Nat

Spaces == {"Initial", "Handshake", "AppData"}

\* An outstanding packet: its space, whether it is 0-RTT protected, its
\* number, whether it was declared lost, and the connection state
\* (0 before the retry, 1 after) that sent it.
Packets ==
    [space : Spaces, zeroRtt : BOOLEAN, pn : 0 .. MaxPacketNum,
     lost : BOOLEAN, epoch : 0 .. 1]

\* The kinds of packet the client writes: Initial, Handshake, 0-RTT and
\* 1-RTT (the last two share the AppData space).
Kinds ==
    {[space |-> "Initial", zeroRtt |-> FALSE],
     [space |-> "Handshake", zeroRtt |-> FALSE],
     [space |-> "AppData", zeroRtt |-> TRUE],
     [space |-> "AppData", zeroRtt |-> FALSE]}

VARIABLES
    nextPacketNum,  \* ackStates.<space>.nextPacketNum
    outstandings,   \* outstandings.packets
    epoch,          \* 0 until the Retry has been processed, then 1
    sent,           \* every packet ever put on the wire (history)
    acked           \* every packet the server acknowledged (history)

vars == <<nextPacketNum, outstandings, epoch, sent, acked>>

-----------------------------------------------------------------------------

Init ==
    /\ nextPacketNum = [s \in Spaces |-> 0]
    /\ outstandings = {}
    /\ epoch = 0
    /\ sent = {}
    /\ acked = {}

\* The client writes a packet of kind k with the next number of its space.
\* Before a Retry it has only Initial and 0-RTT keys.
SendPacket(k) ==
    LET pn == nextPacketNum[k.space] IN
    /\ epoch = 0 => k.space = "Initial" \/ k.zeroRtt
    /\ pn < MaxPacketNum
    /\ LET p == [space |-> k.space, zeroRtt |-> k.zeroRtt, pn |-> pn,
                 lost |-> FALSE, epoch |-> epoch]
       IN /\ outstandings' = outstandings \cup {p}
          /\ sent' = sent \cup {p}
    /\ nextPacketNum' = [nextPacketNum EXCEPT ![k.space] = pn + 1]
    /\ UNCHANGED <<epoch, acked>>

\* The server acknowledges a packet of the current connection state (the
\* server that sent the Retry kept nothing of the first flight).
AckPacket(p) ==
    /\ p \in outstandings
    /\ p.epoch = epoch
    /\ outstandings' = outstandings \ {p}
    /\ acked' = acked \cup {p}
    /\ UNCHANGED <<nextPacketNum, epoch, sent>>

\* Mutant: every outstanding packet is moved to the new state.
carriedOverAll(ps) == ps

\* The packets the rebuilt state keeps: the 0-RTT packets of AppData.
carriedOver(ps) == {p \in ps : p.space = "AppData" /\ p.zeroRtt}

\* Mutant: the Initial space starts numbering afresh.
nextPacketNumNoInitial(n) == [n EXCEPT !["Initial"] = 0]

\* The next packet numbers copied into the new state.
copiedNextPacketNum(n) ==
    [s \in Spaces |-> n[s]]

\* undoAllClientStateForRetry, followed by markZeroRttPacketsLost on the
\* new state; a client processes at most one Retry.
ReceiveRetry ==
    /\ epoch = 0
    /\ epoch' = 1
    /\ nextPacketNum' = copiedNextPacketNum(nextPacketNum)
    /\ outstandings' = {[p EXCEPT !.lost = TRUE] : p \in carriedOver(outstandings)}
    /\ UNCHANGED <<sent, acked>>

Next ==
    \/ \E k \in Kinds : SendPacket(k)
    \/ \E p \in outstandings : AckPacket(p)
    \/ ReceiveRetry

Spec == Init /\ [][Next]_vars

-----------------------------------------------------------------------------
(* Properties.                                                             *)

TypeOK ==
    /\ nextPacketNum \in [Spaces -> 0 .. MaxPacketNum]
    /\ outstandings \subseteq Packets
    /\ epoch \in 0 .. 1
    /\ sent \subseteq Packets
    /\ acked \subseteq Packets

\* Packet numbers are never reused within a space, across the Retry
\* included: every number already on the wire is below the space's next
\* number, so the next packet of the space gets a fresh one.
NoPacketNumberReuse ==
    \A p \in sent : p.pn < nextPacketNum[p.space]

\* After the Retry, the packets of the first flight still outstanding are
\* exactly its 0-RTT packets that were not acknowledged, all marked lost
\* (spec 8.8 and scenario S6): no Initial packet of the discarded state can
\* be acked, declared lost or counted by the new one, and no unacknowledged
\* 0-RTT data is dropped without being queued for retransmission.
RetryCarriesExactlyZeroRtt ==
    epoch = 1 =>
        {p \in outstandings : p.epoch = 0} =
            {[p EXCEPT !.lost = TRUE] :
                p \in {q \in sent \ acked : q.epoch = 0 /\ q.zeroRtt}}

=============================================================================
