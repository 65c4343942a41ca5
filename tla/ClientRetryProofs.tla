-------------------------- MODULE ClientRetryProofs --------------------------
(***************************************************************************)
(* TLAPS proofs for ClientRetry: packet numbers are never reused across    *)
(* the Retry, and the rebuilt state carries exactly the unacknowledged     *)
(* 0-RTT packets of the first flight, for every MaxPacketNum.              *)
(***************************************************************************)
EXTENDS ClientRetry, TLAPS

\* Before the Retry the outstanding set is exactly what was sent and not
\* acked, and every packet on the wire belongs to the first flight.
FirstFlight ==
    epoch = 0 =>
        /\ outstandings = sent \ acked
        /\ \A p \in sent : p.epoch = 0

\* A packet of the current connection state that is outstanding was sent
\* and not yet acked.
CurrentOutstanding ==
    \A p \in outstandings : p.epoch = epoch => p \in sent \ acked

\* Only AppData packets are 0-RTT protected.
ZeroRttInAppData ==
    \A p \in sent : p.zeroRtt => p.space = "AppData"

\* The inductive invariant: the type, the history relations, and the two
\* safety properties of the clientretry run.
IInv ==
    /\ TypeOK
    /\ acked \subseteq sent
    /\ FirstFlight
    /\ CurrentOutstanding
    /\ ZeroRttInAppData
    /\ NoPacketNumberReuse
    /\ RetryCarriesExactlyZeroRtt

LEMMA InitIInv == Init => IInv
BY MaxPacketNumAssumption
   DEF Init, IInv, TypeOK, FirstFlight, CurrentOutstanding, ZeroRttInAppData,
       NoPacketNumberReuse, RetryCarriesExactlyZeroRtt, Spaces

\* A packet sent now has a number no packet on the wire has, so it was
\* neither sent nor acked before.
LEMMA FreshPacket ==
    ASSUME IInv, NEW k \in Kinds,
           NEW p, p.space = k.space, p.pn = nextPacketNum[k.space]
    PROVE  p \notin sent /\ p \notin acked
BY DEF IInv, NoPacketNumberReuse, Kinds, Spaces, TypeOK

\* Every kind of packet names a space and a 0-RTT flag, and only AppData
\* packets are 0-RTT.
LEMMA KindsTyped ==
    ASSUME NEW k \in Kinds
    PROVE  /\ k.space \in Spaces /\ k.zeroRtt \in BOOLEAN
           /\ k.zeroRtt => k.space = "AppData"
<1>1. \/ k = [space |-> "Initial", zeroRtt |-> FALSE]
      \/ k = [space |-> "Handshake", zeroRtt |-> FALSE]
      \/ k = [space |-> "AppData", zeroRtt |-> TRUE]
      \/ k = [space |-> "AppData", zeroRtt |-> FALSE]
  BY DEF Kinds
<1>2. CASE k = [space |-> "Initial", zeroRtt |-> FALSE]    BY <1>2 DEF Spaces
<1>3. CASE k = [space |-> "Handshake", zeroRtt |-> FALSE]  BY <1>3 DEF Spaces
<1>4. CASE k = [space |-> "AppData", zeroRtt |-> TRUE]     BY <1>4 DEF Spaces
<1>5. CASE k = [space |-> "AppData", zeroRtt |-> FALSE]    BY <1>5 DEF Spaces
<1>6. QED
  BY <1>1, <1>2, <1>3, <1>4, <1>5

LEMMA SendStep ==
    ASSUME IInv, NEW k \in Kinds, SendPacket(k)
    PROVE  IInv'
<1> DEFINE pn == nextPacketNum[k.space]
           p == [space |-> k.space, zeroRtt |-> k.zeroRtt, pn |-> pn,
                 lost |-> FALSE, epoch |-> epoch]
<1>1. /\ outstandings' = outstandings \cup {p}
      /\ sent' = sent \cup {p}
      /\ nextPacketNum' = [nextPacketNum EXCEPT ![k.space] = pn + 1]
      /\ pn < MaxPacketNum
      /\ epoch' = epoch /\ acked' = acked
  BY DEF SendPacket
<1>2. p \notin sent /\ p \notin acked
  BY FreshPacket
<1>3. /\ k.space \in Spaces /\ k.zeroRtt \in BOOLEAN
      /\ k.zeroRtt => k.space = "AppData"
  BY KindsTyped
<1>4. /\ p.space = k.space /\ p.zeroRtt = k.zeroRtt /\ p.pn = pn
      /\ p.epoch = epoch
  OBVIOUS
<1>5. TypeOK'
  <2>1. p \in Packets
    BY <1>3 DEF IInv, TypeOK, Packets
  <2>2. nextPacketNum' \in [Spaces -> 0 .. MaxPacketNum]
    BY <1>1, <1>3, MaxPacketNumAssumption DEF IInv, TypeOK
  <2>3. QED
    BY <1>1, <2>1, <2>2 DEF IInv, TypeOK
<1>6. FirstFlight'
  BY <1>1, <1>2, <1>4 DEF IInv, FirstFlight
<1>7. CurrentOutstanding' /\ ZeroRttInAppData'
  BY <1>1, <1>2, <1>3, <1>4 DEF IInv, CurrentOutstanding, ZeroRttInAppData
<1>8. NoPacketNumberReuse'
  <2> SUFFICES ASSUME NEW q \in sent' PROVE q.pn < nextPacketNum'[q.space]
    BY DEF NoPacketNumberReuse
  <2>1. CASE q = p
    BY <2>1, <1>1, <1>3, <1>4 DEF IInv, TypeOK
  <2>2. CASE q \in sent
    <3>1. q.space \in Spaces /\ q.pn \in Nat /\ q.pn < nextPacketNum[q.space]
      BY <2>2 DEF IInv, TypeOK, Packets, NoPacketNumberReuse
    <3>2. nextPacketNum \in [Spaces -> 0 .. MaxPacketNum]
      BY DEF IInv, TypeOK
    <3>3. CASE q.space = k.space
      <4>1. nextPacketNum'[k.space] = pn + 1 /\ pn \in Nat
        BY <1>1, <1>3, <3>2
      <4>2. q.pn < pn
        BY <3>1, <3>3
      <4>3. QED
        BY <4>1, <4>2, <3>1, <3>3 DEF pn
    <3>4. CASE q.space # k.space
      BY <3>1, <3>2, <3>4, <1>1
    <3>5. QED
      BY <3>3, <3>4
  <2>3. QED
    BY <1>1, <2>1, <2>2
<1>9. RetryCarriesExactlyZeroRtt'
  BY <1>1, <1>4 DEF IInv, RetryCarriesExactlyZeroRtt
<1>10. QED
  BY <1>1, <1>5, <1>6, <1>7, <1>8, <1>9 DEF IInv

LEMMA AckStep ==
    ASSUME IInv, NEW p \in outstandings, AckPacket(p)
    PROVE  IInv'
<1>1. p \in sent
  BY DEF IInv, CurrentOutstanding, AckPacket
<1>2. TypeOK'
  BY DEF IInv, TypeOK, AckPacket
<1>3. FirstFlight'
  BY DEF IInv, FirstFlight, AckPacket
<1>4. RetryCarriesExactlyZeroRtt'
  BY DEF IInv, RetryCarriesExactlyZeroRtt, AckPacket
<1>6. CurrentOutstanding' /\ ZeroRttInAppData'
  BY DEF IInv, CurrentOutstanding, ZeroRttInAppData, AckPacket
<1>5. QED
  BY <1>1, <1>2, <1>3, <1>4, <1>6 DEF IInv, NoPacketNumberReuse, AckPacket

\* Marking a packet lost keeps it a packet of the same space, flight and
\* protection.
LEMMA MarkLost ==
    ASSUME NEW p \in Packets
    PROVE  LET m == [p EXCEPT !.lost = TRUE]
           IN  /\ m \in Packets
               /\ m.epoch = p.epoch
BY DEF Packets

LEMMA RetryStep ==
    ASSUME IInv, ReceiveRetry
    PROVE  IInv'
<1> DEFINE Lost(ps) == {[p EXCEPT !.lost = TRUE] : p \in ps}
           Kept == {q \in sent \ acked : q.space = "AppData" /\ q.zeroRtt}
<1>1. /\ epoch = 0 /\ epoch' = 1
      /\ outstandings = sent \ acked
      /\ \A p \in sent : p.epoch = 0
      /\ UNCHANGED <<sent, acked>>
  BY DEF IInv, FirstFlight, ReceiveRetry
<1>2. nextPacketNum' = nextPacketNum
  BY DEF IInv, TypeOK, ReceiveRetry, copiedNextPacketNum
<1>3. outstandings' = Lost(Kept)
  BY <1>1 DEF ReceiveRetry, carriedOver
<1>4. Kept \subseteq Packets
  BY DEF IInv, TypeOK
<1>5. \A m \in outstandings' : m \in Packets /\ m.epoch = 0
  BY <1>1, <1>3, <1>4, MarkLost
<1>6. TypeOK'
  BY <1>1, <1>2, <1>5 DEF IInv, TypeOK
<1>7. Kept = {q \in sent \ acked : q.epoch = 0 /\ q.zeroRtt}
  BY <1>1 DEF IInv, ZeroRttInAppData
<1>8. RetryCarriesExactlyZeroRtt'
  <2>1. {m \in outstandings' : m.epoch = 0} = outstandings'
    BY <1>5
  <2>2. QED
    BY <1>1, <1>3, <1>7, <2>1 DEF RetryCarriesExactlyZeroRtt
<1>9. CurrentOutstanding'
  BY <1>1, <1>5 DEF CurrentOutstanding
<1>10. QED
  BY <1>1, <1>2, <1>6, <1>8, <1>9
     DEF IInv, ZeroRttInAppData, FirstFlight, NoPacketNumberReuse

LEMMA IInvStep == IInv /\ [Next]_vars => IInv'
<1> SUFFICES ASSUME IInv, [Next]_vars PROVE IInv'
  OBVIOUS
<1>1. CASE \E k \in Kinds : SendPacket(k)  BY <1>1, SendStep
<1>2. CASE \E p \in outstandings : AckPacket(p)  BY <1>2, AckStep
<1>3. CASE ReceiveRetry  BY <1>3, RetryStep
<1>4. CASE UNCHANGED vars
  BY <1>4 DEF vars, IInv, TypeOK, FirstFlight, CurrentOutstanding,
              ZeroRttInAppData, NoPacketNumberReuse, RetryCarriesExactlyZeroRtt
<1>5. QED  BY <1>1, <1>2, <1>3, <1>4 DEF Next

\* undoAllClientStateForRetry copies every space's next packet number
\* into the rebuilt state: for every MaxPacketNum, no packet number of a
\* space is ever used twice, before or after the Retry
\* (NoPacketNumberReuse of the clientretry run).
THEOREM PacketNumbersFresh == Spec => []NoPacketNumberReuse
<1>1. IInv => NoPacketNumberReuse  BY DEF IInv
<1>2. QED  BY <1>1, InitIInv, IInvStep, PTL DEF Spec

\* The rebuilt state keeps only the 0-RTT packets of the first flight and
\* marks them lost: for every MaxPacketNum, after the Retry the first
\* flight's outstanding packets are exactly its unacknowledged 0-RTT
\* packets (RetryCarriesExactlyZeroRtt of the clientretry run).
THEOREM RetryCarriesZeroRtt == Spec => []RetryCarriesExactlyZeroRtt
<1>1. IInv => RetryCarriesExactlyZeroRtt  BY DEF IInv
<1>2. QED  BY <1>1, InitIInv, IInvStep, PTL DEF Spec

\* Packet numbers stay within their bound and every packet keeps its shape
\* across sends, acks and the rebuild (TypeOK of the clientretry run).
THEOREM ClientRetryTypeCorrect == Spec => []TypeOK
<1>1. IInv => TypeOK  BY DEF IInv
<1>2. QED  BY <1>1, InitIInv, IInvStep, PTL DEF Spec

====
