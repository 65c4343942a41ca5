-------------------------- MODULE RoundRobinQueue --------------------------
(***************************************************************************)
(* What the round-robin stream scheduler promises (quic/priority/          *)
(* RoundRobin): the active identifiers form a cyclic order whose head is   *)
(* the one served next.  A new identifier joins at the back of the cycle,  *)
(* so it is served after every identifier already present; an erased one   *)
(* leaves without disturbing the order of the others; serving returns the  *)
(* head and possibly moves it to the back.                                 *)
(***************************************************************************)
EXTENDS Sequences

CONSTANTS Ids, None

VARIABLES queue, served

\* The identifiers in the queue.
InQueue == {queue[i] : i \in DOMAIN queue}

Init == queue = <<>> /\ served = None

Insert(v) ==
    /\ v \notin InQueue
    /\ queue' = Append(queue, v)
    /\ UNCHANGED served

Erase(v) ==
    /\ v \in InQueue
    /\ queue' = SelectSeq(queue, LAMBDA x : x # v)
    /\ UNCHANGED served

Serve ==
    /\ queue # <<>>
    /\ served' = Head(queue)
    /\ queue' \in {queue, Append(Tail(queue), Head(queue))}

Clear ==
    /\ queue' = <<>>
    /\ UNCHANGED served

Next == (\E v \in Ids : Insert(v) \/ Erase(v)) \/ Serve \/ Clear

Spec == Init /\ [][Next]_<<queue, served>>
=============================================================================
