----------------------------- MODULE RoundRobin -----------------------------
(***************************************************************************)
(* The round-robin stream scheduler of quic/priority/RoundRobin.cpp.       *)
(*                                                                         *)
(* list_ is a std::list of identifiers, modelled as a sequence; nextIt_ is *)
(* an iterator into it, modelled as a position 1..Len(list)+1 where        *)
(* Len(list)+1 is list_.end().  Because std::list iterators are stable,    *)
(* the index side-table id -> iterator is modelled by the set of ids that  *)
(* have an entry.  The two thresholds of the hybrid index are constants so *)
(* that small instances cross them.                                        *)
(***************************************************************************)
EXTENDS Naturals, Sequences

CONSTANTS
    Ids,                     \* stream identifiers
    None,                    \* the empty Optional<uint64_t>
    kBuildIndexThreshold,    \* 30 in the code
    kDestroyIndexThreshold,  \* 10 in the code
    MaxAdvance,              \* largest advanceAfter argument tried
    MaxBytes                 \* largest byte count passed to getNext

ASSUME ThresholdAssumption ==
    /\ kBuildIndexThreshold \in Nat
    /\ kDestroyIndexThreshold \in Nat
    /\ kDestroyIndexThreshold <= kBuildIndexThreshold
ASSUME BoundsAssumption == MaxAdvance \in Nat \ {0} /\ MaxBytes \in Nat
ASSUME NoneAssumption == None \notin Nat \cup Ids

VARIABLES
    list,          \* list_
    nextIt,        \* nextIt_ (position; Len(list) + 1 is end())
    current,       \* current_
    advanceType,   \* advanceType_
    advanceAfter,  \* advanceAfter_
    useIndexMap,   \* useIndexMap_
    indexed,       \* DOMAIN indexMap_
    served         \* identifier returned by the last getNext

vars == <<list, nextIt, current, advanceType, advanceAfter, useIndexMap,
          indexed, served>>

\* The identifiers in the list.
Elems(s) == {s[i] : i \in DOMAIN s}

\* The list with position p removed.
RemoveAt(s, p) == SubSeq(s, 1, p - 1) \o SubSeq(s, p + 1, Len(s))

\* The list with v inserted before position p (list_.insert(it, v)).
InsertAt(s, p, v) == SubSeq(s, 1, p - 1) \o <<v>> \o SubSeq(s, p, Len(s))

\* The position of v in the list.
PosOf(s, v) == CHOOSE i \in DOMAIN s : s[i] = v

-----------------------------------------------------------------------------

\* Member initialisers of RoundRobin (RoundRobin.h).
Init ==
    /\ list = <<>>
    /\ nextIt = 1
    /\ current = 0
    /\ advanceType = "Nexts"
    /\ advanceAfter = 1
    /\ useIndexMap = FALSE
    /\ indexed = {}
    /\ served = None

\* advanceAfterNext(n): switching from Bytes resets the counter.
advanceAfterNext(n) ==
    /\ current' = IF advanceType = "Bytes" THEN 0 ELSE current
    /\ advanceType' = "Nexts"
    /\ advanceAfter' = n
    /\ UNCHANGED <<list, nextIt, useIndexMap, indexed, served>>

\* Mutant: the counter is reset by every call, not only by a mode switch.
advanceAfterBytesAlwaysReset(b) ==
    /\ current' = 0
    /\ advanceType' = "Bytes"
    /\ advanceAfter' = b
    /\ UNCHANGED <<list, nextIt, useIndexMap, indexed, served>>

\* advanceAfterBytes(bytes): switching from Nexts resets the counter.
advanceAfterBytes(b) ==
    /\ current' = IF advanceType = "Nexts" THEN 0 ELSE current
    /\ advanceType' = "Bytes"
    /\ advanceAfter' = b
    /\ UNCHANGED <<list, nextIt, useIndexMap, indexed, served>>

\* Mutant: the new identifier goes to the tail of the list, as the comment
\* in insert() says, instead of before nextIt_.
insertAtTail(v) ==
    LET build == ~useIndexMap /\ Len(list) >= kBuildIndexThreshold
        s == Append(list, v)
    IN
    /\ v \notin Elems(list)
    /\ useIndexMap' = (useIndexMap \/ build)
    /\ list' = s
    /\ nextIt' = IF Len(s) = 1 THEN 1 ELSE nextIt
    /\ indexed' = IF useIndexMap' THEN Elems(list) \cup {v} ELSE indexed
    /\ UNCHANGED <<current, advanceType, advanceAfter, served>>

\* Mutant: insert does not record the new identifier in an existing index.
insertNoIndex(v) ==
    LET build == ~useIndexMap /\ Len(list) >= kBuildIndexThreshold
        s == InsertAt(list, nextIt, v)
    IN
    /\ v \notin Elems(list)
    /\ useIndexMap' = (useIndexMap \/ build)
    /\ list' = s
    /\ nextIt' = IF Len(s) = 1 THEN 1 ELSE nextIt + 1
    /\ indexed' = IF build THEN Elems(list) \cup {v} ELSE indexed
    /\ UNCHANGED <<current, advanceType, advanceAfter, served>>

\* insert(value): the caller never inserts a duplicate.  The index is built
\* (over the old list) once the list has reached the build threshold; the
\* value goes before nextIt_, which keeps pointing at the same element; a
\* one-element list points nextIt_ at it.
insert(v) ==
    LET build == ~useIndexMap /\ Len(list) >= kBuildIndexThreshold
        s == InsertAt(list, nextIt, v)
    IN
    /\ v \notin Elems(list)
    /\ useIndexMap' = (useIndexMap \/ build)
    /\ list' = s
    /\ nextIt' = IF Len(s) = 1 THEN 1 ELSE nextIt + 1
    /\ indexed' = IF useIndexMap' THEN Elems(list) \cup {v} ELSE indexed
    /\ UNCHANGED <<current, advanceType, advanceAfter, served>>

\* Mutant: erasing the last element under the cursor leaves the cursor at
\* end() instead of wrapping to begin().
eraseItNoWrap(p, idx) ==
    LET s == RemoveAt(list, p)
        small == Len(s) < kDestroyIndexThreshold
    IN
    /\ list' = s
    /\ nextIt' = IF p < nextIt THEN nextIt - 1 ELSE nextIt
    /\ current' = IF p = nextIt THEN 0 ELSE current
    /\ useIndexMap' = (useIndexMap /\ ~small)
    /\ indexed' = IF small THEN {} ELSE idx

\* erase(iterator) on the element at position p, idx being the index left
\* by the caller: erasing the element under the cursor moves the cursor to
\* the following element (wrapping to begin()) and resets the counter; the
\* index is dropped when the list has shrunk below the destroy threshold.
eraseIt(p, idx) ==
    LET s == RemoveAt(list, p)
        small == Len(s) < kDestroyIndexThreshold
    IN
    /\ list' = s
    /\ nextIt' = CASE p = nextIt /\ p = Len(list) -> 1
                   [] p < nextIt                  -> nextIt - 1
                   [] OTHER                       -> nextIt
    /\ current' = IF p = nextIt THEN 0 ELSE current
    /\ useIndexMap' = (useIndexMap /\ ~small)
    /\ indexed' = IF small THEN {} ELSE idx

\* erase(value) of a present identifier.  With the index, the identifier's
\* entry is looked up and removed before the list element is erased;
\* without it, the element under the cursor is tried first, then the list
\* is searched backwards and forwards from the cursor (the position found
\* is the same, since identifiers are unique).  An erase that finds nothing
\* (empty list, identifier absent from the index or the list) changes
\* nothing and is a stuttering step.
erase(v) ==
    /\ list # <<>>
    /\ IF useIndexMap THEN v \in indexed ELSE v \in Elems(list)
    /\ eraseIt(PosOf(list, v), IF useIndexMap THEN indexed \ {v} ELSE indexed)
    /\ UNCHANGED <<advanceType, advanceAfter, served>>

\* Mutant: the cursor does not wrap at the end of the list.
maybeAdvanceNoWrap(c) ==
    IF c >= advanceAfter
      THEN nextIt' = nextIt + 1 /\ current' = 0
      ELSE nextIt' = nextIt /\ current' = c

\* maybeAdvance(), given the counter c after consume(): once it reaches
\* advanceAfter_ the cursor moves on, wrapping to begin(), and the counter
\* restarts.
maybeAdvance(c) ==
    IF c >= advanceAfter
      THEN /\ nextIt' = IF nextIt + 1 = Len(list) + 1 THEN 1 ELSE nextIt + 1
           /\ current' = 0
      ELSE nextIt' = nextIt /\ current' = c

\* getNext(bytes): returns *nextIt_, then consume(bytes) counts the bytes
\* (Bytes mode, an absent count is 0) or the call (Nexts mode).
getNext(bytes) ==
    /\ list # <<>>
    /\ served' = list[nextIt]
    /\ maybeAdvance(IF advanceType = "Bytes"
                      THEN current + (IF bytes = None THEN 0 ELSE bytes)
                      ELSE current + 1)
    /\ UNCHANGED <<list, advanceType, advanceAfter, useIndexMap, indexed>>

\* clear()
clear ==
    /\ list' = <<>>
    /\ nextIt' = 1
    /\ current' = 0
    /\ useIndexMap' = FALSE
    /\ indexed' = {}
    /\ UNCHANGED <<advanceType, advanceAfter, served>>

Next ==
    \/ \E n \in 0 .. MaxAdvance : advanceAfterNext(n) \/ advanceAfterBytes(n)
    \/ \E v \in Ids : insert(v) \/ erase(v)
    \/ \E b \in (1 .. MaxBytes) \cup {None} : getNext(b)
    \/ clear

Spec == Init /\ [][Next]_vars

\* The packet writer calls getNext with the bytes it wrote whenever it has
\* room to send; the list may be empty in between (erase, clear), so the
\* call is only intermittently enabled and the fairness is strong.
FairSpec == Spec /\ SF_vars(\E b \in 1 .. MaxBytes : getNext(b))

-----------------------------------------------------------------------------
(* Properties.                                                             *)

TypeOK ==
    /\ list \in Seq(Ids)
    /\ nextIt \in 1 .. Len(list) + 1
    /\ current \in Nat
    /\ advanceType \in {"Nexts", "Bytes"}
    /\ advanceAfter \in 0 .. MaxAdvance
    /\ useIndexMap \in BOOLEAN
    /\ indexed \subseteq Ids
    /\ served \in Ids \cup {None}

\* nextIt_ is dereferenced by getNext, peekNext and erase whenever the list
\* is non-empty: through every sequence of inserts, erases (at, before and
\* after the cursor), advances and clears it then points at an element,
\* never at end(); and the identifiers are distinct, so that erase's
\* search finds the one element to remove.
CursorValid ==
    /\ list # <<>> => nextIt \in 1 .. Len(list)
    /\ \A i, j \in DOMAIN list : i # j => list[i] # list[j]

\* The hybrid index: while it is in use it has an entry for exactly the
\* identifiers in the list (so erase finds every present identifier, as
\* the linear search would), and it is in use only above the destroy
\* threshold; when it is not in use it is empty.
IndexConsistent ==
    /\ useIndexMap => indexed = Elems(list) /\ Len(list) >= kDestroyIndexThreshold
    /\ ~useIndexMap => indexed = {}

\* The order in which identifiers will be served: the list rotated so that
\* the cursor's element comes first.
Rotation == SubSeq(list, nextIt, Len(list)) \o SubSeq(list, 1, nextIt - 1)

Abstract == INSTANCE RoundRobinQueue WITH queue <- Rotation, served <- served

\* The scheduler implements the rotating queue: an inserted identifier is
\* served after all those present, an erase (at the cursor or elsewhere,
\* with or without the index) keeps the others' order, and getNext returns
\* the head of the cycle and at most moves it to the back.
ImplementsRoundRobinQueue == Abstract!Spec


\* No starvation (getNext, consume, maybeAdvance): if the caller passes
\* the bytes it wrote and eventually stops switching between Nexts and
\* Bytes mode, every identifier in the list is eventually served or
\* removed.  getNext(none) in Bytes mode, or a mode switch before each
\* advance, would leave the cursor on one identifier forever.
NoStarvation ==
    <>[][advanceType' = advanceType]_vars =>
        \A v \in Ids : v \in Elems(list) ~> (served = v \/ v \notin Elems(list))

=============================================================================
