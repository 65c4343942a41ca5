-------------------------- MODULE RoundRobinProofs --------------------------
(***************************************************************************)
(* Proofs about the round-robin scheduler of RoundRobin, for every set of  *)
(* identifiers, every pair of index thresholds and every bound on the     *)
(* advance and byte counts.                                               *)
(***************************************************************************)
EXTENDS RoundRobin, SequenceTheorems, TLAPS

\* The inductive invariant: the state is well typed, the cursor is valid
\* and the identifiers distinct, and the index agrees with the list.
RInv == TypeOK /\ CursorValid /\ IndexConsistent

-----------------------------------------------------------------------------
(* Lemmas on the list operations.                                          *)

\* list_.insert(it, v) with it at position p: one element longer, v at p,
\* the elements before p in place and those from p shifted by one.
LEMMA InsertAtProps ==
    ASSUME NEW s \in Seq(Ids), NEW p \in 1 .. Len(s) + 1, NEW v \in Ids
    PROVE  /\ InsertAt(s, p, v) \in Seq(Ids)
           /\ Len(InsertAt(s, p, v)) = Len(s) + 1
           /\ \A i \in 1 .. Len(s) + 1 :
                 InsertAt(s, p, v)[i] = IF i < p THEN s[i]
                                        ELSE IF i = p THEN v ELSE s[i - 1]
<1> DEFINE front == SubSeq(s, 1, p - 1)
           back == SubSeq(s, p, Len(s))
<1>1. /\ front \in Seq(Ids) /\ Len(front) = p - 1
      /\ <<v>> \in Seq(Ids)
      /\ back \in Seq(Ids) /\ Len(back) = Len(s) - p + 1
      /\ InsertAt(s, p, v) \in Seq(Ids)
      /\ Len(InsertAt(s, p, v)) = Len(front) + 1 + Len(back)
  BY DEF InsertAt
<1>2. Len(InsertAt(s, p, v)) = Len(s) + 1
  <2> HIDE DEF front, back
  <2> QED
    BY <1>1
<1>3. ASSUME NEW i \in 1 .. Len(s) + 1
      PROVE  InsertAt(s, p, v)[i] = IF i < p THEN s[i]
                                    ELSE IF i = p THEN v ELSE s[i - 1]
  <2>1. i \in 1 .. Len(front) + 1 + Len(back)
    BY <1>1, <1>2, Zenon
  <2>2. QED
    BY <2>1, ConcatProperties, SubSeqProperties DEF InsertAt
<1>4. QED
  BY <1>1, <1>2, <1>3, Zenon

\* list_.erase(it) at position p: one element shorter, the elements before
\* p in place and those after it shifted down by one.
LEMMA RemoveAtProps ==
    ASSUME NEW s \in Seq(Ids), NEW p \in 1 .. Len(s)
    PROVE  /\ RemoveAt(s, p) \in Seq(Ids)
           /\ Len(RemoveAt(s, p)) = Len(s) - 1
           /\ \A i \in 1 .. Len(s) - 1 :
                 RemoveAt(s, p)[i] = IF i < p THEN s[i] ELSE s[i + 1]
<1> DEFINE front == SubSeq(s, 1, p - 1)
           back == SubSeq(s, p + 1, Len(s))
<1>1. /\ front \in Seq(Ids) /\ Len(front) = p - 1
      /\ back \in Seq(Ids) /\ Len(back) = Len(s) - p
      /\ RemoveAt(s, p) \in Seq(Ids)
      /\ Len(RemoveAt(s, p)) = Len(front) + Len(back)
  BY DEF RemoveAt
<1>2. Len(RemoveAt(s, p)) = Len(s) - 1
  <2> HIDE DEF front, back
  <2> QED
    BY <1>1
<1>3. ASSUME NEW i \in 1 .. Len(s) - 1
      PROVE  RemoveAt(s, p)[i] = IF i < p THEN s[i] ELSE s[i + 1]
  <2>1. i \in 1 .. Len(front) + Len(back)
    BY <1>1, <1>2, Zenon
  <2>2. QED
    BY <2>1, ConcatProperties, SubSeqProperties DEF RemoveAt
<1>4. QED
  BY <1>1, <1>2, <1>3, Zenon

\* The identifiers of a sequence with distinct elements.
Distinct(s) == \A i, j \in DOMAIN s : i # j => s[i] # s[j]

\* Inserting v adds exactly v to the identifiers, and keeps them distinct
\* when v was absent.
LEMMA InsertElems ==
    ASSUME NEW s \in Seq(Ids), NEW p \in 1 .. Len(s) + 1, NEW v \in Ids
    PROVE  /\ Elems(InsertAt(s, p, v)) = Elems(s) \cup {v}
           /\ Distinct(s) /\ v \notin Elems(s) => Distinct(InsertAt(s, p, v))
<1> DEFINE t == InsertAt(s, p, v)
<1>1. /\ t \in Seq(Ids) /\ Len(t) = Len(s) + 1
      /\ \A i \in 1 .. Len(s) + 1 :
            t[i] = IF i < p THEN s[i] ELSE IF i = p THEN v ELSE s[i - 1]
  BY InsertAtProps DEF t
<1>2. DOMAIN t = 1 .. Len(s) + 1 /\ DOMAIN s = 1 .. Len(s) /\ Len(s) \in Nat
  BY <1>1, LenProperties
<1>3. Elems(t) \subseteq Elems(s) \cup {v}
  <2> SUFFICES ASSUME NEW i \in 1 .. Len(s) + 1 PROVE t[i] \in Elems(s) \cup {v}
    BY <1>2 DEF Elems
  <2>1. CASE i < p
    BY <1>1, <1>2, <2>1 DEF Elems
  <2>2. CASE i = p
    BY <1>1, <2>2
  <2>3. CASE i > p
    <3>1. i - 1 \in 1 .. Len(s) /\ t[i] = s[i - 1]
      BY <1>1, <1>2, <2>3
    <3>2. QED
      BY <1>2, <3>1 DEF Elems
  <2>4. QED
    BY <1>2, <2>1, <2>2, <2>3
<1>4. Elems(s) \cup {v} \subseteq Elems(t)
  <2>1. v \in Elems(t)
    BY <1>1, <1>2 DEF Elems
  <2>2. ASSUME NEW i \in 1 .. Len(s) PROVE s[i] \in Elems(t)
    <3>1. CASE i < p
      BY <1>1, <1>2, <3>1 DEF Elems
    <3>2. CASE i >= p
      <4>1. i + 1 \in 1 .. Len(s) + 1 /\ t[i + 1] = s[i]
        BY <1>1, <1>2, <3>2
      <4>2. QED
        BY <1>2, <4>1 DEF Elems
    <3>3. QED
      BY <1>2, <3>1, <3>2
  <2>3. QED
    BY <1>2, <2>1, <2>2 DEF Elems
<1>5. Distinct(s) /\ v \notin Elems(s) => Distinct(t)
  <2> SUFFICES ASSUME Distinct(s), v \notin Elems(s),
                      NEW i \in 1 .. Len(s) + 1, NEW j \in 1 .. Len(s) + 1, i # j
               PROVE  t[i] # t[j]
    BY <1>2 DEF Distinct
  <2> DEFINE src(k) == IF k < p THEN k ELSE k - 1
  <2>1. \A k \in 1 .. Len(s) : s[k] # v
    BY <1>2 DEF Elems
  <2>2. \A k \in 1 .. Len(s) + 1 : k # p => src(k) \in 1 .. Len(s) /\ t[k] = s[src(k)]
    BY <1>1, <1>2
  <2>3. CASE i = p
    BY <1>1, <2>1, <2>2, <2>3
  <2>4. CASE j = p
    BY <1>1, <2>1, <2>2, <2>4
  <2>5. CASE i # p /\ j # p
    <3>1. src(i) # src(j)
      BY <1>2, <2>5
    <3>2. QED
      BY <2>2, <2>5, <3>1 DEF Distinct
  <2>6. QED
    BY <2>3, <2>4, <2>5
<1>6. QED
  BY <1>3, <1>4, <1>5

\* Erasing the element at p of a sequence with distinct elements removes
\* exactly that identifier and keeps the others distinct.
LEMMA RemoveElems ==
    ASSUME NEW s \in Seq(Ids), NEW p \in 1 .. Len(s), Distinct(s)
    PROVE  /\ Elems(RemoveAt(s, p)) = Elems(s) \ {s[p]}
           /\ Distinct(RemoveAt(s, p))
<1> DEFINE t == RemoveAt(s, p)
<1>1. /\ t \in Seq(Ids) /\ Len(t) = Len(s) - 1
      /\ \A i \in 1 .. Len(s) - 1 : t[i] = IF i < p THEN s[i] ELSE s[i + 1]
  BY RemoveAtProps DEF t
<1>2. DOMAIN t = 1 .. Len(s) - 1 /\ DOMAIN s = 1 .. Len(s)
  BY <1>1, LenProperties
<1>3. Elems(t) \subseteq Elems(s) \ {s[p]}
  BY <1>1, <1>2 DEF Elems, Distinct
<1>4. Elems(s) \ {s[p]} \subseteq Elems(t)
  <2> SUFFICES ASSUME NEW i \in 1 .. Len(s), i # p PROVE s[i] \in Elems(t)
    BY <1>2 DEF Elems, Distinct
  <2>1. CASE i < p
    BY <1>1, <1>2, <2>1 DEF Elems
  <2>2. CASE i > p
    <3>1. i - 1 \in 1 .. Len(s) - 1 /\ t[i - 1] = s[i]
      BY <1>1, <2>2
    <3>2. QED
      BY <1>2, <3>1 DEF Elems
  <2>3. QED
    BY <2>1, <2>2
<1>5. Distinct(t)
  <2> SUFFICES ASSUME NEW i \in 1 .. Len(s) - 1, NEW j \in 1 .. Len(s) - 1, i # j
               PROVE  t[i] # t[j]
    BY <1>2 DEF Distinct
  <2>1. PICK a \in 1 .. Len(s) : a = IF i < p THEN i ELSE i + 1
    OBVIOUS
  <2>2. PICK b \in 1 .. Len(s) : b = IF j < p THEN j ELSE j + 1
    OBVIOUS
  <2>3. t[i] = s[a] /\ t[j] = s[b]
    BY <1>1, <2>1, <2>2
  <2>4. a # b
    BY <2>1, <2>2
  <2>5. QED
    BY <1>2, <2>3, <2>4 DEF Distinct
<1>6. QED
  BY <1>3, <1>4, <1>5

\* The position erase finds for a present identifier holds it.
LEMMA PosOfProps ==
    ASSUME NEW s, NEW v \in Elems(s)
    PROVE  PosOf(s, v) \in DOMAIN s /\ s[PosOf(s, v)] = v
BY DEF PosOf, Elems

-----------------------------------------------------------------------------
(* RInv is inductive.                                                      *)

\* CursorValid's second conjunct is Distinct of the list.
LEMMA CursorValidDistinct == CursorValid <=> (list # <<>> => nextIt \in 1 .. Len(list)) /\ Distinct(list)
BY DEF CursorValid, Distinct

\* The scheduler starts empty, without an index.
LEMMA InitRInv == Init => RInv
<1> SUFFICES ASSUME Init PROVE RInv
  OBVIOUS
<1>1. list \in Seq(Ids) /\ Len(list) = 0
  BY EmptySeq DEF Init
<1>2. TypeOK
  <2>1. nextIt \in 1 .. Len(list) + 1 /\ current \in Nat
    BY <1>1 DEF Init
  <2>2. advanceAfter \in 0 .. MaxAdvance
    BY BoundsAssumption DEF Init
  <2>3. /\ advanceType \in {"Nexts", "Bytes"} /\ useIndexMap \in BOOLEAN
        /\ indexed \subseteq Ids /\ served \in Ids \cup {None}
    BY DEF Init
  <2>4. QED
    BY <1>1, <2>1, <2>2, <2>3 DEF TypeOK
<1>3. CursorValid /\ IndexConsistent
  BY DEF Init, CursorValid, IndexConsistent
<1>4. QED
  BY <1>2, <1>3 DEF RInv

\* insert(v) keeps RInv: the new identifier lands before the cursor, which
\* moves with its element, and joins an index in use.
LEMMA InsertStep ==
    ASSUME RInv, NEW v \in Ids, insert(v) PROVE RInv'
<1> DEFINE build == ~useIndexMap /\ Len(list) >= kBuildIndexThreshold
           s == InsertAt(list, nextIt, v)
<1>0. /\ list \in Seq(Ids) /\ nextIt \in 1 .. Len(list) + 1 /\ Len(list) \in Nat
      /\ Distinct(list) /\ (list # <<>> => nextIt \in 1 .. Len(list))
  BY LenProperties, CursorValidDistinct DEF RInv, TypeOK
<1>1. /\ v \notin Elems(list)
      /\ useIndexMap' = (useIndexMap \/ build)
      /\ list' = s
      /\ nextIt' = IF Len(s) = 1 THEN 1 ELSE nextIt + 1
      /\ indexed' = IF useIndexMap' THEN Elems(list) \cup {v} ELSE indexed
      /\ UNCHANGED <<current, advanceType, advanceAfter, served>>
  BY DEF insert
<1>2. /\ s \in Seq(Ids) /\ Len(s) = Len(list) + 1
      /\ Elems(s) = Elems(list) \cup {v} /\ Distinct(s)
  BY <1>0, <1>1, InsertAtProps, InsertElems DEF s
<1>3. nextIt' \in 1 .. Len(s)
  <2>1. CASE list = <<>>
    BY <1>0, <1>1, <1>2, <2>1
  <2>2. CASE list # <<>>
    BY <1>0, <1>1, <1>2, <2>2
  <2>3. QED
    BY <2>1, <2>2
<1>4. TypeOK'
  BY <1>1, <1>2, <1>3 DEF RInv, TypeOK, Elems
<1>5. CursorValid'
  BY <1>1, <1>2, <1>3 DEF CursorValid, Distinct
<1>6. IndexConsistent'
  <2>1. CASE useIndexMap'
    <3>1. Len(list) >= kDestroyIndexThreshold
      <4>1. CASE useIndexMap
        BY <4>1 DEF RInv, IndexConsistent
      <4>2. CASE build
        BY <1>0, <4>2, ThresholdAssumption
      <4>3. QED
        BY <1>1, <2>1, <4>1, <4>2
    <3>2. QED
      BY <1>1, <1>2, <2>1, <3>1, ThresholdAssumption DEF IndexConsistent
  <2>2. CASE ~useIndexMap'
    BY <1>1, <2>2 DEF RInv, IndexConsistent
  <2>3. QED
    BY <2>1, <2>2
<1>7. QED
  BY <1>4, <1>5, <1>6 DEF RInv


\* erase(v) keeps RInv: the cursor keeps pointing at its element, or at
\* the next one (wrapping) when its own element is erased, and an index
\* in use loses exactly v.
LEMMA EraseStep ==
    ASSUME RInv, NEW v \in Ids, erase(v) PROVE RInv'
<1> DEFINE p == PosOf(list, v)
           s == RemoveAt(list, p)
           small == Len(s) < kDestroyIndexThreshold
<1>0. /\ list \in Seq(Ids) /\ nextIt \in 1 .. Len(list) + 1 /\ Len(list) \in Nat
      /\ Distinct(list) /\ (list # <<>> => nextIt \in 1 .. Len(list))
      /\ DOMAIN list = 1 .. Len(list)
  BY LenProperties, CursorValidDistinct DEF RInv, TypeOK
<1>1. list # <<>> /\ v \in Elems(list)
  BY DEF erase, RInv, IndexConsistent
<1>2. p \in 1 .. Len(list) /\ list[p] = v /\ nextIt \in 1 .. Len(list)
  BY <1>0, <1>1, PosOfProps
<1>3. /\ list' = s
      /\ nextIt' = CASE p = nextIt /\ p = Len(list) -> 1
                     [] p < nextIt                  -> nextIt - 1
                     [] OTHER                       -> nextIt
      /\ current' = IF p = nextIt THEN 0 ELSE current
      /\ useIndexMap' = (useIndexMap /\ ~small)
      /\ indexed' = IF small THEN {}
                    ELSE IF useIndexMap THEN indexed \ {v} ELSE indexed
      /\ UNCHANGED <<advanceType, advanceAfter, served>>
  BY DEF erase, eraseIt
<1>4. /\ s \in Seq(Ids) /\ Len(s) = Len(list) - 1
      /\ Elems(s) = Elems(list) \ {v} /\ Distinct(s)
  BY <1>0, <1>2, RemoveAtProps, RemoveElems
<1>5. /\ nextIt' \in 1 .. Len(s) + 1
      /\ s # <<>> => nextIt' \in 1 .. Len(s)
  <2>1. s # <<>> => Len(s) # 0
    BY <1>4, EmptySeq
  <2>2. CASE p = nextIt /\ p = Len(list)
    <3>1. nextIt' = 1
      BY <1>3, <2>2
    <3>2. QED
      BY <1>0, <1>4, <2>1, <3>1
  <2>3. CASE ~(p = nextIt /\ p = Len(list)) /\ p < nextIt
    <3>1. nextIt' = nextIt - 1
      BY <1>3, <2>3
    <3>2. QED
      BY <1>2, <1>4, <2>3, <3>1
  <2>4. CASE ~(p = nextIt /\ p = Len(list)) /\ ~(p < nextIt)
    <3>1. nextIt' = nextIt
      BY <1>3, <2>4
    <3>2. QED
      BY <1>2, <1>4, <2>4, <3>1
  <2>5. QED
    BY <2>2, <2>3, <2>4
<1>6. TypeOK'
  <2>1. current' \in Nat /\ useIndexMap' \in BOOLEAN
    BY <1>3 DEF RInv, TypeOK
  <2>2. indexed' \subseteq Ids
    BY <1>3 DEF RInv, TypeOK
  <2>3. QED
    BY <1>3, <1>4, <1>5, <2>1, <2>2 DEF RInv, TypeOK
<1>7. CursorValid'
  BY <1>3, <1>4, <1>5 DEF CursorValid, Distinct
<1>8. IndexConsistent'
  <2>1. CASE useIndexMap'
    <3>1. useIndexMap /\ ~small
      BY <1>3, <2>1
    <3>2. indexed' = Elems(list) \ {v}
      BY <1>3, <3>1 DEF RInv, IndexConsistent
    <3>3. QED
      BY <1>3, <1>4, <2>1, <3>1, <3>2, ThresholdAssumption DEF IndexConsistent
  <2>2. CASE ~useIndexMap'
    BY <1>3, <2>2 DEF RInv, IndexConsistent
  <2>3. QED
    BY <2>1, <2>2
<1>9. QED
  BY <1>6, <1>7, <1>8 DEF RInv

\* getNext keeps RInv: the cursor moves to the next element or wraps to
\* the first, over an unchanged list.
LEMMA GetNextStep ==
    ASSUME RInv, NEW b \in (1 .. MaxBytes) \cup {None}, getNext(b) PROVE RInv'
<1> DEFINE c == IF advanceType = "Bytes"
                  THEN current + (IF b = None THEN 0 ELSE b)
                  ELSE current + 1
<1>0. /\ list \in Seq(Ids) /\ Len(list) \in Nat /\ current \in Nat
      /\ list # <<>> /\ nextIt \in 1 .. Len(list)
  BY LenProperties DEF getNext, RInv, TypeOK, CursorValid
<1>1. c \in Nat
  BY <1>0, BoundsAssumption
<1>2. /\ served' = list[nextIt]
      /\ nextIt' \in 1 .. Len(list) /\ current' \in Nat
      /\ UNCHANGED <<list, advanceType, advanceAfter, useIndexMap, indexed>>
  <2>1. CASE c >= advanceAfter
    BY <1>0, <2>1 DEF getNext, maybeAdvance
  <2>2. CASE ~(c >= advanceAfter)
    BY <1>0, <1>1, <2>2 DEF getNext, maybeAdvance
  <2>3. QED
    BY <2>1, <2>2
<1>3. served' \in Ids
  BY <1>0, <1>2
<1>4. QED
  BY <1>2, <1>3 DEF RInv, TypeOK, CursorValid, IndexConsistent

\* The advanceAfter setters keep RInv: they touch only the counter.
LEMMA AdvanceStep ==
    ASSUME RInv, NEW n \in 0 .. MaxAdvance,
           advanceAfterNext(n) \/ advanceAfterBytes(n)
    PROVE  RInv'
BY DEF RInv, TypeOK, CursorValid, IndexConsistent, advanceAfterNext,
       advanceAfterBytes

\* clear() empties the list and drops the index.
LEMMA ClearStep == ASSUME RInv, clear PROVE RInv'
<1>1. list' \in Seq(Ids) /\ Len(list') = 0
  BY EmptySeq DEF clear
<1>2. TypeOK'
  <2>1. nextIt' \in 1 .. Len(list') + 1 /\ current' \in Nat
    BY <1>1 DEF clear
  <2>2. useIndexMap' \in BOOLEAN /\ indexed' \subseteq Ids
    BY DEF clear
  <2>3. /\ advanceType' \in {"Nexts", "Bytes"} /\ advanceAfter' \in 0 .. MaxAdvance
        /\ served' \in Ids \cup {None}
    BY DEF clear, RInv, TypeOK
  <2>4. QED
    BY <1>1, <2>1, <2>2, <2>3 DEF TypeOK
<1>3. CursorValid'
  <2>1. DOMAIN list' = {}
    BY <1>1 DEF clear
  <2>2. QED
    BY <2>1 DEF CursorValid
<1>4. IndexConsistent'
  BY DEF clear, IndexConsistent
<1>5. QED
  BY <1>2, <1>3, <1>4 DEF RInv

\* RInv is preserved by every step.
LEMMA RInvStep == RInv /\ [Next]_vars => RInv'
<1> SUFFICES ASSUME RInv, [Next]_vars PROVE RInv'
  OBVIOUS
<1>1. CASE \E n \in 0 .. MaxAdvance : advanceAfterNext(n) \/ advanceAfterBytes(n)
  BY <1>1, AdvanceStep
<1>2. CASE \E v \in Ids : insert(v)
  BY <1>2, InsertStep
<1>3. CASE \E v \in Ids : erase(v)
  BY <1>3, EraseStep
<1>4. CASE \E b \in (1 .. MaxBytes) \cup {None} : getNext(b)
  BY <1>4, GetNextStep
<1>5. CASE clear
  BY <1>5, ClearStep
<1>6. CASE UNCHANGED vars
  BY <1>6 DEF vars, RInv, TypeOK, CursorValid, IndexConsistent, Elems
<1>7. QED
  BY <1>1, <1>2, <1>3, <1>4, <1>5, <1>6 DEF Next

LEMMA RInvAlways == Spec => []RInv
BY InitRInv, RInvStep, PTL DEF Spec

\* Every reachable state of the scheduler is well typed: the list holds
\* stream ids and nextIt_ is one of its iterators or end().
THEOREM RoundRobinTypeCorrect == Spec => []TypeOK
BY RInvAlways, PTL DEF RInv

\* Through every sequence of insert, erase, getNext, advanceAfter and clear
\* calls, nextIt_ points at an element whenever the list is non-empty
\* (getNext and erase never dereference end()) and the ids are distinct.
THEOREM CursorValidSafety == Spec => []CursorValid
BY RInvAlways, PTL DEF RInv

\* The hybrid index of insert/erase is, while in use, exactly the set of
\* ids in the list and the list is above the destroy threshold; otherwise
\* it is empty.
THEOREM IndexConsistentSafety == Spec => []IndexConsistent
BY RInvAlways, PTL DEF RInv

=============================================================================
