------------------------- MODULE RoundRobinRefinement -------------------------
(***************************************************************************)
(* The scheduler of quic/priority/RoundRobin.cpp implements the rotating  *)
(* queue of RoundRobinQueue under the mapping queue <- Rotation: every     *)
(* step of insert, erase, getNext, advanceAfter* and clear is a step of   *)
(* the queue or leaves it alone.  The queue's Erase is stated with         *)
(* SelectSeq, whose recursive definition the provers cannot unfold; on a  *)
(* queue of distinct identifiers it removes the one position holding v,   *)
(* and that is the form proved here (QueueNext).                           *)
(***************************************************************************)
EXTENDS RoundRobinProofs

\* The list rotated to start at position k.
Rot(s, k) == SubSeq(s, k, Len(s)) \o SubSeq(s, 1, k - 1)

\* The rotation starting at k: the elements from k on, then those before.
LEMMA RotProps ==
    ASSUME NEW s \in Seq(Ids), NEW k \in 1 .. Len(s) + 1
    PROVE  /\ Rot(s, k) \in Seq(Ids)
           /\ Len(Rot(s, k)) = Len(s)
           /\ \A i \in 1 .. Len(s) :
                 Rot(s, k)[i] = IF i <= Len(s) - k + 1 THEN s[i + k - 1]
                                ELSE s[i - (Len(s) - k + 1)]
<1> DEFINE front == SubSeq(s, k, Len(s))
           back == SubSeq(s, 1, k - 1)
<1>1. /\ front \in Seq(Ids) /\ Len(front) = Len(s) - k + 1
      /\ back \in Seq(Ids) /\ Len(back) = k - 1
      /\ Rot(s, k) = front \o back
  BY SubSeqProperties, LenProperties DEF Rot
<1>2. Rot(s, k) \in Seq(Ids) /\ Len(Rot(s, k)) = Len(s)
  <2> HIDE DEF front, back
  <2>1. Len(front \o back) = Len(s)
    BY <1>1, ConcatProperties, LenProperties
  <2>2. QED
    BY <1>1, <2>1, ConcatProperties
<1>3. ASSUME NEW i \in 1 .. Len(s)
      PROVE  Rot(s, k)[i] = IF i <= Len(s) - k + 1 THEN s[i + k - 1]
                            ELSE s[i - (Len(s) - k + 1)]
  <2>1. i \in 1 .. Len(front) + Len(back)
    <3> HIDE DEF front, back
    <3> QED
      BY <1>1, LenProperties
  <2>2. Rot(s, k)[i] = IF i <= Len(front) THEN front[i] ELSE back[i - Len(front)]
    <3> HIDE DEF front, back
    <3> QED
      BY <1>1, <2>1, ConcatProperties
  <2>3. CASE i <= Len(s) - k + 1
    <3>1. front[i] = s[k + i - 1]
      BY <2>3, SubSeqProperties, LenProperties
    <3>2. k + i - 1 = i + k - 1
      OBVIOUS
    <3>3. Rot(s, k)[i] = front[i]
      <4> HIDE DEF front, back
      <4> QED
        BY <1>1, <2>2, <2>3
    <3>4. QED
      BY <2>3, <3>1, <3>2, <3>3
  <2>4. CASE ~(i <= Len(s) - k + 1)
    <3>1. back[i - (Len(s) - k + 1)] = s[i - (Len(s) - k + 1)]
      BY <2>4, SubSeqProperties, LenProperties
    <3>2. QED
      BY <1>1, <2>2, <2>4, <3>1
  <2>5. QED
    BY <2>3, <2>4
<1>4. QED
  BY <1>2, <1>3


\* One position of a rotation.
LEMMA RotAt ==
    ASSUME NEW s \in Seq(Ids), NEW k \in 1 .. Len(s) + 1, NEW i \in 1 .. Len(s)
    PROVE  Rot(s, k)[i] = IF i <= Len(s) - k + 1 THEN s[i + k - 1]
                          ELSE s[i - (Len(s) - k + 1)]
BY RotProps

\* insert(v) puts v before the cursor, which moves with its element: the
\* rotation seen from the cursor gains v at its back.
LEMMA RotInsert ==
    ASSUME NEW s \in Seq(Ids), NEW k \in 1 .. Len(s) + 1, NEW v \in Ids,
           s # <<>> => k \in 1 .. Len(s),
           NEW t, t = InsertAt(s, k, v),
           NEW k2, k2 = IF Len(t) = 1 THEN 1 ELSE k + 1
    PROVE  Rot(t, k2) = Append(Rot(s, k), v)
<1> DEFINE L == Len(s)
<1>0. \A i \in 1 .. Len(s) + 1 :
         InsertAt(s, k, v)[i] = IF i < k THEN s[i] ELSE IF i = k THEN v ELSE s[i - 1]
  BY InsertAtProps
<1>1. L \in Nat /\ t \in Seq(Ids) /\ Len(t) = L + 1
  BY InsertAtProps, LenProperties
<1>2. \A i \in 1 .. L + 1 :
         t[i] = IF i < k THEN s[i] ELSE IF i = k THEN v ELSE s[i - 1]
  BY <1>0
<1>3. /\ Append(Rot(s, k), v) \in Seq(Ids)
      /\ Len(Append(Rot(s, k), v)) = L + 1
      /\ \A i \in 1 .. L : Append(Rot(s, k), v)[i] = Rot(s, k)[i]
      /\ Append(Rot(s, k), v)[L + 1] = v
  <2>1. Rot(s, k) \in Seq(Ids) /\ Len(Rot(s, k)) = L
    BY RotProps
  <2>2. QED
    BY <2>1, AppendProperties
<1>4. k2 \in 1 .. Len(t) + 1
  BY <1>1
<1>5. Rot(t, k2) \in Seq(Ids) /\ Len(Rot(t, k2)) = L + 1
  <2>1. Rot(t, k2) \in Seq(Ids) /\ Len(Rot(t, k2)) = Len(t)
    BY <1>1, <1>4, RotProps
  <2>2. QED
    BY <1>1, <2>1
<1>6. ASSUME NEW i \in 1 .. L + 1 PROVE Rot(t, k2)[i] = Append(Rot(s, k), v)[i]
  <2>1. CASE L = 0
    <3>1. k = 1 /\ k2 = 1 /\ i = 1
      BY <1>1, <2>1
    <3>2. Rot(t, k2)[i] = t[1]
      BY <1>1, <2>1, <3>1, RotAt
    <3>3. t[1] = v
      BY <1>1, <1>2, <3>1
    <3>4. QED
      BY <1>3, <2>1, <3>1, <3>2, <3>3
  <2>2. CASE L # 0
    <3>1. k \in 1 .. L /\ k2 = k + 1
      BY <1>1, <2>2
    <3>2. CASE i <= L - k + 1
      <4>1. i \in 1 .. Len(t) /\ k2 \in 1 .. Len(t) + 1 /\ i <= Len(t) - k2 + 1
        BY <1>1, <3>1, <3>2
      <4>2. Rot(t, k2)[i] = t[i + k2 - 1]
        BY <1>1, <4>1, RotAt
      <4>3. t[i + k] = s[i + k - 1]
        BY <1>1, <1>2, <3>1, <3>2
      <4>4. i \in 1 .. L
        BY <1>1, <3>1, <3>2
      <4>5. Rot(s, k)[i] = s[i + k - 1]
        BY <1>1, <3>2, <4>4, RotAt
      <4>6. QED
        BY <1>3, <3>1, <4>2, <4>3, <4>4, <4>5
    <3>3. CASE ~(i <= L - k + 1) /\ i <= L
      <4>1. i \in 1 .. Len(t) /\ k2 \in 1 .. Len(t) + 1 /\ ~(i <= Len(t) - k2 + 1)
        BY <1>1, <3>1, <3>3
      <4>2. Rot(t, k2)[i] = t[i - (Len(t) - k2 + 1)]
        BY <1>1, <4>1, RotAt
      <4>3. t[i - (L - k + 1)] = s[i - (L - k + 1)]
        BY <1>1, <1>2, <3>1, <3>3
      <4>4. Rot(s, k)[i] = s[i - (L - k + 1)]
        BY <1>1, <3>3, RotAt
      <4>5. QED
        BY <1>1, <1>3, <3>1, <3>3, <4>2, <4>3, <4>4
    <3>4. CASE i = L + 1
      <4>1. i \in 1 .. Len(t) /\ k2 \in 1 .. Len(t) + 1 /\ ~(i <= Len(t) - k2 + 1)
        BY <1>1, <3>1, <3>4
      <4>2. Rot(t, k2)[i] = t[i - (Len(t) - k2 + 1)]
        BY <1>1, <4>1, RotAt
      <4>3. t[k] = v
        BY <1>1, <1>2, <3>1
      <4>4. QED
        BY <1>1, <1>3, <3>1, <3>4, <4>2, <4>3
    <3>5. i <= L - k + 1 \/ (~(i <= L - k + 1) /\ i <= L) \/ i = L + 1
      BY <1>1
    <3>6. QED
      BY <3>2, <3>3, <3>4, <3>5
  <2>3. QED
    BY <2>1, <2>2
<1>7. QED
  BY <1>1, <1>3, <1>5, <1>6, SeqEqual

\* getNext serves the cursor's element, the head of the rotation; moving
\* the cursor on (wrapping at the end) moves that head to the back.
LEMMA RotAdvance ==
    ASSUME NEW s \in Seq(Ids), s # <<>>, NEW k \in 1 .. Len(s),
           NEW k2, k2 = IF k + 1 = Len(s) + 1 THEN 1 ELSE k + 1
    PROVE  /\ Rot(s, k) # <<>>
           /\ Head(Rot(s, k)) = s[k]
           /\ Rot(s, k2) = Append(Tail(Rot(s, k)), Head(Rot(s, k)))
<1> DEFINE L == Len(s)
<1>1. L \in Nat /\ L >= 1 /\ k2 \in 1 .. L + 1
  BY EmptySeq, LenProperties
<1>2. Rot(s, k) \in Seq(Ids) /\ Len(Rot(s, k)) = L
  BY RotProps
<1>3. Rot(s, k)[1] = s[k]
  <2>1. 1 \in 1 .. Len(s) /\ k \in 1 .. Len(s) + 1
    BY <1>1
  <2>2. Rot(s, k)[1] = IF 1 <= Len(s) - k + 1 THEN s[1 + k - 1]
                       ELSE s[1 - (Len(s) - k + 1)]
    BY <2>1, RotAt
  <2>3. QED
    BY <1>1, <2>2
<1>4. Rot(s, k) # <<>> /\ Head(Rot(s, k)) = s[k] /\ Head(Rot(s, k)) \in Ids
  <2>1. Rot(s, k) # <<>>
    BY <1>1, <1>2, EmptySeq
  <2>2. Head(Rot(s, k)) = Rot(s, k)[1] /\ Head(Rot(s, k)) \in Ids
    BY <1>2, <2>1, HeadTailProperties
  <2>3. QED
    BY <1>3, <2>1, <2>2
<1>5. /\ Tail(Rot(s, k)) \in Seq(Ids) /\ Len(Tail(Rot(s, k))) = L - 1
      /\ \A i \in 1 .. L - 1 : Tail(Rot(s, k))[i] = Rot(s, k)[i + 1]
  BY <1>2, <1>4, HeadTailProperties
<1>6. /\ Append(Tail(Rot(s, k)), Head(Rot(s, k))) \in Seq(Ids)
      /\ Len(Append(Tail(Rot(s, k)), Head(Rot(s, k)))) = L
      /\ \A i \in 1 .. L - 1 :
            Append(Tail(Rot(s, k)), Head(Rot(s, k)))[i] = Rot(s, k)[i + 1]
      /\ Append(Tail(Rot(s, k)), Head(Rot(s, k)))[L] = s[k]
  BY <1>1, <1>4, <1>5, AppendProperties
<1>7. Rot(s, k2) \in Seq(Ids) /\ Len(Rot(s, k2)) = L
  BY <1>1, RotProps
<1>8. ASSUME NEW i \in 1 .. L
      PROVE  Rot(s, k2)[i] = Append(Tail(Rot(s, k)), Head(Rot(s, k)))[i]
  <2>1. Rot(s, k2)[i] = IF i <= L - k2 + 1 THEN s[i + k2 - 1] ELSE s[i - (L - k2 + 1)]
    BY <1>1, RotAt
  <2>2. CASE i = L
    BY <1>1, <1>6, <2>1, <2>2
  <2>3. CASE i < L
    <3>1. Rot(s, k)[i + 1] = IF i + 1 <= L - k + 1 THEN s[i + k] ELSE s[i + 1 - (L - k + 1)]
      <4>1. i + 1 \in 1 .. Len(s) /\ k \in 1 .. Len(s) + 1
        BY <1>1, <2>3
      <4>2. Rot(s, k)[i + 1] = IF i + 1 <= Len(s) - k + 1 THEN s[i + 1 + k - 1]
                               ELSE s[i + 1 - (Len(s) - k + 1)]
        BY <4>1, RotAt
      <4>3. QED
        BY <1>1, <4>2
    <3>2. QED
      BY <1>1, <1>6, <2>1, <2>3, <3>1
  <2>4. i = L \/ i < L
    BY <1>1
  <2>5. QED
    BY <2>2, <2>3, <2>4
<1>9. QED
  BY <1>4, <1>6, <1>7, <1>8, SeqEqual

\* One position of a list with position p removed.
LEMMA RemoveAtAt ==
    ASSUME NEW s \in Seq(Ids), NEW p \in 1 .. Len(s), NEW i \in 1 .. Len(s) - 1
    PROVE  RemoveAt(s, p)[i] = IF i < p THEN s[i] ELSE s[i + 1]
BY RemoveAtProps

\* The position in the rotation from k of the list's position p.
RotPos(p, k, L) == IF p >= k THEN p - k + 1 ELSE p + (L - k + 1)

\* erase at position p: the cursor keeps its element, steps back with it
\* when p is before it, or goes to the next element (wrapping) when p is
\* under it; the rotation loses exactly the position that held s[p].
LEMMA RotErase ==
    ASSUME NEW s \in Seq(Ids), NEW p \in 1 .. Len(s), NEW k \in 1 .. Len(s),
           NEW k2 \in Nat,
           k2 = IF p = k /\ p = Len(s) THEN 1 ELSE IF p < k THEN k - 1 ELSE k
    PROVE  /\ RotPos(p, k, Len(s)) \in 1 .. Len(s)
           /\ Rot(s, k)[RotPos(p, k, Len(s))] = s[p]
           /\ Rot(RemoveAt(s, p), k2) = RemoveAt(Rot(s, k), RotPos(p, k, Len(s)))
<1> DEFINE L == Len(s)
           q == RotPos(p, k, L)
           u == RemoveAt(s, p)
           r == Rot(s, k)
<1>1. L \in Nat /\ L >= 1 /\ q \in 1 .. L
  BY LenProperties DEF RotPos
<1>2. r[q] = s[p]
  <2>1. r[q] = IF q <= L - k + 1 THEN s[q + k - 1] ELSE s[q - (L - k + 1)]
    <3>1. q \in 1 .. Len(s) /\ k \in 1 .. Len(s) + 1
      BY <1>1
    <3>2. QED
      BY <3>1, RotAt
  <2>2. QED
    BY <1>1, <2>1 DEF RotPos
<1>3. u \in Seq(Ids) /\ Len(u) = L - 1
  BY RemoveAtProps
<1>4. /\ r \in Seq(Ids) /\ Len(r) = L
      /\ RemoveAt(r, q) \in Seq(Ids) /\ Len(RemoveAt(r, q)) = L - 1
  <2>1. r \in Seq(Ids) /\ Len(r) = L
    BY RotProps
  <2>2. QED
    BY <1>1, <2>1, RemoveAtProps
<1>5. k2 \in 1 .. Len(u) + 1
  BY <1>1, <1>3
<1>6. Rot(u, k2) \in Seq(Ids) /\ Len(Rot(u, k2)) = L - 1
  BY <1>3, <1>5, RotProps
<1>7. ASSUME NEW i \in 1 .. L - 1 PROVE Rot(u, k2)[i] = RemoveAt(r, q)[i]
  <2> DEFINE j == IF i <= (L - 1) - k2 + 1 THEN i + k2 - 1 ELSE i - ((L - 1) - k2 + 1)
  <2>1. Rot(u, k2)[i] = u[j]
    <3>1. Rot(u, k2)[i] = IF i <= Len(u) - k2 + 1 THEN u[i + k2 - 1]
                          ELSE u[i - (Len(u) - k2 + 1)]
      BY <1>3, <1>5, RotAt
    <3>2. QED
      BY <1>3, <3>1
  <2>2. j \in 1 .. L - 1
    BY <1>1, <1>3, <1>5
  <2>3. u[j] = IF j < p THEN s[j] ELSE s[j + 1]
    BY <1>1, <2>2, RemoveAtAt
  <2>4. RemoveAt(r, q)[i] = IF i < q THEN r[i] ELSE r[i + 1]
    BY <1>1, <1>4, RemoveAtAt
  <2>5. r[i] = IF i <= L - k + 1 THEN s[i + k - 1] ELSE s[i - (L - k + 1)]
    <3>1. i \in 1 .. Len(s) /\ k \in 1 .. Len(s) + 1
      BY <1>1
    <3>2. QED
      BY <3>1, RotAt
  <2>6. r[i + 1] = IF i + 1 <= L - k + 1 THEN s[i + 1 + k - 1] ELSE s[i + 1 - (L - k + 1)]
    <3>1. i + 1 \in 1 .. Len(s) /\ k \in 1 .. Len(s) + 1
      BY <1>1
    <3>2. QED
      BY <3>1, RotAt
  <2> HIDE DEF u, r
  <2>7. CASE p = k /\ p = L
    BY <1>1, <2>1, <2>3, <2>4, <2>5, <2>6, <2>7 DEF RotPos
  <2>8. CASE ~(p = k /\ p = L) /\ p < k
    BY <1>1, <2>1, <2>3, <2>4, <2>5, <2>6, <2>8 DEF RotPos
  <2>9. CASE ~(p = k /\ p = L) /\ p >= k
    BY <1>1, <2>1, <2>3, <2>4, <2>5, <2>6, <2>9 DEF RotPos
  <2>10. QED
    BY <2>7, <2>8, <2>9
<1>8. QED
  BY <1>1, <1>2, <1>4, <1>6, <1>7, SeqEqual

\* A rotation holds only identifiers of the list.
LEMMA RotElems ==
    ASSUME NEW s \in Seq(Ids), NEW k \in 1 .. Len(s) + 1
    PROVE  Elems(Rot(s, k)) \subseteq Elems(s)
<1>1. Len(s) \in Nat /\ Rot(s, k) \in Seq(Ids) /\ Len(Rot(s, k)) = Len(s)
  BY RotProps, LenProperties
<1>2. DOMAIN Rot(s, k) = 1 .. Len(s) /\ DOMAIN s = 1 .. Len(s)
  BY <1>1, LenProperties
<1>3. ASSUME NEW x \in Elems(Rot(s, k)) PROVE x \in Elems(s)
  <2>1. PICK i \in 1 .. Len(s) : Rot(s, k)[i] = x
    BY <1>2 DEF Elems
  <2>2. Rot(s, k)[i] = IF i <= Len(s) - k + 1 THEN s[i + k - 1]
                       ELSE s[i - (Len(s) - k + 1)]
    BY RotAt
  <2>3. (IF i <= Len(s) - k + 1 THEN i + k - 1 ELSE i - (Len(s) - k + 1)) \in 1 .. Len(s)
    BY <1>1
  <2>4. QED
    BY <1>2, <2>1, <2>2, <2>3 DEF Elems
<1>4. QED
  BY <1>3

\* The empty list has the empty rotation.
LEMMA RotEmpty == Rot(<<>>, 1) = <<>>
<1>1. <<>> \in Seq(Ids) /\ Len(<<>>) = 0
  BY EmptySeq
<1>2. 1 \in 1 .. Len(<<>>) + 1
  BY <1>1
<1>3. Rot(<<>>, 1) \in Seq(Ids) /\ Len(Rot(<<>>, 1)) = Len(<<>>)
  BY <1>1, <1>2, RotProps
<1>4. QED
  BY <1>1, <1>3, EmptySeq

-----------------------------------------------------------------------------
(* The refinement.                                                         *)

\* The queue's Erase(v) on a queue of distinct identifiers: the single
\* position holding v is removed and the others keep their order.
QueueErase(v) ==
    /\ \E q \in 1 .. Len(Rotation) :
          /\ Rotation[q] = v
          /\ Rotation' = RemoveAt(Rotation, q)
    /\ UNCHANGED served

\* RoundRobinQueue's next-state relation with Erase in that form.
QueueNext ==
    \/ \E v \in Ids : Abstract!Insert(v) \/ QueueErase(v)
    \/ Abstract!Serve
    \/ Abstract!Clear

\* The rotation seen from the cursor.
LEMMA RotationIsRot == Rotation = Rot(list, nextIt) /\ Rotation' = Rot(list', nextIt')
BY DEF Rotation, Rot

\* insert(v) is the queue's Insert(v).
LEMMA InsertRefines ==
    ASSUME RInv, NEW v \in Ids, insert(v) PROVE Abstract!Insert(v)
<1>0. /\ list \in Seq(Ids) /\ nextIt \in 1 .. Len(list) + 1
      /\ (list # <<>> => nextIt \in 1 .. Len(list))
  BY DEF RInv, TypeOK, CursorValid
<1>1. /\ v \notin Elems(list)
      /\ list' = InsertAt(list, nextIt, v)
      /\ nextIt' = IF Len(InsertAt(list, nextIt, v)) = 1 THEN 1 ELSE nextIt + 1
      /\ served' = served
  BY DEF insert
<1>2. Rotation' = Append(Rotation, v)
  BY <1>0, <1>1, RotInsert, RotationIsRot
<1>3. v \notin {Rotation[i] : i \in DOMAIN Rotation}
  <2>1. Elems(Rot(list, nextIt)) \subseteq Elems(list)
    BY <1>0, RotElems
  <2>2. QED
    BY <1>1, <2>1, RotationIsRot DEF Elems
<1>4. QED
  BY <1>1, <1>2, <1>3 DEF Abstract!Insert, Abstract!InQueue

\* erase(v) removes from the queue the one position holding v.
LEMMA EraseRefines ==
    ASSUME RInv, NEW v \in Ids, erase(v) PROVE QueueErase(v)
<1> DEFINE p == PosOf(list, v)
<1>0. /\ list \in Seq(Ids) /\ DOMAIN list = 1 .. Len(list)
  BY DEF RInv, TypeOK
<1>1. list # <<>> /\ v \in Elems(list)
  BY DEF erase, RInv, IndexConsistent
<1>2. p \in 1 .. Len(list) /\ list[p] = v /\ nextIt \in 1 .. Len(list)
  BY <1>0, <1>1, PosOfProps DEF RInv, CursorValid
<1>3. /\ list' = RemoveAt(list, p)
      /\ nextIt' = IF p = nextIt /\ p = Len(list) THEN 1
                   ELSE IF p < nextIt THEN nextIt - 1 ELSE nextIt
      /\ served' = served
  BY DEF erase, eraseIt
<1>4. nextIt' \in Nat
  BY <1>2, <1>3
<1>5. /\ RotPos(p, nextIt, Len(list)) \in 1 .. Len(Rotation)
      /\ Rotation[RotPos(p, nextIt, Len(list))] = v
      /\ Rotation' = RemoveAt(Rotation, RotPos(p, nextIt, Len(list)))
  <2>1. Len(Rotation) = Len(list)
    BY <1>0, <1>2, RotProps, RotationIsRot
  <2>2. QED
    BY <1>0, <1>2, <1>3, <1>4, <2>1, RotErase, RotationIsRot
<1>6. QED
  BY <1>3, <1>5 DEF QueueErase

\* getNext serves the head of the queue and leaves it in place or moves it
\* to the back.
LEMMA GetNextRefines ==
    ASSUME RInv, NEW b \in (1 .. MaxBytes) \cup {None}, getNext(b)
    PROVE  Abstract!Serve
<1>0. /\ list \in Seq(Ids) /\ list # <<>> /\ nextIt \in 1 .. Len(list)
  BY DEF getNext, RInv, TypeOK, CursorValid
<1>1. /\ served' = list[nextIt] /\ list' = list
      /\ nextIt' \in {nextIt, IF nextIt + 1 = Len(list) + 1 THEN 1 ELSE nextIt + 1}
  BY DEF getNext, maybeAdvance
<1>2. /\ Rotation # <<>>
      /\ Head(Rotation) = list[nextIt]
      /\ Rot(list, IF nextIt + 1 = Len(list) + 1 THEN 1 ELSE nextIt + 1)
           = Append(Tail(Rotation), Head(Rotation))
  <2>1. /\ Rot(list, nextIt) # <<>>
        /\ Head(Rot(list, nextIt)) = list[nextIt]
        /\ Rot(list, IF nextIt + 1 = Len(list) + 1 THEN 1 ELSE nextIt + 1)
             = Append(Tail(Rot(list, nextIt)), Head(Rot(list, nextIt)))
    BY <1>0, RotAdvance
  <2>2. QED
    BY <2>1, RotationIsRot
<1>3. Rotation' \in {Rotation, Append(Tail(Rotation), Head(Rotation))}
  BY <1>1, <1>2, RotationIsRot
<1>4. QED
  BY <1>1, <1>2, <1>3 DEF Abstract!Serve

\* clear() empties the queue.
LEMMA ClearRefines == ASSUME clear PROVE Abstract!Clear
BY RotEmpty, RotationIsRot DEF clear, Abstract!Clear

\* Every step of the scheduler is a queue step or leaves the queue and the
\* served identifier alone.
LEMMA StepRefines ==
    RInv /\ [Next]_vars => [QueueNext]_<<Rotation, served>>
<1> SUFFICES ASSUME RInv, [Next]_vars PROVE [QueueNext]_<<Rotation, served>>
  OBVIOUS
<1>1. CASE \E n \in 0 .. MaxAdvance : advanceAfterNext(n) \/ advanceAfterBytes(n)
  BY <1>1, RotationIsRot DEF advanceAfterNext, advanceAfterBytes
<1>2. CASE \E v \in Ids : insert(v)
  BY <1>2, InsertRefines DEF QueueNext
<1>3. CASE \E v \in Ids : erase(v)
  BY <1>3, EraseRefines DEF QueueNext
<1>4. CASE \E b \in (1 .. MaxBytes) \cup {None} : getNext(b)
  BY <1>4, GetNextRefines DEF QueueNext
<1>5. CASE clear
  BY <1>5, ClearRefines DEF QueueNext
<1>6. CASE UNCHANGED vars
  BY <1>6, RotationIsRot DEF vars
<1>7. QED
  BY <1>1, <1>2, <1>3, <1>4, <1>5, <1>6 DEF Next

\* The scheduler starts as the empty queue with nothing served.
LEMMA InitRefines == Init => Abstract!Init
BY RotEmpty, RotationIsRot DEF Init, Abstract!Init

\* The scheduler implements the rotating queue (ImplementsRoundRobinQueue,
\* with Erase in its form for distinct identifiers): insert joins the back
\* of the cycle, erase removes exactly the erased identifier and keeps the
\* order of the others, getNext serves the head of the cycle and at most
\* moves it to the back, clear empties it, advanceAfter* is invisible.
THEOREM RoundRobinRefinesQueue ==
    Spec => Abstract!Init /\ [][QueueNext]_<<Rotation, served>>
<1>1. Spec => []RInv
  BY RInvAlways
<1>2. QED
  BY <1>1, InitRefines, StepRefines, PTL DEF Spec

=============================================================================
