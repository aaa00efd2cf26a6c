-------------------------- MODULE FaultRingProofs --------------------------
(***************************************************************************)
(* The fault ring for every ring size, every counter width that is a       *)
(* multiple of it, and every set of pages: the ring never overruns, the    *)
(* two threads never touch the same slot, and push and pop implement the   *)
(* bounded FIFO.                                                           *)
(***************************************************************************)
EXTENDS FaultRing, SequenceTheorems, TLAPS

-----------------------------------------------------------------------------
(* Arithmetic of the wrapping counters. *)

\* The counters have room for at least two ringfuls.
LEMMA CounterModBound ==
    /\ RingSize \in Nat /\ RingSize > 0
    /\ CounterMod \in Nat /\ CounterMod >= 2 * RingSize
<1>1. PICK k \in 2 .. CounterMod : CounterMod = k * RingSize
  BY RingAssumption
<1>2. k * RingSize >= 2 * RingSize
  BY <1>1, RingAssumption
<1> QED
  BY <1>1, <1>2, RingAssumption

\* uint32_t subtraction of two counters is their distance around the circle.
LEMMA DistValue ==
    ASSUME NEW h \in Counter, NEW t \in Counter
    PROVE  /\ Dist(h, t) = IF h >= t THEN h - t ELSE h - t + CounterMod
           /\ Dist(h, t) \in Counter
BY CounterModBound DEF Dist, Counter

\* Incrementing a uint32_t: one more, or zero at the top.
LEMMA SuccValue ==
    ASSUME NEW c \in Counter
    PROVE  /\ Succ(c) = IF c = CounterMod - 1 THEN 0 ELSE c + 1
           /\ Succ(c) \in Counter
BY CounterModBound DEF Succ, Counter

\* Publishing a request lengthens the unread part by one.
LEMMA DistSuccHead ==
    ASSUME NEW h \in Counter, NEW t \in Counter, Dist(h, t) < RingSize
    PROVE  Dist(Succ(h), t) = Dist(h, t) + 1
<1>1. Succ(h) \in Counter /\ Succ(h) = IF h = CounterMod - 1 THEN 0 ELSE h + 1
  BY SuccValue
<1>2. Dist(Succ(h), t) = IF Succ(h) >= t THEN Succ(h) - t ELSE Succ(h) - t + CounterMod
  BY <1>1, DistValue
<1>3. Dist(h, t) = IF h >= t THEN h - t ELSE h - t + CounterMod
  BY DistValue
<1> QED
  BY <1>1, <1>2, <1>3, CounterModBound DEF Counter

\* Retiring a request shortens the unread part by one.
LEMMA DistSuccTail ==
    ASSUME NEW h \in Counter, NEW t \in Counter, Dist(h, t) > 0
    PROVE  Dist(h, Succ(t)) = Dist(h, t) - 1
<1>1. Succ(t) \in Counter /\ Succ(t) = IF t = CounterMod - 1 THEN 0 ELSE t + 1
  BY SuccValue
<1>2. Dist(h, Succ(t)) = IF h >= Succ(t) THEN h - Succ(t) ELSE h - Succ(t) + CounterMod
  BY <1>1, DistValue
<1>3. Dist(h, t) = IF h >= t THEN h - t ELSE h - t + CounterMod
  BY DistValue
<1> QED
  BY <1>1, <1>2, <1>3, CounterModBound DEF Counter

\* Every counter has a slot.
LEMMA SlotRange ==
    ASSUME NEW c \in Nat
    PROVE  Slot(c) \in Slots
BY CounterModBound DEF Slot, Slots

\* A nonzero multiple of the ring size is at least a ringful away from zero.
LEMMA RingMultiple ==
    ASSUME NEW d \in Int
    PROVE  /\ d <= 0 => RingSize * d <= 0
           /\ d >= 1 => RingSize * d >= RingSize
           /\ d <= -1 => RingSize * d <= -RingSize
BY CounterModBound

\* A slot is determined by any quotient and remainder of the counter.
LEMMA SlotUnique ==
    ASSUME NEW c \in Nat, NEW q \in Int, NEW r \in Slots, c = RingSize * q + r
    PROVE  Slot(c) = r
<1> DEFINE p == c \div RingSize
<1>1. p \in Int /\ c = RingSize * p + Slot(c) /\ Slot(c) \in Slots
  BY CounterModBound DEF Slot, Slots
<1> HIDE DEF p
<1>2. RingSize * (q - p) = Slot(c) - r
  BY <1>1, CounterModBound DEF Slots
<1>3. q - p \in Int /\ (q - p >= 1 \/ q - p <= -1 \/ q - p = 0)
  BY <1>1
<1>4. q - p = 0
  BY <1>1, <1>2, <1>3, RingMultiple, CounterModBound DEF Slots
<1> QED
  BY <1>1, <1>2, <1>4, CounterModBound DEF Slots

\* Counting past the wrap does not change the slot: RingSize divides 2^32.
LEMMA SlotWrap ==
    ASSUME NEW c \in Nat
    PROVE  Slot(c + CounterMod) = Slot(c)
<1>1. PICK k \in 2 .. CounterMod : CounterMod = k * RingSize
  BY RingAssumption
<1> DEFINE q == c \div RingSize
<1>2. q \in Int /\ c = RingSize * q + Slot(c) /\ Slot(c) \in Slots
  BY CounterModBound DEF Slot, Slots
<1> HIDE DEF q
<1>3. q + k \in Int /\ c + CounterMod = RingSize * (q + k) + Slot(c)
  BY <1>1, <1>2, CounterModBound DEF Slots
<1>4. c + CounterMod \in Nat
  BY CounterModBound
<1> QED
  BY <1>2, <1>3, <1>4, SlotUnique

\* The producer's slot is the first one after the unread part.
LEMMA SlotOfHead ==
    ASSUME NEW h \in Counter, NEW t \in Counter
    PROVE  Slot(t + Dist(h, t)) = Slot(h)
<1>0. Dist(h, t) = IF h >= t THEN h - t ELSE h - t + CounterMod
  BY DistValue
<1>1. t + Dist(h, t) = h \/ t + Dist(h, t) = h + CounterMod
  BY <1>0, CounterModBound DEF Counter
<1>2. Slot(h + CounterMod) = Slot(h)
  BY SlotWrap DEF Counter
<1> QED
  BY <1>1, <1>2

\* The wrap of the counter falls on a slot boundary: Slot and Succ commute.
LEMMA SlotAfterSucc ==
    ASSUME NEW t \in Counter, NEW i \in Nat
    PROVE  Slot(Succ(t) + i) = Slot(t + 1 + i)
<1>0. Succ(t) = IF t = CounterMod - 1 THEN 0 ELSE t + 1
  BY SuccValue
<1>1. CASE t = CounterMod - 1
  <2>1. Succ(t) + i = i /\ t + 1 + i = i + CounterMod
    BY <1>0, <1>1, CounterModBound DEF Counter
  <2> QED
    BY <2>1, SlotWrap
<1>2. CASE t # CounterMod - 1
  <2>1. Succ(t) + i = t + 1 + i
    BY <1>0, <1>2, CounterModBound DEF Counter
  <2> QED
    BY <2>1
<1> QED
  BY <1>1, <1>2

\* Counters less than a ringful apart have different slots.
LEMMA SlotsApart ==
    ASSUME NEW a \in Nat, NEW b \in Nat, a < b, b - a < RingSize
    PROVE  Slot(a) # Slot(b)
<1> DEFINE qa == a \div RingSize
           qb == b \div RingSize
<1>1. /\ qa \in Int /\ a = RingSize * qa + Slot(a)
      /\ qb \in Int /\ b = RingSize * qb + Slot(b)
      /\ Slot(a) \in Int /\ Slot(b) \in Int
  BY CounterModBound DEF Slot
<1> SUFFICES ASSUME Slot(a) = Slot(b)
             PROVE  FALSE
  OBVIOUS
<1> HIDE DEF qa, qb
<1>2. b - a = RingSize * (qb - qa)
  BY <1>1, CounterModBound
<1>3. qb - qa \in Int /\ (qb - qa <= 0 \/ qb - qa >= 1)
  BY <1>1
<1> QED
  BY <1>2, <1>3, RingMultiple, CounterModBound

\* Sequence numbers a full width apart are the same number.
LEMMA SeqWrap ==
    ASSUME NEW x \in Int, x >= -CounterMod, x < CounterMod
    PROVE  (x - CounterMod) % CounterMod = x % CounterMod
BY CounterModBound

-----------------------------------------------------------------------------
(* The inductive invariant. *)

\* The number of unread requests is a counter value.
LEMMA UnreadIsNat ==
    ASSUME TypeOK
    PROVE  Unread \in Nat
<1>1. head \in Counter /\ tail \in Counter
  BY DEF TypeOK
<1>2. Dist(head, tail) \in Counter
  BY <1>1, DistValue
<1> QED
  BY <1>2, CounterModBound DEF Unread, Counter

\* While there is room, the slot at head holds no unread request.
LEMMA HeadSlotUnused ==
    ASSUME TypeOK, Unread < RingSize
    PROVE  /\ \A i \in 0 .. (Unread - 1) : Slot(tail + i) # Slot(head)
           /\ Unread > 0 => Slot(tail) # Slot(head)
<1>1. Unread \in Nat /\ tail \in Nat
  BY UnreadIsNat, CounterModBound DEF TypeOK, Counter
<1>2. Slot(tail + Unread) = Slot(head)
  BY SlotOfHead DEF TypeOK, Unread
<1>3. ASSUME NEW i \in 0 .. (Unread - 1)
      PROVE  Slot(tail + i) # Slot(head)
  <2>1. /\ tail + i \in Nat /\ tail + Unread \in Nat
        /\ tail + i < tail + Unread
        /\ (tail + Unread) - (tail + i) < RingSize
    <3>1. tail + i \in Nat /\ tail + Unread \in Nat /\ tail + i < tail + Unread
      BY <1>1
    <3>2. (tail + Unread) - (tail + i) = Unread - i
      BY <1>1
    <3>3. Unread - i < RingSize
      BY <1>1, CounterModBound
    <3> QED
      BY <3>1, <3>2, <3>3
  <2> QED
    BY <2>1, <1>2, SlotsApart
<1>4. Unread > 0 => 0 \in 0 .. (Unread - 1) /\ tail + 0 = tail
  BY <1>1
<1> QED
  BY <1>3, <1>4

\* ufta_ring_init establishes the invariant.
LEMMA RingInit == Init => RingInv
<1> SUFFICES ASSUME Init
             PROVE  RingInv
  OBVIOUS
<1>1. 0 \in Counter /\ 0 \in Nat
  BY CounterModBound DEF Counter
<1>2. Unread = 0
  BY <1>1, DistValue DEF Init, Unread
<1>3. TypeOK
  BY <1>1 DEF Init, TypeOK, Word
<1> QED
  BY <1>2, <1>3, CounterModBound
     DEF Init, RingInv, NoOverrun, Filled, SeqInOrder, CopyIntact, Writing, Reading

\* The full test of ufta_ring_push preserves the invariant.
LEMMA PushCheckStep ==
    ASSUME RingInv, NEW p \in Pages, PushCheck(p)
    PROVE  RingInv'
<1> USE DEF RingInv
<1>1. TypeOK'
  BY DEF TypeOK, PushCheck, Word
<1>2. Unread' = Unread /\ Unread < RingSize
  <2>1. Unread \in Nat
    BY UnreadIsNat
  <2> QED
    BY <2>1, CounterModBound DEF PushCheck, Unread, Dist, Full
<1>3. NoOverrun'
  BY <1>2 DEF NoOverrun, PushCheck, Writing, Reading, TypeOK
<1>4. Filled'
  BY <1>2 DEF Filled, PushCheck, Writing, TypeOK
<1>5. SeqInOrder'
  BY <1>2 DEF SeqInOrder, PushCheck, Unnumbered, TypeOK
<1>6. CopyIntact'
  BY DEF CopyIntact, PushCheck
<1> QED
  BY <1>1, <1>3, <1>4, <1>5, <1>6

\* Writing page_index into the free slot disturbs no unread request.
LEMMA PushPageStep ==
    ASSUME RingInv, PushPage
    PROVE  RingInv'
<1> USE DEF RingInv
<1>1. prod.pc = "page" /\ prod.head = head /\ prod.page \in Pages /\ Unread < RingSize
  BY DEF PushPage, NoOverrun, Filled, Writing
<1>2. Slot(head) \in Slots
  BY SlotRange, CounterModBound DEF TypeOK, Counter
<1>3. TypeOK'
  BY <1>1, <1>2 DEF TypeOK, PushPage, Word
<1>4. Unread' = Unread /\ Unread \in Nat
  BY UnreadIsNat DEF PushPage, Unread
<1>5. slotPage'[Slot(head)] = prod.page
  BY <1>1, <1>2 DEF PushPage, TypeOK
<1>6. /\ \A i \in 0 .. (Unread - 1) : slotPage'[Slot(tail + i)] = slotPage[Slot(tail + i)]
      /\ Unread > 0 => slotPage'[Slot(tail)] = slotPage[Slot(tail)]
  <2>1. \A i \in 0 .. (Unread - 1) : tail + i \in Nat
    BY <1>4, CounterModBound DEF TypeOK, Counter
  <2>2. tail \in Nat
    BY CounterModBound DEF TypeOK, Counter
  <2> QED
    BY <1>1, <1>2, <2>1, <2>2, HeadSlotUnused, SlotRange DEF PushPage, TypeOK
<1>7. NoOverrun'
  BY <1>4 DEF NoOverrun, PushPage, Writing, Reading, TypeOK
<1>8. Filled'
  BY <1>1, <1>4, <1>5, <1>6 DEF Filled, PushPage, Writing, TypeOK
<1>9. SeqInOrder'
  BY <1>1, <1>4 DEF SeqInOrder, PushPage, Unnumbered, TypeOK
<1>10. CopyIntact'
  BY <1>6 DEF CopyIntact, NoOverrun, Reading, PushPage
<1> QED
  BY <1>3, <1>7, <1>8, <1>9, <1>10

\* Writing seq into the free slot disturbs no unread request.
LEMMA PushSeqStep ==
    ASSUME RingInv, PushSeq
    PROVE  RingInv'
<1> USE DEF RingInv
<1>1. prod.pc = "seq" /\ prod.head = head /\ prod.page \in Pages /\ Unread < RingSize
  BY DEF PushSeq, NoOverrun, Filled, Writing
<1>2. Slot(head) \in Slots /\ seq \in Counter
  BY SlotRange, CounterModBound DEF TypeOK, Counter
<1>3. TypeOK'
  BY <1>1, <1>2, SuccValue DEF TypeOK, PushSeq
<1>4. Unread' = Unread /\ Unread \in Nat
  BY UnreadIsNat DEF PushSeq, Unread
<1>5. slotSeq'[Slot(head)] = seq
  BY <1>1, <1>2 DEF PushSeq, TypeOK
<1>6. /\ \A i \in 0 .. (Unread - 1) : slotSeq'[Slot(tail + i)] = slotSeq[Slot(tail + i)]
      /\ Unread > 0 => slotSeq'[Slot(tail)] = slotSeq[Slot(tail)]
  <2>1. \A i \in 0 .. (Unread - 1) : tail + i \in Nat
    BY <1>4, CounterModBound DEF TypeOK, Counter
  <2>2. tail \in Nat
    BY CounterModBound DEF TypeOK, Counter
  <2> QED
    BY <1>1, <1>2, <2>1, <2>2, HeadSlotUnused, SlotRange DEF PushSeq, TypeOK
<1>7. seq' = IF seq = CounterMod - 1 THEN 0 ELSE seq + 1
  BY <1>2, SuccValue DEF PushSeq
<1>8. ASSUME NEW i \in 0 .. (Unread - 1)
      PROVE  (seq' - 1 - Unread + i) % CounterMod = (seq - 0 - Unread + i) % CounterMod
  <2>1. CASE seq = CounterMod - 1
    <3>1. /\ seq - 0 - Unread + i \in Int
          /\ seq - 0 - Unread + i >= -CounterMod
          /\ seq - 0 - Unread + i < CounterMod
      BY <1>1, <1>2, <1>4, CounterModBound DEF Counter
    <3>2. seq' - 1 - Unread + i = (seq - 0 - Unread + i) - CounterMod
      BY <1>4, <1>7, <2>1, CounterModBound
    <3> QED
      BY <3>1, <3>2, SeqWrap
  <2>2. CASE seq # CounterMod - 1
    <3>1. seq' - 1 - Unread + i = seq - 0 - Unread + i
      BY <1>2, <1>4, <1>7, <2>2, CounterModBound DEF Counter
    <3> QED
      BY <3>1
  <2> QED
    BY <2>1, <2>2
<1>9. (seq' - 1) % CounterMod = seq
  BY <1>2, <1>7, CounterModBound DEF Counter
<1>10. NoOverrun'
  BY <1>4 DEF NoOverrun, PushSeq, Writing, Reading, TypeOK
<1>11. Filled'
  BY <1>1, <1>4, <1>5, <1>9 DEF Filled, PushSeq, Writing, TypeOK
<1>12. SeqInOrder'
  <2>1. Unnumbered = 0 /\ Unnumbered' = 1
    BY <1>1 DEF Unnumbered, PushSeq, TypeOK
  <2>2. ASSUME NEW i \in 0 .. (Unread - 1)
        PROVE  slotSeq'[Slot(tail + i)] = (seq' - 1 - Unread + i) % CounterMod
    BY <1>6, <1>8, <2>1 DEF SeqInOrder
  <2> QED
    BY <1>4, <2>1, <2>2 DEF SeqInOrder, PushSeq
<1>13. CopyIntact'
  BY <1>6 DEF CopyIntact, NoOverrun, Reading, PushSeq
<1> QED
  BY <1>3, <1>10, <1>11, <1>12, <1>13

\* Publishing head makes the filled slot the last unread one.
LEMMA PushPublishStep ==
    ASSUME RingInv, PushPublish
    PROVE  RingInv'
<1> USE DEF RingInv
<1>1. /\ prod.pc = "publish" /\ prod.head = head /\ prod.page \in Pages
      /\ Unread < RingSize /\ Unread \in Nat
  BY UnreadIsNat DEF PushPublish, NoOverrun, Filled, Writing
<1>2. TypeOK'
  BY SuccValue DEF TypeOK, PushPublish
<1>3. Unread' = Unread + 1
  BY <1>1, DistSuccHead DEF PushPublish, Unread, TypeOK
<1>4. Slot(tail + Unread) = Slot(head)
  BY SlotOfHead DEF TypeOK, Unread
<1>5. \A i \in 0 .. Unread : i \in 0 .. (Unread - 1) \/ i = Unread
  BY <1>1
<1>6. 0 .. (Unread' - 1) = 0 .. Unread
  BY <1>1, <1>3
<1>7. NoOverrun'
  BY <1>1, <1>3, CounterModBound DEF NoOverrun, PushPublish, Writing, Reading, TypeOK
<1>8. Filled'
  BY <1>1, <1>4, <1>5, <1>6 DEF Filled, PushPublish, Writing, TypeOK
<1>9. SeqInOrder'
  <2>1. Unnumbered = 1 /\ Unnumbered' = 0
    BY <1>1 DEF Unnumbered, PushPublish, TypeOK
  <2>2. ASSUME NEW i \in 0 .. Unread
        PROVE  slotSeq[Slot(tail + i)] = (seq - 0 - (Unread + 1) + i) % CounterMod
    <3>1. seq \in Int
      BY CounterModBound DEF TypeOK, Counter
    <3>2. CASE i = Unread
      <4>1. slotSeq[Slot(tail + i)] = (seq - 1) % CounterMod
        BY <1>1, <1>4, <3>2 DEF Filled
      <4>2. seq - 0 - (Unread + 1) + i = seq - 1
        BY <1>1, <3>1, <3>2
      <4> QED
        BY <4>1, <4>2
    <3>3. CASE i \in 0 .. (Unread - 1)
      <4>1. slotSeq[Slot(tail + i)] = (seq - 1 - Unread + i) % CounterMod
        BY <2>1, <3>3 DEF SeqInOrder
      <4>2. seq - 0 - (Unread + 1) + i = seq - 1 - Unread + i
        BY <1>1, <3>1, <3>3
      <4> QED
        BY <4>1, <4>2
    <3> QED
      BY <1>5, <3>2, <3>3
  <2> QED
    BY <1>3, <1>6, <2>1, <2>2 DEF SeqInOrder, PushPublish
<1>10. CopyIntact'
  BY DEF CopyIntact, PushPublish
<1> QED
  BY <1>2, <1>7, <1>8, <1>9, <1>10

\* Copying the slot out changes nothing the producer reads.
LEMMA PopReadStep ==
    ASSUME RingInv, PopCheck \/ PopPage \/ PopSeq
    PROVE  RingInv'
<1> USE DEF RingInv
<1>1. Unread' = Unread /\ Unread \in Nat
  BY UnreadIsNat DEF PopCheck, PopPage, PopSeq, Unread
<1>2. /\ prod' = prod /\ head' = head /\ tail' = tail /\ seq' = seq
      /\ slotPage' = slotPage /\ slotSeq' = slotSeq /\ taken' = taken
  BY DEF PopCheck, PopPage, PopSeq
<1>3. PopCheck => Unread > 0
  <2>1. head \in Counter /\ tail \in Counter
    BY DEF TypeOK
  <2>2. Dist(head, tail) = IF head >= tail THEN head - tail ELSE head - tail + CounterMod
    BY <2>1, DistValue
  <2> QED
    BY <2>1, <2>2, CounterModBound DEF PopCheck, Empty, Unread, Counter
<1>4. TypeOK'
  <2>1. Slot(cons.tail) \in Slots
    BY SlotRange, CounterModBound DEF TypeOK, Counter
  <2>2. slotPage[Slot(cons.tail)] \in Word /\ slotSeq[Slot(cons.tail)] \in Counter
    BY <2>1 DEF TypeOK
  <2> QED
    BY <1>2, <2>2 DEF TypeOK, PopCheck, PopPage, PopSeq
<1>5. NoOverrun'
  BY <1>1, <1>2, <1>3 DEF NoOverrun, PopCheck, PopPage, PopSeq, Writing, Reading, TypeOK
<1>6. Filled'
  BY <1>1, <1>2 DEF Filled, Writing
<1>7. SeqInOrder'
  BY <1>1, <1>2 DEF SeqInOrder, Unnumbered
<1>8. CopyIntact'
  BY <1>2 DEF CopyIntact, NoOverrun, Reading, PopCheck, PopPage, PopSeq, TypeOK
<1> QED
  BY <1>4, <1>5, <1>6, <1>7, <1>8

\* Advancing tail frees the slot that was copied.
LEMMA PopAdvanceStep ==
    ASSUME RingInv, PopAdvance
    PROVE  RingInv'
<1> USE DEF RingInv
<1>1. /\ cons.pc = "advance" /\ cons.tail = tail /\ Unread > 0 /\ Unread \in Nat
      /\ tail \in Counter /\ tail \in Nat
  BY UnreadIsNat, CounterModBound DEF PopAdvance, NoOverrun, Reading, TypeOK, Counter
<1>2. Unread' = Unread - 1
  BY <1>1, DistSuccTail DEF PopAdvance, Unread, TypeOK
<1>3. cons.page \in Pages
  <2>1. 0 \in 0 .. (Unread - 1) /\ tail + 0 = tail
    BY <1>1
  <2> QED
    BY <1>1, <2>1 DEF CopyIntact, Filled
<1>4. TypeOK'
  BY <1>1, <1>3, SuccValue DEF TypeOK, PopAdvance, Request
<1>5. ASSUME NEW i \in 0 .. (Unread' - 1)
      PROVE  /\ i + 1 \in 0 .. (Unread - 1)
             /\ Slot(tail' + i) = Slot(tail + (i + 1))
  <2>1. tail + 1 + i = tail + (i + 1)
    BY <1>1
  <2>2. Slot(Succ(tail) + i) = Slot(tail + 1 + i)
    BY <1>1, <1>2, SlotAfterSucc
  <2> QED
    BY <1>1, <1>2, <2>1, <2>2 DEF PopAdvance
<1>6. NoOverrun'
  BY <1>1, <1>2, CounterModBound DEF NoOverrun, PopAdvance, Writing, Reading, TypeOK
<1>7. Filled'
  BY <1>5 DEF Filled, PopAdvance, Writing
<1>8. SeqInOrder'
  <2> SUFFICES ASSUME NEW i \in 0 .. (Unread' - 1)
               PROVE  slotSeq'[Slot(tail' + i)]
                        = (seq' - Unnumbered' - Unread' + i) % CounterMod
    BY DEF SeqInOrder
  <2>1. slotSeq[Slot(tail + (i + 1))] = (seq - Unnumbered - Unread + (i + 1)) % CounterMod
    BY <1>5 DEF SeqInOrder
  <2>2. Unnumbered' = Unnumbered /\ Unnumbered \in Int /\ seq' = seq /\ seq \in Int
    BY CounterModBound DEF Unnumbered, PopAdvance, TypeOK, Counter
  <2>3. seq - Unnumbered - (Unread - 1) + i = seq - Unnumbered - Unread + (i + 1)
    BY <1>1, <1>2, <2>2
  <2> QED
    BY <1>2, <1>5, <2>1, <2>2, <2>3 DEF PopAdvance
<1>9. CopyIntact'
  BY DEF CopyIntact, PopAdvance, TypeOK
<1> QED
  BY <1>4, <1>6, <1>7, <1>8, <1>9

(* The invariant holds for every ring size, counter width and page set:    *)
(* ufta_ring_push and ufta_ring_pop keep the ring consistent under every   *)
(* interleaving of their memory accesses.                                  *)
THEOREM RingInvariant == Spec => []RingInv
<1>1. RingInv /\ [Next]_vars => RingInv'
  <2> SUFFICES ASSUME RingInv, [Next]_vars
               PROVE  RingInv'
    OBVIOUS
  <2>1. CASE Push
    BY <2>1, PushCheckStep, PushPageStep, PushSeqStep, PushPublishStep DEF Push
  <2>2. CASE Pop
    BY <2>2, PopReadStep, PopAdvanceStep DEF Pop
  <2>3. CASE UNCHANGED vars
    BY <2>3 DEF vars, RingInv, TypeOK, NoOverrun, Filled, SeqInOrder, CopyIntact, Unread,
                Writing, Reading, Unnumbered
  <2> QED
    BY <2>1, <2>2, <2>3 DEF Next
<1> QED
  BY RingInit, <1>1, PTL DEF Spec

(* Type correctness of the ring. *)
THEOREM RingTypeCorrect == Spec => []TypeOK
<1>1. RingInv => TypeOK
  BY DEF RingInv
<1> QED
  BY RingInvariant, <1>1, PTL

(* No push ever overwrites a request the worker has not taken, also across *)
(* the wrap of the 32-bit counters.                                        *)
THEOREM RingNeverOverruns == Spec => []NoOverrun
<1>1. RingInv => NoOverrun
  BY DEF RingInv
<1> QED
  BY RingInvariant, <1>1, PTL

(* The handler and the worker never access the same slot at the same time: *)
(* the room the handler tested for keeps its slot away from the worker's.  *)
THEOREM RingSlotsRaceFree == Spec => []NoSlotRace
<1>1. RingInv => NoSlotRace
  <2> SUFFICES ASSUME RingInv, Writing, Reading
               PROVE  Slot(prod.head) # Slot(cons.tail)
    BY DEF NoSlotRace
  <2>1. TypeOK /\ prod.head = head /\ cons.tail = tail /\ Unread < RingSize /\ Unread > 0
    BY DEF RingInv, NoOverrun
  <2> QED
    BY <2>1, HeadSlotUnused
<1> QED
  BY RingInvariant, <1>1, PTL

-----------------------------------------------------------------------------
(* The ring implements the bounded FIFO. *)

\* The abstract queue is a sequence of requests, as long as the unread part.
LEMMA InFlightIsSeq ==
    ASSUME RingInv
    PROVE  /\ InFlight \in Seq(Request) /\ Len(InFlight) = Unread
           /\ Unread \in Nat
<1>1. Unread \in Nat /\ TypeOK /\ Filled /\ tail \in Nat
  BY UnreadIsNat, CounterModBound DEF RingInv, TypeOK, Counter
<1>2. ASSUME NEW i \in 1 .. Unread
      PROVE  InFlight[i] \in Request
  <2>1. i - 1 \in 0 .. (Unread - 1) /\ tail + (i - 1) = tail + i - 1
    BY <1>1
  <2>2. slotPage[Slot(tail + i - 1)] \in Pages
    BY <1>1, <2>1 DEF Filled
  <2>3. Slot(tail + i - 1) \in Slots
    BY <1>1, <2>1, SlotRange
  <2>4. slotSeq[Slot(tail + i - 1)] \in Counter
    BY <1>1, <2>3 DEF TypeOK
  <2> QED
    BY <2>2, <2>4 DEF InFlight, Request
<1> QED
  BY <1>1, <1>2 DEF InFlight

\* A push takes effect when it publishes head.
LEMMA PublishIsPut ==
    ASSUME RingInv, RingInv', PushPublish
    PROVE  \E e \in Request : Fifo!Put(e)
<1> DEFINE e == [page |-> slotPage[Slot(head)], seq |-> slotSeq[Slot(head)]]
<1>1. /\ prod.pc = "publish" /\ prod.head = head /\ prod.page \in Pages
      /\ Unread < RingSize /\ Unread \in Nat /\ TypeOK
      /\ slotPage[Slot(head)] = prod.page
  BY UnreadIsNat DEF PushPublish, RingInv, NoOverrun, Filled, Writing
<1>2. Slot(head) \in Slots
  BY <1>1, SlotRange, CounterModBound DEF TypeOK, Counter
<1>3. e \in Request
  BY <1>1, <1>2 DEF TypeOK, Request
<1>4. Unread' = Unread + 1
  BY <1>1, DistSuccHead DEF PushPublish, Unread, TypeOK
<1>5. Slot(tail + Unread) = Slot(head)
  BY <1>1, SlotOfHead DEF TypeOK, Unread
<1>6. InFlight' = Append(InFlight, e)
  <2>1. InFlight \in Seq(Request) /\ Len(InFlight) = Unread
    BY InFlightIsSeq
  <2>2. InFlight' = [i \in 1 .. (Unread + 1) |->
                       [page |-> slotPage[Slot(tail + i - 1)],
                        seq  |-> slotSeq[Slot(tail + i - 1)]]]
    BY <1>4 DEF InFlight, PushPublish
  <2>3. tail + (Unread + 1) - 1 = tail + Unread
    BY <1>1, CounterModBound DEF TypeOK, Counter
  <2>4. InFlight'[Unread + 1] = e
    BY <1>1, <1>5, <2>2, <2>3
  <2>5. ASSUME NEW i \in 1 .. Unread
        PROVE  InFlight'[i] = InFlight[i]
    <3>1. i \in 1 .. (Unread + 1)
      BY <1>1
    <3>2. InFlight'[i] = [page |-> slotPage[Slot(tail + i - 1)],
                          seq  |-> slotSeq[Slot(tail + i - 1)]]
      BY <2>2, <3>1
    <3>3. InFlight[i] = [page |-> slotPage[Slot(tail + i - 1)],
                         seq  |-> slotSeq[Slot(tail + i - 1)]]
      BY DEF InFlight
    <3> QED
      BY <3>2, <3>3
  <2>6. DOMAIN InFlight' = 1 .. (Unread + 1)
    BY <2>2
  <2>7. Append(InFlight, e) = [i \in 1 .. (Unread + 1) |->
                                 IF i = Unread + 1 THEN e ELSE InFlight[i]]
    BY <2>1
  <2>8. \A i \in 1 .. (Unread + 1) : i = Unread + 1 \/ i \in 1 .. Unread
    BY <1>1
  <2>9. \A i \in 1 .. (Unread + 1) :
          InFlight'[i] = IF i = Unread + 1 THEN e ELSE InFlight[i]
    BY <2>4, <2>5, <2>8
  <2>10. InFlight' = [i \in 1 .. (Unread + 1) |-> InFlight'[i]]
    BY <2>2, <2>6
  <2> QED
    BY <2>7, <2>9, <2>10
<1>7. Len(InFlight) = Unread
  BY InFlightIsSeq
<1>8. taken' = taken
  BY DEF PushPublish
<1>9. Fifo!Put(e)
  BY <1>1, <1>6, <1>7, <1>8, CounterModBound DEF Fifo!Put, Fifo!IsFull
<1> QED
  BY <1>3, <1>9

\* A pop takes effect when it advances tail.
LEMMA AdvanceIsTake ==
    ASSUME RingInv, RingInv', PopAdvance
    PROVE  Fifo!Take
<1>1. /\ cons.pc = "advance" /\ cons.tail = tail /\ Unread > 0 /\ Unread \in Nat
      /\ tail \in Counter /\ tail \in Nat
  BY UnreadIsNat, CounterModBound
     DEF PopAdvance, RingInv, NoOverrun, Reading, TypeOK, Counter
<1>2. Unread' = Unread - 1
  BY <1>1, DistSuccTail DEF PopAdvance, Unread, RingInv, TypeOK
<1>3. InFlight \in Seq(Request) /\ Len(InFlight) = Unread
  BY InFlightIsSeq
<1>4. InFlight # << >>
  BY <1>1, <1>3
<1>5. taken' = <<Head(InFlight)>>
  <2>1. Head(InFlight) = [page |-> slotPage[Slot(tail)], seq |-> slotSeq[Slot(tail)]]
    <3>1. 1 \in 1 .. Unread /\ tail + 1 - 1 = tail
      BY <1>1
    <3>2. Head(InFlight) = InFlight[1]
      BY <1>3, <1>4
    <3> QED
      BY <3>1, <3>2 DEF InFlight
  <2>2. cons.page = slotPage[Slot(tail)] /\ cons.seq = slotSeq[Slot(tail)]
    BY <1>1 DEF RingInv, CopyIntact
  <2> QED
    BY <2>1, <2>2 DEF PopAdvance
<1>6. InFlight' = Tail(InFlight)
  <2>1. InFlight' = [i \in 1 .. (Unread - 1) |->
                       [page |-> slotPage[Slot(tail' + i - 1)],
                        seq  |-> slotSeq[Slot(tail' + i - 1)]]]
    BY <1>2 DEF InFlight, PopAdvance
  <2>2. Tail(InFlight) = [i \in 1 .. (Unread - 1) |-> InFlight[i + 1]]
    <3>1. /\ Tail(InFlight) \in Seq(Request)
          /\ Len(Tail(InFlight)) = Unread - 1
          /\ \A i \in 1 .. (Unread - 1) : Tail(InFlight)[i] = InFlight[i + 1]
      BY <1>3, <1>4, HeadTailProperties
    <3>2. ASSUME NEW t \in Seq(Request), Len(t) = Unread - 1
          PROVE  t = [i \in 1 .. (Unread - 1) |-> t[i]]
      BY <3>2
    <3>3. Tail(InFlight) = [i \in 1 .. (Unread - 1) |-> Tail(InFlight)[i]]
      BY <3>1, <3>2
    <3> QED
      BY <3>1, <3>3
  <2>3. ASSUME NEW i \in 1 .. (Unread - 1)
        PROVE  /\ i + 1 \in 1 .. Unread
               /\ Slot(tail' + i - 1) = Slot(tail + (i + 1) - 1)
    <3>1. i - 1 \in Nat /\ Succ(tail) + (i - 1) = tail' + i - 1
      BY <1>1, <2>3, SuccValue, CounterModBound DEF PopAdvance, Counter
    <3>2. tail + 1 + (i - 1) = tail + (i + 1) - 1
      BY <1>1, <2>3
    <3>3. Slot(Succ(tail) + (i - 1)) = Slot(tail + 1 + (i - 1))
      BY <1>1, <3>1, SlotAfterSucc
    <3> QED
      BY <1>1, <2>3, <3>1, <3>2, <3>3
  <2>4. \A i \in 1 .. (Unread - 1) :
          [page |-> slotPage[Slot(tail' + i - 1)], seq |-> slotSeq[Slot(tail' + i - 1)]]
            = InFlight[i + 1]
    BY <2>3 DEF InFlight
  <2> QED
    BY <2>1, <2>2, <2>4
<1> QED
  BY <1>4, <1>5, <1>6 DEF Fifo!Take

\* Every other step leaves the abstract queue alone.
LEMMA OtherStepsStutter ==
    ASSUME RingInv, PushPage \/ PushSeq \/ (\E p \in Pages : PushCheck(p))
                    \/ PopCheck \/ PopPage \/ PopSeq \/ UNCHANGED vars
    PROVE  UNCHANGED <<InFlight, taken>>
<1>1. Unread' = Unread /\ tail' = tail /\ taken' = taken
  BY DEF PushPage, PushSeq, PushCheck, PopCheck, PopPage, PopSeq, vars, Unread
<1>2. ASSUME NEW i \in 1 .. Unread
      PROVE  /\ slotPage'[Slot(tail + i - 1)] = slotPage[Slot(tail + i - 1)]
             /\ slotSeq'[Slot(tail + i - 1)] = slotSeq[Slot(tail + i - 1)]
  <2>1. TypeOK /\ Unread \in Nat /\ tail \in Nat
    BY UnreadIsNat, CounterModBound DEF RingInv, TypeOK, Counter
  <2>2. i - 1 \in 0 .. (Unread - 1) /\ tail + (i - 1) = tail + i - 1
    BY <2>1
  <2>3. Slot(tail + i - 1) \in Slots
    BY <2>1, <2>2, SlotRange
  <2>4. CASE PushPage \/ PushSeq
    <3>1. prod.head = head /\ Unread < RingSize
      BY <2>4 DEF RingInv, NoOverrun, Writing, PushPage, PushSeq
    <3>2. Slot(tail + i - 1) # Slot(head)
      BY <2>1, <2>2, <3>1, HeadSlotUnused
    <3> QED
      BY <2>1, <2>3, <2>4, <3>1, <3>2 DEF PushPage, PushSeq, TypeOK
  <2>5. CASE ~(PushPage \/ PushSeq)
    <3>1. slotPage' = slotPage /\ slotSeq' = slotSeq
      BY <2>5 DEF PushCheck, PopCheck, PopPage, PopSeq, vars
    <3> QED
      BY <3>1
  <2> QED
    BY <2>4, <2>5
<1> QED
  BY <1>1, <1>2 DEF InFlight

(* The lock-free ring is a bounded FIFO queue of fault requests: whatever  *)
(* the interleaving of handler and worker, requests come out once each and *)
(* in the order they were pushed.                                          *)
THEOREM RingImplementsFifo == Spec => ImplementsFifo
<1>1. Init => Fifo!FifoInit
  <2> SUFFICES ASSUME Init
               PROVE  Fifo!FifoInit
    OBVIOUS
  <2>1. RingInv
    BY RingInit
  <2>2. Unread = 0
    <3>1. 0 \in Counter
      BY CounterModBound DEF Counter
    <3> QED
      BY <3>1, DistValue DEF Init, Unread
  <2>3. InFlight = << >>
    BY <2>1, <2>2, InFlightIsSeq
  <2> QED
    BY <2>3 DEF Fifo!FifoInit, Init
<1>2. RingInv /\ RingInv' /\ [Next]_vars => [Fifo!FifoNext]_(Fifo!fifoVars)
  <2> SUFFICES ASSUME RingInv, RingInv', [Next]_vars
               PROVE  [Fifo!FifoNext]_(Fifo!fifoVars)
    OBVIOUS
  <2>1. CASE PushPublish
    BY <2>1, PublishIsPut DEF Fifo!FifoNext
  <2>2. CASE PopAdvance
    BY <2>2, AdvanceIsTake DEF Fifo!FifoNext
  <2>3. CASE ~PushPublish /\ ~PopAdvance
    <3>1. UNCHANGED <<InFlight, taken>>
      BY <2>3, OtherStepsStutter DEF Next, Push, Pop
    <3> QED
      BY <3>1 DEF Fifo!fifoVars
  <2> QED
    BY <2>1, <2>2, <2>3
<1> QED
  BY RingInvariant, <1>1, <1>2, PTL DEF Spec, ImplementsFifo, Fifo!FifoSpec
=============================================================================
