----------------------------- MODULE FaultRing -----------------------------
(***************************************************************************)
(* The lock-free ring of fault requests (ufta_ring_t, worker.h:45-54), one *)
(* memory access per step.  One producer runs ufta_ring_push (the signal   *)
(* handler) and one consumer runs ufta_ring_pop (the worker thread); each  *)
(* keeps its locals in a record of its own.  head, tail and seq are        *)
(* uint32_t and wrap at CounterMod; the build has CounterMod = 2^32 and    *)
(* RingSize = UFTA_WORKER_RING_SIZE = 4096.  The full barriers of both     *)
(* functions keep each one's accesses in program order.                    *)
(***************************************************************************)
EXTENDS Integers, Sequences

CONSTANTS RingSize,    \* UFTA_WORKER_RING_SIZE
          CounterMod,  \* 2^32: where a uint32_t wraps
          Pages        \* the page indices that fault

ASSUME RingAssumption ==
    /\ RingSize \in Nat \ {0}
    /\ CounterMod \in Nat
    /\ \E k \in 2 .. CounterMod : CounterMod = k * RingSize
    /\ Pages \subseteq Nat

Counter == 0 .. (CounterMod - 1)

VARIABLES head,      \* next counter the producer publishes
          tail,      \* next counter the consumer reads
          seq,       \* global fault sequence number
          slotPage,  \* slots[i].page_index
          slotSeq,   \* slots[i].seq
          prod,      \* the producer: [pc, page, head]
          cons,      \* the consumer: [pc, tail, page, seq]
          taken      \* what the last successful pop returned

vars == <<head, tail, seq, slotPage, slotSeq, prod, cons, taken>>

NoPage == -1
Slots  == 0 .. (RingSize - 1)

Slot(c)    == c % RingSize

\* Mutant: the counter is wider than the code takes it to be.
SuccUnwrapped(c) == c + 1
Succ(c)    == (c + 1) % CounterMod
Dist(h, t) == (h - t) % CounterMod

Empty(h, t) == h = t

\* Mutant: the boundary one too late, so a full ring accepts one more request.
FullTooLate(h, t) == Dist(h, t) > RingSize
\* Mutant: the difference of the counters is not taken modulo their width.
FullUnwrapped(h, t) == h - t >= RingSize
Full(h, t) == Dist(h, t) >= RingSize

Request == [page : Pages, seq : Counter]
Word    == {NoPage} \cup Pages

\* ufta_ring_init: the memset and the three explicit zeros.
Init ==
    /\ head = 0 /\ tail = 0 /\ seq = 0
    /\ slotPage = [i \in Slots |-> NoPage]
    /\ slotSeq = [i \in Slots |-> 0]
    /\ prod = [pc |-> "idle", page |-> NoPage, head |-> 0]
    /\ cons = [pc |-> "idle", tail |-> 0, page |-> NoPage, seq |-> 0]
    /\ taken = << >>

-----------------------------------------------------------------------------
(* ufta_ring_push *)

\* Read head and tail; a full ring returns -1 and changes nothing.
PushCheck(p) ==
    /\ prod.pc = "idle"
    /\ ~Full(head, tail)
    /\ prod' = [pc |-> "page", page |-> p, head |-> head]
    /\ UNCHANGED <<head, tail, seq, slotPage, slotSeq, cons, taken>>

\* Mutant: head is published before the slot is complete.
PushPagePublished ==
    /\ prod.pc = "page"
    /\ slotPage' = [slotPage EXCEPT ![Slot(prod.head)] = prod.page]
    /\ head' = Succ(prod.head)
    /\ prod' = [prod EXCEPT !.pc = "seq"]
    /\ UNCHANGED <<tail, seq, slotSeq, cons, taken>>

PushPage ==
    /\ prod.pc = "page"
    /\ slotPage' = [slotPage EXCEPT ![Slot(prod.head)] = prod.page]
    /\ prod' = [prod EXCEPT !.pc = "seq"]
    /\ UNCHANGED <<head, tail, seq, slotSeq, cons, taken>>

\* slots[slot].seq = ring->seq++
PushSeq ==
    /\ prod.pc = "seq"
    /\ slotSeq' = [slotSeq EXCEPT ![Slot(prod.head)] = seq]
    /\ seq' = Succ(seq)
    /\ prod' = [prod EXCEPT !.pc = "publish"]
    /\ UNCHANGED <<head, tail, slotPage, cons, taken>>

\* After the barrier: head = head + 1, from the value read at the start.
PushPublish ==
    /\ prod.pc = "publish"
    /\ head' = Succ(prod.head)
    /\ prod' = [prod EXCEPT !.pc = "idle"]
    /\ UNCHANGED <<tail, seq, slotPage, slotSeq, cons, taken>>

-----------------------------------------------------------------------------
(* ufta_ring_pop *)

\* Read tail, then head; an empty ring returns -1 and changes nothing.
PopCheck ==
    /\ cons.pc = "idle"
    /\ ~Empty(head, tail)
    /\ cons' = [cons EXCEPT !.pc = "page", !.tail = tail]
    /\ UNCHANGED <<head, tail, seq, slotPage, slotSeq, prod, taken>>

\* Mutant: tail is advanced before the slot is copied out.
PopPageAfterAdvance ==
    /\ cons.pc = "page"
    /\ cons' = [cons EXCEPT !.pc = "seq", !.page = slotPage[Slot(cons.tail)]]
    /\ tail' = Succ(cons.tail)
    /\ UNCHANGED <<head, seq, slotPage, slotSeq, prod, taken>>

\* *out = slots[slot], a copy of two words.
PopPage ==
    /\ cons.pc = "page"
    /\ cons' = [cons EXCEPT !.pc = "seq", !.page = slotPage[Slot(cons.tail)]]
    /\ UNCHANGED <<head, tail, seq, slotPage, slotSeq, prod, taken>>

PopSeq ==
    /\ cons.pc = "seq"
    /\ cons' = [cons EXCEPT !.pc = "advance", !.seq = slotSeq[Slot(cons.tail)]]
    /\ UNCHANGED <<head, tail, seq, slotPage, slotSeq, prod, taken>>

\* After the barrier: tail = tail + 1, and the request is returned.
PopAdvance ==
    /\ cons.pc = "advance"
    /\ tail' = Succ(cons.tail)
    /\ taken' = <<[page |-> cons.page, seq |-> cons.seq]>>
    /\ cons' = [cons EXCEPT !.pc = "idle"]
    /\ UNCHANGED <<head, seq, slotPage, slotSeq, prod>>

Push == PushPage \/ PushSeq \/ PushPublish \/ \E p \in Pages : PushCheck(p)
Pop  == PopCheck \/ PopPage \/ PopSeq \/ PopAdvance

Next == Push \/ Pop

Spec == Init /\ [][Next]_vars

-----------------------------------------------------------------------------
(* Properties *)

TypeOK ==
    /\ head \in Counter /\ tail \in Counter /\ seq \in Counter
    /\ slotPage \in [Slots -> Word]
    /\ slotSeq \in [Slots -> Counter]
    /\ prod \in [pc : {"idle", "page", "seq", "publish"}, page : Word, head : Counter]
    /\ cons \in [pc : {"idle", "page", "seq", "advance"}, tail : Counter,
                 page : Word, seq : Counter]
    /\ taken \in {<< >>} \cup {<<r>> : r \in Request}

Unread == Dist(head, tail)

Writing == prod.pc # "idle"
Reading == cons.pc # "idle"

(* Never more unread requests than slots, also when head has wrapped past  *)
(* 2^32 and tail has not; and a push that passed the full test still has   *)
(* its room when it publishes, however far the consumer ran meanwhile.     *)
NoOverrun ==
    /\ Unread <= RingSize
    /\ Writing => prod.head = head /\ Unread < RingSize
    /\ Reading => cons.tail = tail /\ Unread > 0

(* The producer never writes the slot the consumer is copying.  No lock    *)
(* protects a slot: only the two counters keep the two threads apart.      *)
NoSlotRace == Writing /\ Reading => Slot(prod.head) # Slot(cons.tail)

(* seq numbers the requests without gap or repetition in ring order: the   *)
(* "monotonically increasing seq" of ufta_fault_req_t, modulo its width.   *)
Unnumbered == IF prod.pc = "publish" THEN 1 ELSE 0

SeqInOrder ==
    \A i \in 0 .. (Unread - 1) :
        slotSeq[Slot(tail + i)] = (seq - Unnumbered - Unread + i) % CounterMod

(* What the consumer has copied so far is the request it will retire: no   *)
(* push that runs during the copy tears it.                                *)
CopyIntact ==
    /\ cons.pc \in {"seq", "advance"} => cons.page = slotPage[Slot(tail)]
    /\ cons.pc = "advance" => cons.seq = slotSeq[Slot(tail)]

\* The inductive invariant: the parts above, and that every unread slot, and
\* the one about to be published, has been filled in.
Filled ==
    /\ Writing => prod.page \in Pages
    /\ prod.pc \in {"seq", "publish"} => slotPage[Slot(head)] = prod.page
    /\ prod.pc = "publish" => slotSeq[Slot(head)] = (seq - 1) % CounterMod
    /\ \A i \in 0 .. (Unread - 1) : slotPage[Slot(tail + i)] \in Pages

RingInv == TypeOK /\ NoOverrun /\ Filled /\ SeqInOrder /\ CopyIntact

(* The ring is a bounded FIFO: a push takes effect when it publishes head, *)
(* a pop when it advances tail.                                            *)
InFlight == [i \in 1 .. Unread |->
                [page |-> slotPage[Slot(tail + i - 1)],
                 seq  |-> slotSeq[Slot(tail + i - 1)]]]

Fifo == INSTANCE BoundedFifo WITH Element <- Request, Capacity <- RingSize,
                                  queue <- InFlight

(* ufta_ring_push and ufta_ring_pop implement the bounded FIFO: what is    *)
(* pushed is popped once, in order, for any interleaving of the two.       *)
ImplementsFifo == Fifo!FifoSpec
=============================================================================
