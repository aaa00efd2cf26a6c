---------------------------- MODULE BoundedFifo ----------------------------
(***************************************************************************)
(* What a bounded FIFO channel between one producer and one consumer       *)
(* promises: accepted elements come out once each, in order, and at most   *)
(* Capacity of them are held.  FaultRing is shown to implement it, and     *)
(* PageFault uses it in place of the ring.                                 *)
(***************************************************************************)
EXTENDS Naturals, Sequences

CONSTANTS Element, Capacity

VARIABLES queue,   \* the elements accepted and not yet taken, oldest first
          taken    \* the last element handed out; << >> before the first one

fifoVars == <<queue, taken>>

FifoInit ==
    /\ queue = << >>
    /\ taken = << >>

IsFull == Len(queue) >= Capacity

Put(e) ==
    /\ ~IsFull
    /\ queue' = Append(queue, e)
    /\ UNCHANGED taken

Take ==
    /\ queue # << >>
    /\ taken' = <<Head(queue)>>
    /\ queue' = Tail(queue)

FifoNext == Take \/ \E e \in Element : Put(e)

FifoSpec == FifoInit /\ [][FifoNext]_fifoVars
=============================================================================
