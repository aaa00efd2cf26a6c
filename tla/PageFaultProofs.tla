-------------------------- MODULE PageFaultProofs --------------------------
(***************************************************************************)
(* Theorems about transparent paging for every set of pages and values,    *)
(* every ring and waiter table size and every set of failing calls: types, *)
(* the life of the worker and of the waiter slots for any number of        *)
(* threads, and, for one application thread, that no request is in flight  *)
(* while it runs and that a page holds what it last wrote.                 *)
(***************************************************************************)
EXTENDS PageFault, FiniteSetTheorems, SequenceTheorems, WellFoundedInduction, TLAPS

Words == {0} \cup {p + 1 : p \in Pages}
Calls == [page : Pages, val : Data \cup {Read} \cup Tiers, slot : Slots, word : Words]

MemoryTypes ==
    /\ active \in BOOLEAN /\ guard \in BOOLEAN /\ crashed \in BOOLEAN
    /\ handler \in {"old", "pf", "dfl"}
    /\ valid \in [Pages -> BOOLEAN] /\ loc \in [Pages -> Locations]
    /\ fd \in [Pages -> Tiers \cup {"none"}] /\ prot \in [Pages -> {"none", "rw"}]
    /\ mem \in [Pages -> Data] /\ content \in [Pages -> Data]
    /\ store \in [Tiers -> [Pages -> Data]]

\* A page is in hand while the worker resolves it, a slot while it wakes it.
WorkerTypes ==
    /\ running \in BOOLEAN /\ started \in BOOLEAN /\ wpc \in WorkerPcs
    /\ queue \in Seq(Pages) /\ Len(queue) <= RingSize
    /\ batch \in Seq(Pages) /\ Len(batch) <= RingSize
    /\ wslot \in 1 .. MaxWaiters + 1 /\ waiters \in [Slots -> Words]
    /\ wpc \in {"read", "mark"} => batch # << >>
    /\ wpc = "futex" => wslot \in Slots

\* call[t].val is a tier during an eviction, a value during an access.
TypedAt(l, r) ==
    /\ l \in ThreadPcs /\ r \in Calls
    /\ l \in {"e_mark", "e_protect"} => r.val \in Tiers
    /\ l \in InHandler \cup {"access"} => r.val \in Values \cup {Read}

ThreadTypes ==
    /\ pc \in [Threads -> ThreadPcs] /\ call \in [Threads -> Calls]
    /\ \A t \in Threads: TypedAt(pc[t], call[t])

TypeInv == MemoryTypes /\ WorkerTypes /\ ThreadTypes

\* TypeInv is TypeOK with what the worker and the threads have in hand.
LEMMA TypeInvTypes == TypeInv => TypeOK
BY DEF TypeInv, MemoryTypes, WorkerTypes, ThreadTypes, TypeOK, Calls, Words

-----------------------------------------------------------------------------
(* Data                                                                    *)

\* A set of naturals has a least element: what Min of FiniteSetsExt returns.
LEMMA LeastElement ==
    ASSUME NEW S \in SUBSET Nat, S # {}
    PROVE  \E n \in S : \A m \in S : n <= m
<1> DEFINE R == OpToRel(<, Nat)
<1>1. IsWellFoundedOn(R, Nat)
  BY NatLessThanWellFounded
<1>2. \A x, y \in Nat : x < y => <<x, y>> \in R
  BY DEF OpToRel
<1> HIDE DEF R
<1>3. \E n \in S : \A m \in S : ~ (<<m, n>> \in R)
  BY <1>1, WFMin
<1>4. PICK n \in S : \A m \in S : ~ (<<m, n>> \in R)
  BY <1>3
<1>5. ASSUME NEW m \in S PROVE n <= m
  <2>1. ~ (m < n)
    BY <1>2, <1>4, Zenon
  <2> QED
    BY <2>1
<1> QED
  BY <1>5

\* The insertion sort of worker_main adds the page, and no other.
LEMMA InsertSortedType ==
    ASSUME NEW s \in Seq(Pages), NEW p \in Pages
    PROVE  /\ InsertSorted(s, p) \in Seq(Pages)
           /\ Len(InsertSorted(s, p)) = Len(s) + 1
<1> DEFINE Below == {i \in DOMAIN s : s[i] <= p}
           k == Cardinality(Below)
<1>1. Len(s) \in Nat /\ DOMAIN s = 1 .. Len(s) /\ \A i \in 1 .. Len(s) : s[i] \in Pages
  BY LenProperties, ElementOfSeq
<1>2. k \in Nat /\ k <= Len(s)
  <2>1. IsFiniteSet(1 .. Len(s)) /\ Cardinality(1 .. Len(s)) = Len(s)
    <3>1. 1 \in Int /\ Len(s) \in Int
      BY <1>1
    <3>2. /\ IsFiniteSet(1 .. Len(s))
          /\ Cardinality(1 .. Len(s)) = IF 1 > Len(s) THEN 0 ELSE Len(s) - 1 + 1
      BY <3>1, FS_Interval
    <3> QED
      BY <1>1, <3>2
  <2>2. Below \subseteq 1 .. Len(s)
    BY <1>1
  <2> HIDE DEF Below
  <2>3. IsFiniteSet(Below) /\ Cardinality(Below) <= Cardinality(1 .. Len(s))
    BY <2>1, <2>2, FS_Subset
  <2> QED
    BY <2>1, <2>3, FS_CardinalityType
<1>3. InsertSorted(s, p) = [i \in 1 .. Len(s) + 1 |->
          IF i <= k THEN s[i] ELSE IF i = k + 1 THEN p ELSE s[i - 1]]
  BY DEF InsertSorted
<1> HIDE DEF k
<1>4. \A i \in 1 .. Len(s) + 1 :
         (IF i <= k THEN s[i] ELSE IF i = k + 1 THEN p ELSE s[i - 1]) \in Pages
  BY <1>1, <1>2
<1>5. InsertSorted(s, p) \in [1 .. Len(s) + 1 -> Pages]
  BY <1>3, <1>4
<1> QED
  BY <1>1, <1>5, IsASeq, LenProperties

\* The locals of a thread outside a call.
LEMMA NoCallType == NoCall \in Calls /\ NoCall.val = Read /\ NoCall.slot = 1 /\ NoCall.word = 0
<1>1. (CHOOSE p \in Pages : TRUE) \in Pages
  BY PageFaultAssumption
<1> QED
  BY <1>1, PageFaultAssumption DEF NoCall, Slots, Calls, Words

-----------------------------------------------------------------------------
(* Types                                                                   *)

\* What pf_init starts the worker with.
LEMMA StartTypes ==
    /\ << >> \in Seq(Pages) /\ Len(<< >>) <= RingSize
    /\ 1 \in 1 .. MaxWaiters + 1
    /\ [i \in Slots |-> 0] \in [Slots -> Words]
<1>1. 0 \in Words
  BY DEF Words
<1>2. << >> \in Seq(Pages) /\ Len(<< >>) = 0
  OBVIOUS
<1>3. RingSize \in Nat /\ MaxWaiters \in Nat
  BY PageFaultAssumption
<1> QED
  BY <1>1, <1>2, <1>3

\* A page of the region, or what a short transfer leaves of it.
LEMMA ReadInTyped ==
    ASSUME MemoryTypes, NEW p \in Pages, NEW site, ReadIn(p, site)
    PROVE  mem' \in [Pages -> Data] /\ fd' \in [Pages -> Tiers \cup {"none"}]
<1>1. fd' \in [Pages -> Tiers \cup {"none"}]
  BY DEF ReadIn, MemoryTypes
<1>2. CASE fd[p] = "none"
  BY <1>1, <1>2 DEF ReadIn, MemoryTypes
<1>3. CASE fd[p] # "none"
  <2>1. store[fd[p]][p] \in Data /\ mem[p] \in Data
    BY <1>3 DEF MemoryTypes
  <2>2. \E d \in Data: mem' = [mem EXCEPT ![p] = d]
    BY <1>3, <2>1 DEF ReadIn, Blend, Data
  <2> QED
    BY <1>1, <2>2 DEF MemoryTypes
<1> QED
  BY <1>2, <1>3

\* The steps of worker_main and of the load it calls.
LEMMA WorkerTyped ==
    ASSUME TypeInv, WorkerStep \/ SpuriousSignal
    PROVE  MemoryTypes' /\ WorkerTypes'
<1> USE PageFaultAssumption DEF TypeInv, MemoryTypes, WorkerTypes, WorkerAt, WorkerGoto,
       procVars, pageVars, workerData, WorkerPcs
<1>1. CASE WorkerTop
  BY <1>1 DEF WorkerTop
<1>2. CASE WorkerDecide
  BY <1>2 DEF WorkerDecide
<1>3. CASE WorkerPark
  BY <1>3 DEF WorkerPark
<1>4. CASE WorkerResume
  BY <1>4 DEF WorkerResume
<1>5. CASE WorkerRecheck
  BY <1>5 DEF WorkerRecheck
<1>6. CASE WorkerDrain
  <2>1. CASE queue # << >> /\ Len(batch) < RingSize
    <3>1. Head(queue) \in Pages /\ Tail(queue) \in Seq(Pages) /\ Len(Tail(queue)) <= RingSize
      BY <2>1, HeadTailProperties
    <3>2. batch' = InsertSorted(batch, Head(queue))
      BY <1>6, <2>1 DEF WorkerDrain
    <3>3. batch \in Seq(Pages) /\ Len(batch) \in Nat /\ Len(batch) < RingSize
      BY <2>1, LenProperties
    <3>4. /\ InsertSorted(batch, Head(queue)) \in Seq(Pages)
          /\ Len(InsertSorted(batch, Head(queue))) = Len(batch) + 1
      BY <3>1, <3>3, InsertSortedType
    <3>5. batch' \in Seq(Pages) /\ Len(batch') <= RingSize
      BY <3>2, <3>3, <3>4
    <3> QED
      BY <1>6, <2>1, <3>1, <3>5 DEF WorkerDrain
  <2>2. CASE ~(queue # << >> /\ Len(batch) < RingSize)
    BY <1>6, <2>2 DEF WorkerDrain
  <2> QED
    BY <2>1, <2>2
<1>7. CASE WorkerSkip
  <2>1. Tail(batch) \in Seq(Pages) /\ Len(Tail(batch)) <= RingSize
    BY <1>7, HeadTailProperties, LenProperties DEF WorkerSkip
  <2> QED
    BY <1>7, <2>1 DEF WorkerSkip
<1>8. CASE WorkerOpen
  BY <1>8, HeadTailProperties DEF WorkerOpen
<1>9. CASE WorkerRead
  <2>1. Head(batch) \in Pages
    BY <1>9, HeadTailProperties DEF WorkerRead
  <2> QED
    BY <1>9, <2>1, ReadInTyped DEF WorkerRead
<1>10. CASE WorkerMark
  <2>1. /\ Head(batch) \in Pages /\ Tail(batch) \in Seq(Pages)
        /\ Len(Tail(batch)) <= RingSize
    BY <1>10, HeadTailProperties, LenProperties DEF WorkerMark
  <2> QED
    BY <1>10, <2>1 DEF WorkerMark, Locations
<1>11. CASE WorkerLoaded
  BY <1>11 DEF WorkerLoaded
<1>12. CASE WakeClear
  <2>1. CASE waiters[wslot] # 0
    <3>1. 0 \in Words /\ wslot \in Slots
      BY <1>12 DEF WakeClear, Words
    <3> QED
      BY <1>12, <2>1, <3>1 DEF WakeClear
  <2>2. CASE waiters[wslot] = 0
    BY <1>12, <2>2 DEF WakeClear, Slots
  <2> QED
    BY <2>1, <2>2
<1>13. CASE WakeFutex
  <2>1. wslot' \in 1 .. MaxWaiters + 1
    BY <1>13 DEF WakeFutex, Slots
  <2> QED
    BY <1>13, <2>1 DEF WakeFutex
<1>14. CASE WakeDone
  BY <1>14 DEF WakeDone
<1>15. CASE SpuriousSignal
  BY <1>15 DEF SpuriousSignal
<1> QED
  BY <1>1, <1>2, <1>3, <1>4, <1>5, <1>6, <1>7, <1>8, <1>9, <1>10, <1>11, <1>12, <1>13,
     <1>14, <1>15 DEF WorkerStep

\* A thread that moves from one step of its call to the next.
LEMMA MoveThread ==
    ASSUME ThreadTypes, NEW t \in Threads, NEW l, NEW r, TypedAt(l, r),
           pc' = [pc EXCEPT ![t] = l], call' = [call EXCEPT ![t] = r]
    PROVE  ThreadTypes'
<1> HIDE DEF InHandler, ThreadPcs
<1> QED
  BY DEF ThreadTypes, TypedAt

\* Each step of the handler moves its own thread only, to a step it can be at.
LEMMA MoveInHandler ==
    ASSUME TypeInv, NEW t \in Threads, HandlerStep(t)
    PROVE  ThreadTypes'
<1>1. /\ call[t] \in Calls /\ waiters \in [Slots -> Words]
      /\ pc[t] \in InHandler => call[t].val \in Values \cup {Read}
  BY DEF TypeInv, WorkerTypes, ThreadTypes, TypedAt
<1>2. /\ pc[t] \in InHandler
      /\ \E l \in InHandler \cup {"access"}: pc' = [pc EXCEPT ![t] = l]
  BY DEF HandlerStep, At, Goto, GuardTest, Enter, Look, ReCrash, PushFault, NotifyWorker,
         FindSlot, ClaimSlot, WaitTest, WaitWord, FutexWait, Leave, SyncMark, SyncOpen,
         SyncRead, Uninstall, InHandler, ThreadPcs
<1>3. \E r \in Calls: r.val = call[t].val /\ call' = [call EXCEPT ![t] = r]
  <2>1. CASE FindSlot(t)
    <3> DEFINE free == {i \in Slots : waiters[i] = 0}
    <3>1. CASE free = {}
      <4>1. 1 \in Slots
        BY PageFaultAssumption DEF Slots
      <4>2. call' = [call EXCEPT ![t] = [call[t] EXCEPT !.slot = 1]]
        BY <2>1, <3>1 DEF FindSlot
      <4> QED
        BY <1>1, <4>1, <4>2 DEF Calls
    <3>2. CASE free # {}
      <4> DEFINE i == CHOOSE i \in free : \A j \in free : i <= j
      <4>1. free \in SUBSET Nat /\ free \subseteq Slots
        BY DEF Slots
      <4>2. call' = [call EXCEPT ![t] = [call[t] EXCEPT !.slot = i]]
        BY <2>1, <3>2 DEF FindSlot
      <4> HIDE DEF free
      <4>3. \E m \in free : \A n \in free : m <= n
        BY <3>2, <4>1, LeastElement
      <4>4. i \in Slots
        BY <4>1, <4>3
      <4> HIDE DEF i
      <4> QED
        BY <1>1, <4>2, <4>4 DEF Calls
    <3> QED
      BY <3>1, <3>2
  <2>2. CASE WaitWord(t)
    BY <1>1, <2>2 DEF WaitWord, Calls
  <2>3. CASE Leave(t)
    <3>1. 1 \in Slots
      BY PageFaultAssumption DEF Slots
    <3> QED
      BY <1>1, <2>3, <3>1 DEF Leave, Calls, Words
  <2>4. CASE call' = call
    <3>1. call' = [call EXCEPT ![t] = call[t]]
      BY <2>4 DEF TypeInv, ThreadTypes
    <3> QED
      BY <1>1, <3>1
  <2> QED
    BY <2>1, <2>2, <2>3, <2>4 DEF HandlerStep, GuardTest, Enter, Look, ReCrash, PushFault,
         NotifyWorker, ClaimSlot, WaitTest, FutexWait, SyncMark, SyncOpen, SyncRead
<1>4. PICK l \in InHandler \cup {"access"}, r \in Calls:
         /\ pc' = [pc EXCEPT ![t] = l] /\ call' = [call EXCEPT ![t] = r]
         /\ r.val = call[t].val
  BY <1>2, <1>3
<1>5. TypedAt(l, r)
  BY <1>1, <1>2, <1>4 DEF TypedAt, InHandler, ThreadPcs
<1> QED
  BY <1>4, <1>5, MoveThread DEF TypeInv

\* The steps of pf_handle_fault and ufta_worker_wait.
LEMMA HandlerTyped ==
    ASSUME TypeInv, NEW t \in Threads, HandlerStep(t)
    PROVE  MemoryTypes' /\ WorkerTypes'
<1>1. call[t].page \in Pages /\ call[t].slot \in Slots
  BY DEF TypeInv, ThreadTypes, Calls
<1> USE PageFaultAssumption DEF TypeInv, MemoryTypes, WorkerTypes, procVars, pageVars,
       workerData, workerVars
<1>2. CASE PushFault(t)
  <2>1. CASE Len(queue) < RingSize
    <3>1. /\ Append(queue, call[t].page) \in Seq(Pages)
          /\ Len(Append(queue, call[t].page)) = Len(queue) + 1 /\ Len(queue) \in Nat
      BY <1>1, AppendProperties, LenProperties
    <3>2. queue' = Append(queue, call[t].page)
      BY <1>2, <2>1 DEF PushFault
    <3>3. queue' \in Seq(Pages) /\ Len(queue') <= RingSize
      BY <2>1, <3>1, <3>2
    <3> QED
      BY <1>2, <3>3 DEF PushFault
  <2>2. CASE ~(Len(queue) < RingSize)
    BY <1>2, <2>2 DEF PushFault
  <2> QED
    BY <2>1, <2>2
<1>3. CASE NotifyWorker(t)
  BY <1>3 DEF NotifyWorker, Signal, WorkerPcs
<1>4. CASE ClaimSlot(t)
  BY <1>1, <1>4 DEF ClaimSlot, Words
<1>5. CASE SyncMark(t) \/ SyncOpen(t)
  BY <1>1, <1>5 DEF SyncMark, SyncOpen, Uninstall, Locations
<1>6. CASE SyncRead(t)
  BY <1>1, <1>6, ReadInTyped DEF SyncRead
<1>7. CASE GuardTest(t) \/ Enter(t) \/ ReCrash(t)
  <2>1. UNCHANGED <<active, crashed, pageVars, queue, workerVars>>
    BY <1>7 DEF GuardTest, Enter, ReCrash
  <2>2. guard' \in BOOLEAN /\ handler' \in {"old", "pf", "dfl"}
    BY <1>7 DEF GuardTest, Enter, ReCrash, Uninstall
  <2> QED
    BY <2>1, <2>2
<1>8. CASE Look(t) \/ FindSlot(t) \/ WaitTest(t) \/ WaitWord(t) \/ FutexWait(t) \/ Leave(t)
  <2>1. UNCHANGED <<active, handler, crashed, pageVars, queue, workerVars>>
    BY <1>8 DEF Look, FindSlot, WaitTest, WaitWord, FutexWait, Leave
  <2>2. guard' \in BOOLEAN
    BY <1>8 DEF Look, FindSlot, WaitTest, WaitWord, FutexWait, Leave
  <2> QED
    BY <2>1, <2>2
<1> QED
  BY <1>2, <1>3, <1>4, <1>5, <1>6, <1>7, <1>8 DEF HandlerStep

\* The steps of pf_destroy, pf_page_alloc, pf_page_evict and pf_page_load after
\* the first, and the access itself.
CallStep(t) ==
    \/ StopNotify(t) \/ StopJoin(t) \/ Unmap(t)
    \/ AllocInit(t) \/ EvictMark(t) \/ EvictProtect(t) \/ LoadRead(t) \/ LoadMark(t)
    \/ Access(t) \/ Fault(t)

\* The same for the steps of the API's calls and of an access.
LEMMA MoveInCall ==
    ASSUME TypeInv, NEW t \in Threads, CallStep(t)
    PROVE  ThreadTypes'
<1>1. TypedAt(pc[t], call[t]) /\ call[t] \in Calls
  BY DEF TypeInv, ThreadTypes
<1>2. TypedAt("idle", NoCall)
  BY NoCallType DEF TypedAt, ThreadPcs, InHandler
<1>3. CASE Return(t)
  BY <1>2, <1>3, MoveThread DEF Return, Goto, TypeInv
<1>4. ASSUME NEW l, Goto(t, l), call' = call, TypedAt(l, call[t])
      PROVE  ThreadTypes'
  <2>1. call' = [call EXCEPT ![t] = call[t]]
    BY <1>4 DEF TypeInv, ThreadTypes
  <2> QED
    BY <1>4, <2>1, MoveThread DEF Goto, TypeInv
<1>5. CASE StopNotify(t) \/ StopJoin(t)
  <2>1. TypedAt("d_join", call[t]) /\ TypedAt("d_unmap", call[t])
    BY <1>1 DEF TypedAt, ThreadPcs, InHandler
  <2> QED
    BY <1>4, <1>5, <2>1 DEF StopNotify, StopJoin
<1>6. CASE EvictMark(t)
  <2>1. TypedAt("e_protect", call[t])
    BY <1>1, <1>6 DEF EvictMark, At, TypedAt, ThreadPcs, InHandler
  <2> QED
    BY <1>4, <1>6, <2>1 DEF EvictMark
<1>7. CASE LoadRead(t)
  <2>1. TypedAt("l_mark", call[t])
    BY <1>1 DEF TypedAt, ThreadPcs, InHandler
  <2> QED
    BY <1>4, <1>7, <2>1 DEF LoadRead
<1>8. CASE Fault(t)
  <2>1. TypedAt("guard", call[t])
    BY <1>1, <1>8 DEF Fault, At, TypedAt, ThreadPcs, InHandler
  <2> QED
    BY <1>4, <1>8, <2>1 DEF Fault, TypeInv, ThreadTypes
<1> QED
  BY <1>3, <1>5, <1>6, <1>7, <1>8
     DEF CallStep, Unmap, AllocInit, EvictProtect, LoadMark, Access

\* The steps of the API's calls after their first, and of an access.
LEMMA CallTyped ==
    ASSUME TypeInv, NEW t \in Threads, CallStep(t)
    PROVE  MemoryTypes' /\ WorkerTypes'
<1>1. call[t].page \in Pages /\ TypedAt(pc[t], call[t])
  BY DEF TypeInv, ThreadTypes, Calls
<1> USE PageFaultAssumption DEF TypeInv, MemoryTypes, WorkerTypes, procVars, pageVars,
       workerData, workerVars, At
<1>2. CASE StopNotify(t)
  BY <1>2 DEF StopNotify, Signal, WorkerPcs
<1>3. CASE StopJoin(t)
  BY <1>3 DEF StopJoin, WorkerPcs
<1>4. CASE Unmap(t)
  BY <1>4 DEF Unmap, ResetPages, All, Locations, Data
<1>5. CASE AllocInit(t)
  BY <1>1, <1>5 DEF AllocInit, Locations, Data
<1>6. CASE EvictMark(t)
  <2>1. call[t].val \in Tiers
    BY <1>1, <1>6 DEF EvictMark, TypedAt
  <2> QED
    BY <1>1, <1>6, <2>1 DEF EvictMark, Locations
<1>7. CASE EvictProtect(t)
  BY <1>1, <1>7 DEF EvictProtect
<1>8. CASE LoadRead(t)
  BY <1>1, <1>8, ReadInTyped DEF LoadRead
<1>9. CASE LoadMark(t)
  BY <1>1, <1>9 DEF LoadMark, Locations
<1>10. CASE Access(t)
  <2>1. call[t].val \in Values \cup {Read}
    BY <1>1, <1>10 DEF Access, TypedAt
  <2> QED
    BY <1>1, <1>10, <2>1 DEF Access, Data
<1>11. CASE Fault(t)
  BY <1>11 DEF Fault
<1> QED
  BY <1>2, <1>3, <1>4, <1>5, <1>6, <1>7, <1>8, <1>9, <1>10, <1>11 DEF CallStep

\* The first steps of the API's calls.
LEMMA BeginTyped ==
    ASSUME TypeInv, NEW t \in Threads, Begin(t)
    PROVE  TypeInv'
<1> DEFINE args(p, v) == [NoCall EXCEPT !.page = p, !.val = v]
<1>1. ASSUME NEW p, NEW v, NEW l, TypedAt(l, args(p, v)), Call(t, p, v), Goto(t, l)
      PROVE  ThreadTypes'
  BY <1>1, MoveThread DEF Call, Goto, TypeInv
<1>2. Read \in Data \cup {Read} \cup Tiers /\ Targets \subseteq Tiers
      /\ Values \cup {Read} \subseteq Data \cup {Read} \cup Tiers
  BY PageFaultAssumption DEF Tiers, Data
<1>args. ASSUME NEW p \in Pages, NEW v \in Data \cup {Read} \cup Tiers
      PROVE  /\ TypedAt("a_init", args(p, v)) /\ TypedAt("l_read", args(p, v))
             /\ v \in Tiers => TypedAt("e_mark", args(p, v))
             /\ v \in Values \cup {Read} => TypedAt("access", args(p, v))
  <2>1. args(p, v) \in Calls /\ args(p, v).val = v
    BY NoCallType DEF Calls
  <2> QED
    BY <2>1 DEF TypedAt, ThreadPcs, InHandler
<1> HIDE DEF args
<1> USE DEF TypeInv, procVars, pageVars, workerData, workerVars
<1>3. CASE PfInit(t)
  <2>1. ThreadTypes'
    BY <1>3 DEF PfInit, ThreadTypes
  <2>2. MemoryTypes'
    BY <1>3, PageFaultAssumption DEF PfInit, MemoryTypes, ResetPages, All, Locations, Data
  <2>3. WorkerTypes'
    BY <1>3, StartTypes DEF PfInit, WorkerTypes, WorkerPcs
  <2> QED
    BY <2>1, <2>2, <2>3
<1>4. CASE StopWorker(t)
  <2>1. TypedAt("d_notify", call[t]) /\ TypedAt("d_unmap", call[t])
    BY DEF ThreadTypes, TypedAt, ThreadPcs, InHandler
  <2>2. call' = [call EXCEPT ![t] = call[t]]
    BY <1>4 DEF StopWorker, ThreadTypes
  <2>3. ThreadTypes'
    BY <1>4, <2>1, <2>2, MoveThread DEF StopWorker, Goto
  <2> QED
    BY <1>4, <2>3 DEF StopWorker, MemoryTypes, WorkerTypes
<1>5. ASSUME NEW p \in Pages, Alloc(t, p) \/ Load(t, p) PROVE TypeInv'
  <2>1. ThreadTypes'
    <3>1. Call(t, p, Read) /\ (Goto(t, "a_init") \/ Goto(t, "l_read"))
      BY <1>5 DEF Alloc, Load
    <3>2. TypedAt("a_init", args(p, Read)) /\ TypedAt("l_read", args(p, Read))
      BY <1>2, <1>args
    <3> QED
      BY <1>1, <3>1, <3>2
  <2> QED
    BY <1>5, <2>1 DEF Alloc, Load, MemoryTypes, WorkerTypes
<1>6. ASSUME NEW p \in Pages, NEW f \in Targets, Evict(t, p, f) PROVE TypeInv'
  <2>1. ThreadTypes'
    <3>1. CASE Call(t, p, f) /\ Goto(t, "e_mark")
      <4>1. TypedAt("e_mark", args(p, f))
        BY <1>2, <1>args
      <4> QED
        BY <1>1, <3>1, <4>1
    <3>2. CASE UNCHANGED <<pc, call>>
      BY <3>2 DEF ThreadTypes
    <3> QED
      BY <1>6, <3>1, <3>2 DEF Evict
  <2>2. store' \in [Tiers -> [Pages -> Data]]
    BY <1>2, <1>6 DEF Evict, MemoryTypes, Blend, Data
  <2> QED
    BY <1>6, <2>1, <2>2 DEF Evict, MemoryTypes, WorkerTypes
<1>7. ASSUME NEW p \in Pages, NEW v \in Values \cup {Read}, StartAccess(t, p, v)
      PROVE  TypeInv'
  <2>1. ThreadTypes'
    <3>1. TypedAt("access", args(p, v))
      BY <1>2, <1>args
    <3> QED
      BY <1>1, <1>7, <3>1 DEF StartAccess
  <2> QED
    BY <1>7, <2>1 DEF StartAccess, MemoryTypes, WorkerTypes
<1> QED
  BY <1>3, <1>4, <1>5, <1>6, <1>7 DEF Begin

\* The steps that move only a thread that sleeps, or none.
LEMMA SleepersTyped ==
    ASSUME TypeInv, \/ WorkerStep \/ SpuriousSignal
                    \/ \E t \in Threads: SpuriousFutex(t)
    PROVE  ThreadTypes'
<1>1. call' = call
  BY DEF WorkerStep, SpuriousSignal, SpuriousFutex, WorkerTop, WorkerDecide, WorkerPark,
         WorkerResume, WorkerRecheck, WorkerDrain, WorkerSkip, WorkerOpen, WorkerRead,
         WorkerMark, WorkerLoaded, WakeClear, WakeFutex, WakeDone
<1>2. \/ pc' = pc
      \/ \E t \in Threads: pc[t] = "asleep" /\ pc' = [pc EXCEPT ![t] = "test"]
  BY DEF WorkerStep, SpuriousSignal, SpuriousFutex, WorkerTop, WorkerDecide, WorkerPark,
         WorkerResume, WorkerRecheck, WorkerDrain, WorkerSkip, WorkerOpen, WorkerRead,
         WorkerMark, WorkerLoaded, WakeClear, WakeFutex, WakeDone, Goto, At
<1>3. ASSUME NEW t \in Threads, pc[t] = "asleep", pc' = [pc EXCEPT ![t] = "test"]
      PROVE  ThreadTypes'
  <2>1. call' = [call EXCEPT ![t] = call[t]]
    BY <1>1 DEF TypeInv, ThreadTypes
  <2>2. TypedAt("test", call[t])
    BY <1>3 DEF TypeInv, ThreadTypes, TypedAt, ThreadPcs, InHandler
  <2> QED
    BY <1>3, <2>1, <2>2, MoveThread DEF TypeInv
<1> QED
  BY <1>1, <1>2, <1>3 DEF TypeInv, ThreadTypes

\* Every step, of whatever actor, keeps the types.
LEMMA TypeStep == TypeInv /\ [Next]_vars => TypeInv'
<1> SUFFICES ASSUME TypeInv, [Next]_vars PROVE TypeInv'
  OBVIOUS
<1>1. CASE WorkerStep \/ SpuriousSignal
  BY <1>1, WorkerTyped, SleepersTyped DEF TypeInv
<1>2. ASSUME NEW t \in Threads, SpuriousFutex(t) PROVE TypeInv'
  <2>1. ThreadTypes'
    BY <1>2, SleepersTyped
  <2> QED
    BY <1>2, <2>1 DEF SpuriousFutex, TypeInv, MemoryTypes, WorkerTypes, procVars, pageVars,
                      workerData, workerVars
<1>3. ASSUME NEW t \in Threads, ThreadStep(t) PROVE TypeInv'
  <2>1. HandlerStep(t) \/ CallStep(t)
    BY <1>3 DEF ThreadStep, CallStep
  <2> QED
    BY <2>1, HandlerTyped, MoveInHandler, CallTyped, MoveInCall DEF TypeInv
<1>4. ASSUME NEW t \in Threads, Begin(t) PROVE TypeInv'
  BY <1>4, BeginTyped
<1>5. CASE UNCHANGED vars
  BY <1>5 DEF vars, TypeInv, MemoryTypes, WorkerTypes, ThreadTypes, procVars, pageVars,
              workerData, workerVars
<1> QED
  BY <1>1, <1>2, <1>3, <1>4, <1>5 DEF Next

\* Before pf_init.
LEMMA TypeInit == Init => TypeInv
<1> SUFFICES ASSUME Init PROVE TypeInv
  OBVIOUS
<1>1. MemoryTypes
  BY PageFaultAssumption DEF Init, NoPages, All, MemoryTypes, Locations, Data
<1>2. WorkerTypes
  BY StartTypes DEF Init, WorkerTypes, WorkerPcs
<1>3. ThreadTypes
  BY NoCallType DEF Init, ThreadTypes, TypedAt, ThreadPcs, InHandler
<1> QED
  BY <1>1, <1>2, <1>3 DEF TypeInv

\* The inductive form of TypeOK.
LEMMA PagingTypeInvariant == Spec => []TypeInv
BY TypeInit, TypeStep, PTL DEF Spec

(* Types of the pages, the worker, the waiter table and the threads' locals, *)
(* for any number of threads, pages and slots, and any failures: the ring   *)
(* (worker.c:104-118) and the batch it is drained into never hold more than *)
(* RingSize requests, and a slot in use is one of the table.                *)
THEOREM PagingTypeCorrect == Spec => []TypeOK
BY PagingTypeInvariant, TypeInvTypes, PTL

-----------------------------------------------------------------------------
(* The life of the worker                                                  *)

\* The worker exists from pf_init until it is joined; whoever stops it is alone.
LifeInv ==
    /\ started <=> wpc # "none"
    /\ ~active => ~started
    /\ \A t \in Threads:
          /\ pc[t] \in {"d_notify", "d_join"} => started /\ active
          /\ pc[t] = "d_unmap" => ~started
          /\ pc[t] \in {"d_notify", "d_join", "d_unmap"} => OthersIdle(t)

\* What no step of the worker or of the handler changes.
LEMMA WorkerEffect ==
    ASSUME WorkerStep \/ SpuriousSignal
    PROVE  /\ UNCHANGED <<procVars, valid, store, content, running, started, call>>
           /\ wpc # "none" /\ wpc' # "none"
           /\ \/ pc' = pc
              \/ \E t \in Threads: pc[t] = "asleep" /\ pc' = [pc EXCEPT ![t] = "test"]
BY DEF WorkerStep, SpuriousSignal, WorkerTop, WorkerDecide, WorkerPark, WorkerResume,
       WorkerRecheck, WorkerDrain, WorkerSkip, WorkerOpen, WorkerRead, WorkerMark,
       WorkerLoaded, WakeClear, WakeFutex, WakeDone, WorkerAt, WorkerGoto, Goto, procVars,
       pageVars, workerData

\* The handler neither starts nor stops the worker.
LEMMA HandlerEffect ==
    ASSUME NEW t \in Threads, HandlerStep(t)
    PROVE  /\ UNCHANGED <<active, crashed, valid, store, content, running, started, batch, wslot>>
           /\ wpc' = wpc \/ (wpc = "parked" /\ wpc' = "woken")
           /\ pc[t] \in InHandler
           /\ \E l \in InHandler \cup {"access"}: pc' = [pc EXCEPT ![t] = l]
<1>1. /\ UNCHANGED <<active, crashed, valid, store, content, running, started, batch, wslot>>
      /\ wpc' = wpc \/ (wpc = "parked" /\ wpc' = "woken")
  BY DEF HandlerStep, GuardTest, Enter, Look, ReCrash, PushFault, NotifyWorker, FindSlot,
         ClaimSlot, WaitTest, WaitWord, FutexWait, Leave, SyncMark, SyncOpen, SyncRead,
         Signal, procVars, pageVars, workerVars, workerData
<1>2. /\ pc[t] \in InHandler
      /\ \E l \in InHandler \cup {"access"}: pc' = [pc EXCEPT ![t] = l]
  BY DEF HandlerStep, At, Goto, GuardTest, Enter, Look, ReCrash, PushFault, NotifyWorker,
         FindSlot, ClaimSlot, WaitTest, WaitWord, FutexWait, Leave, SyncMark, SyncOpen,
         SyncRead, Uninstall, InHandler, ThreadPcs
<1> QED
  BY <1>1, <1>2

\* Only pf_init starts the worker; ufta_worker_stop joins it before the region goes.
LEMMA LifeStep == TypeInv /\ LifeInv /\ [Next]_vars => LifeInv'
<1> SUFFICES ASSUME TypeInv, LifeInv, [Next]_vars PROVE LifeInv'
  OBVIOUS
<1> DEFINE Ending == {"d_notify", "d_join", "d_unmap"}
<1>1. pc \in [Threads -> ThreadPcs]
  BY DEF TypeInv, ThreadTypes
\* A step inside a call, while no thread is in pf_destroy.
<1>2. ASSUME NEW t \in Threads, pc[t] \notin Ending \cup {"idle"}, NEW l, l \notin Ending,
             pc' = [pc EXCEPT ![t] = l], UNCHANGED <<active, started>>,
             wpc' # "none" <=> wpc # "none"
      PROVE  LifeInv'
  BY <1>1, <1>2 DEF LifeInv, OthersIdle
<1>3. CASE WorkerStep \/ SpuriousSignal
  <2>1. UNCHANGED <<active, started>> /\ wpc # "none" /\ wpc' # "none"
    BY <1>3, WorkerEffect DEF procVars
  <2>2. CASE pc' = pc
    BY <2>1, <2>2 DEF LifeInv, OthersIdle
  <2>3. CASE \E t \in Threads: pc[t] = "asleep" /\ pc' = [pc EXCEPT ![t] = "test"]
    BY <1>2, <2>1, <2>3
  <2> QED
    BY <1>3, <2>2, <2>3, WorkerEffect
<1>4. ASSUME NEW t \in Threads, SpuriousFutex(t) PROVE LifeInv'
  BY <1>2, <1>4 DEF SpuriousFutex, At, Goto, procVars, workerVars, workerData
<1>5. ASSUME NEW t \in Threads, HandlerStep(t) PROVE LifeInv'
  <2>1. PICK l \in InHandler \cup {"access"}: pc' = [pc EXCEPT ![t] = l]
    BY <1>5, HandlerEffect
  <2>2. pc[t] \notin Ending \cup {"idle"} /\ l \notin Ending
    BY <1>5, HandlerEffect DEF InHandler, ThreadPcs
  <2> QED
    BY <1>2, <1>5, <2>1, <2>2, HandlerEffect
<1>6. ASSUME NEW t \in Threads, CallStep(t) PROVE LifeInv'
  <2> USE DEF At, Goto, Return, procVars, workerVars, workerData
  <2>1. CASE StopNotify(t)
    BY <1>1, <2>1 DEF StopNotify, Signal, LifeInv, OthersIdle
  <2>2. CASE StopJoin(t)
    BY <1>1, <2>2 DEF StopJoin, LifeInv, OthersIdle
  <2>3. CASE Unmap(t)
    BY <1>1, <2>3 DEF Unmap, LifeInv, OthersIdle
  <2>4. CASE AllocInit(t) \/ EvictMark(t) \/ EvictProtect(t)
    BY <1>2, <2>4 DEF AllocInit, EvictMark, EvictProtect
  <2>5. CASE LoadRead(t) \/ LoadMark(t) \/ Access(t)
    BY <1>2, <2>5 DEF LoadRead, LoadMark, Access
  <2>6. CASE Fault(t) /\ handler = "pf"
    BY <1>2, <2>6 DEF Fault
  <2>7. CASE Fault(t) /\ handler # "pf"
    BY <2>7 DEF Fault, LifeInv, OthersIdle
  <2> QED
    BY <1>6, <2>1, <2>2, <2>3, <2>4, <2>5, <2>6, <2>7 DEF CallStep
<1>7. ASSUME NEW t \in Threads, Begin(t) PROVE LifeInv'
  <2>1. CASE PfInit(t)
    BY <1>1, <2>1 DEF PfInit, Idle, At, LifeInv, OthersIdle
  <2>2. CASE StopWorker(t)
    BY <1>1, <2>2 DEF StopWorker, Idle, At, Goto, LifeInv, OthersIdle, procVars
  <2>3. CASE ~Stopping /\ UNCHANGED <<active, started, wpc>>
             /\ \E l \in ThreadPcs \ Ending: pc' = [pc EXCEPT ![t] = l]
    BY <1>1, <2>3 DEF Stopping, LifeInv
  <2>4. \/ /\ ~Stopping /\ UNCHANGED <<active, started, wpc>>
           /\ \E l \in ThreadPcs \ Ending: pc' = [pc EXCEPT ![t] = l]
        \/ PfInit(t) \/ StopWorker(t)
    <3>1. CASE \E p \in Pages: Alloc(t, p) \/ Load(t, p)
      BY <3>1 DEF Alloc, Load, Call, Goto, ThreadPcs, procVars, workerVars, workerData
    <3>2. CASE \E p \in Pages, f \in Targets: Evict(t, p, f)
      <4>1. \E l \in {"e_mark", "idle"}: pc' = [pc EXCEPT ![t] = l]
        <5>1. CASE Goto(t, "e_mark")
          BY <5>1 DEF Goto
        <5>2. CASE pc' = pc /\ pc[t] = "idle"
          <6>1. pc' = [pc EXCEPT ![t] = "idle"]
            BY <1>1, <5>2
          <6> QED
            BY <6>1
        <5> QED
          BY <3>2, <5>1, <5>2 DEF Evict, Idle, At
      <4> QED
        BY <3>2, <4>1 DEF Evict, Call, ThreadPcs, procVars, workerVars, workerData
    <3>3. CASE \E p \in Pages, v \in Values \cup {Read}: StartAccess(t, p, v)
      BY <3>3 DEF StartAccess, Call, Goto, ThreadPcs, procVars, workerVars, workerData
    <3> QED
      BY <1>7, <3>1, <3>2, <3>3 DEF Begin
  <2> QED
    BY <2>1, <2>2, <2>3, <2>4
<1>8. CASE UNCHANGED vars
  BY <1>8 DEF vars, procVars, workerVars, workerData, LifeInv, OthersIdle
<1> QED
  BY <1>3, <1>4, <1>5, <1>6, <1>7, <1>8 DEF Next, ThreadStep, CallStep

(* The worker touches no page of a region that is unmapped, and pf_destroy *)
(* closes no file under it (pagefault.c, pf_destroy; ufta_worker_stop), for *)
(* any number of threads and any failures.                                 *)
THEOREM WorkerOutlivedByRegion == Spec => []WorkerGoneBeforeUnmap
<1>1. Init => LifeInv
  BY DEF Init, LifeInv
<1>2. LifeInv => WorkerGoneBeforeUnmap
  BY DEF LifeInv, WorkerGoneBeforeUnmap
<1> QED
  BY <1>1, <1>2, LifeStep, PagingTypeInvariant, PTL DEF Spec

-----------------------------------------------------------------------------
(* The waiter slots                                                        *)

\* A slot is claimed by a thread that stays until it is empty.
LEMMA WaiterStep == TypeInv /\ NoLeakedWaiter /\ [Next]_vars => NoLeakedWaiter'
<1> SUFFICES ASSUME TypeInv, NoLeakedWaiter, [Next]_vars PROVE NoLeakedWaiter'
  OBVIOUS
<1>1. /\ pc \in [Threads -> ThreadPcs] /\ call \in [Threads -> Calls]
      /\ waiters \in [Slots -> Words] /\ \A t \in Threads: call[t].slot \in Slots
  BY DEF TypeInv, ThreadTypes, WorkerTypes, Calls
\* A thread that owns no slot, and takes none.
<1>2. ASSUME NEW t \in Threads, pc[t] \notin Waiting, waiters' = waiters,
             \A u \in Threads \ {t}: pc'[u] = pc[u] /\ call'[u] = call[u]
      PROVE  NoLeakedWaiter'
  BY <1>1, <1>2 DEF NoLeakedWaiter
\* A thread that stays in the loop of ufta_worker_wait.
<1>3. ASSUME NEW t \in Threads, pc[t] \in Waiting, waiters' = waiters,
             NEW l \in Waiting, pc' = [pc EXCEPT ![t] = l],
             \A u \in Threads: call'[u].slot = call[u].slot
      PROVE  NoLeakedWaiter'
  BY <1>1, <1>3 DEF NoLeakedWaiter
<1>4. CASE WorkerStep \/ SpuriousSignal
  <2>1. call' = call /\ \A i \in Slots: waiters'[i] # 0 => waiters[i] # 0
    BY <1>1, <1>4 DEF WorkerStep, SpuriousSignal, WorkerTop, WorkerDecide, WorkerPark,
         WorkerResume, WorkerRecheck, WorkerDrain, WorkerSkip, WorkerOpen, WorkerRead,
         WorkerMark, WorkerLoaded, WakeClear, WakeFutex, WakeDone, workerData
  <2>2. \A t \in Threads: pc[t] \in Waiting => pc'[t] \in Waiting
    BY <1>1, <1>4, WorkerEffect DEF Waiting
  <2> QED
    BY <2>1, <2>2 DEF NoLeakedWaiter
<1>5. ASSUME NEW t \in Threads, SpuriousFutex(t) PROVE NoLeakedWaiter'
  BY <1>3, <1>5 DEF SpuriousFutex, At, Goto, Waiting, workerVars, workerData
<1>6. ASSUME NEW t \in Threads, HandlerStep(t) PROVE NoLeakedWaiter'
  <2> USE DEF At, Goto, Waiting, workerVars, workerData
  <2>1. CASE WaitTest(t)
    <3>1. CASE waiters[call[t].slot] = 0
      BY <1>1, <2>1, <3>1 DEF WaitTest, NoLeakedWaiter
    <3>2. CASE waiters[call[t].slot] # 0
      BY <1>3, <2>1, <3>2 DEF WaitTest
    <3> QED
      BY <3>1, <3>2
  <2>2. CASE WaitWord(t)
    BY <1>1, <1>3, <2>2 DEF WaitWord, Calls
  <2>3. CASE FutexWait(t)
    BY <1>3, <2>3 DEF FutexWait
  <2>4. CASE ClaimSlot(t)
    BY <1>1, <2>4 DEF ClaimSlot, NoLeakedWaiter
  <2>5. CASE \/ GuardTest(t) \/ Enter(t) \/ Look(t) \/ ReCrash(t) \/ PushFault(t)
             \/ NotifyWorker(t) \/ FindSlot(t) \/ Leave(t) \/ SyncMark(t) \/ SyncOpen(t)
             \/ SyncRead(t)
    <3>1. pc[t] \notin Waiting /\ waiters' = waiters
      BY <2>5 DEF GuardTest, Enter, Look, ReCrash, PushFault, NotifyWorker, FindSlot, Leave,
                  SyncMark, SyncOpen, SyncRead
    <3>2. \A u \in Threads \ {t}: pc'[u] = pc[u] /\ call'[u] = call[u]
      BY <1>1, <2>5 DEF GuardTest, Enter, Look, ReCrash, PushFault, NotifyWorker, FindSlot,
                  Leave, SyncMark, SyncOpen, SyncRead, Uninstall
    <3> QED
      BY <1>2, <3>1, <3>2
  <2> QED
    BY <1>6, <2>1, <2>2, <2>3, <2>4, <2>5 DEF HandlerStep
<1>7. ASSUME NEW t \in Threads, CallStep(t) PROVE NoLeakedWaiter'
  <2>1. pc[t] \notin Waiting /\ waiters' = waiters
    BY <1>7 DEF CallStep, StopNotify, StopJoin, Unmap, AllocInit, EvictMark, EvictProtect,
                LoadRead, LoadMark, Access, Fault, At, Waiting, workerVars, workerData
  <2>2. \A u \in Threads \ {t}: pc'[u] = pc[u] /\ call'[u] = call[u]
    BY <1>1, <1>7 DEF CallStep, StopNotify, StopJoin, Unmap, AllocInit, EvictMark,
                EvictProtect, LoadRead, LoadMark, Access, Fault, Goto, Return
  <2> QED
    BY <1>2, <2>1, <2>2
<1>8. ASSUME NEW t \in Threads, Begin(t) PROVE NoLeakedWaiter'
  <2>1. CASE PfInit(t)
    BY <2>1 DEF PfInit, NoLeakedWaiter
  <2>2. CASE ~PfInit(t)
    <3>1. pc[t] \notin Waiting /\ waiters' = waiters
      BY <1>8, <2>2 DEF Begin, StopWorker, Alloc, Load, Evict, StartAccess, Call, Idle, At,
                Waiting, workerVars, workerData
    <3>2. \A u \in Threads \ {t}: pc'[u] = pc[u] /\ call'[u] = call[u]
      BY <1>1, <1>8, <2>2 DEF Begin, StopWorker, Alloc, Load, Evict, StartAccess, Call, Goto
    <3> QED
      BY <1>2, <3>1, <3>2
  <2> QED
    BY <2>1, <2>2
<1>9. CASE UNCHANGED vars
  BY <1>9 DEF vars, workerVars, workerData, NoLeakedWaiter
<1> QED
  BY <1>4, <1>5, <1>6, <1>7, <1>8, <1>9 DEF Next, ThreadStep, CallStep

(* A registered slot belongs to a suspended thread (ufta_worker_wait,       *)
(* ufta_worker_wake_all), for any number of threads, also when two of them *)
(* share a slot.                                                           *)
THEOREM WaiterSlotsOwned == Spec => []NoLeakedWaiter
<1>1. Init => NoLeakedWaiter
  BY DEF Init, NoLeakedWaiter
<1> QED
  BY <1>1, WaiterStep, PagingTypeInvariant, PTL DEF Spec

-----------------------------------------------------------------------------
(* One application thread: its request                                     *)

\* The worker loads the batch, or has not yet come to the slot t waits on.
Loading == wpc \in {"open", "read", "mark"} \/ (wpc = "wake" /\ wslot = 1)
Pending == queue # << >> \/ batch # << >> \/ Loading
Queued  == {"notify", "scan", "claim"}

\* t's only request is in the ring or in the batch, or t is about to be woken:
\* until then t cannot leave the handler.  It always takes the first slot.
FlightOf(t) ==
    /\ Pending => pc[t] \in Queued \cup Waiting
    /\ Pending /\ pc[t] \in Waiting => waiters[1] # 0
    /\ pc[t] \notin Waiting => waiters[1] = 0
    /\ \A i \in Slots: i # 1 => waiters[i] = 0
    /\ call[t].slot = 1
    /\ queue # << >> => queue = <<call[t].page>> /\ batch = << >> /\ ~Loading
    /\ batch # << >> => batch = <<call[t].page>> /\ wpc \in {"drain", "open", "read", "mark"}

FlightInv == \A t \in Threads: FlightOf(t)

\* The first request of a batch.
LEMMA InsertSortedEmpty ==
    ASSUME NEW p \in Pages
    PROVE  InsertSorted(<< >>, p) = <<p>>
<1> DEFINE Below == {i \in DOMAIN << >> : << >>[i] <= p}
<1>1. Below = {} /\ Len(<< >>) = 0
  OBVIOUS
<1>2. Cardinality(Below) = 0
  BY <1>1, FS_EmptySet
<1> HIDE DEF Below
<1>3. InsertSorted(<< >>, p) = [i \in 1 .. 0 + 1 |->
          IF i <= 0 THEN << >>[i] ELSE IF i = 0 + 1 THEN p ELSE << >>[i - 1]]
  BY <1>1, <1>2 DEF InsertSorted, Below
<1>4. \A i \in 1 .. 0 + 1 :
         (IF i <= 0 THEN << >>[i] ELSE IF i = 0 + 1 THEN p ELSE << >>[i - 1]) = p
  OBVIOUS
<1>5. 1 .. 0 + 1 = 1 .. 1
  OBVIOUS
<1>6. InsertSorted(<< >>, p) = [i \in 1 .. 1 |-> p]
  BY <1>3, <1>4, <1>5, Zenon
<1> QED
  BY <1>6

\* Everything TypeInv says of the one thread.
LEMMA OneThreadTypes ==
    ASSUME TypeInv, NEW t \in Threads
    PROVE  /\ pc \in [Threads -> ThreadPcs] /\ pc[t] \in ThreadPcs
           /\ call \in [Threads -> Calls] /\ call[t] \in Calls
           /\ call[t].page \in Pages /\ call[t].page \in Nat /\ call[t].slot \in Slots
           /\ waiters \in [Slots -> Words]
           /\ 1 \in Slots /\ Slots \subseteq Nat
<1>1. pc \in [Threads -> ThreadPcs] /\ call \in [Threads -> Calls]
  BY DEF TypeInv, ThreadTypes
<1>2. pc[t] \in ThreadPcs /\ call[t] \in Calls
  BY <1>1
<1>3. call[t].page \in Pages /\ call[t].slot \in Slots
  BY <1>2 DEF Calls
<1>4. 1 \in Slots /\ Slots \subseteq Nat /\ Pages \subseteq Nat
  BY PageFaultAssumption DEF Slots
<1>5. waiters \in [Slots -> Words]
  BY DEF TypeInv, WorkerTypes
<1> QED
  BY <1>1, <1>2, <1>3, <1>4, <1>5

\* The worker empties ring and batch, and wakes the slot last.
LEMMA FlightWorker ==
    ASSUME TypeInv, NEW t \in Threads, FlightOf(t), WorkerStep \/ SpuriousSignal
    PROVE  FlightOf(t)'
<1> USE OneThreadTypes DEF FlightOf, Pending, Loading, Waiting, Queued, WorkerAt, WorkerGoto,
        workerData, procVars
<1>1. CASE WorkerTop \/ WorkerDecide \/ WorkerPark \/ WorkerResume \/ WorkerRecheck
           \/ SpuriousSignal
  BY <1>1 DEF WorkerTop, WorkerDecide, WorkerPark, WorkerResume, WorkerRecheck, SpuriousSignal
<1>2. CASE WorkerDrain
  <2>1. CASE queue # << >>
    <3>1. queue = <<call[t].page>> /\ batch = << >> /\ pc[t] \in Queued \cup Waiting
      BY <2>1
    <3>2. Len(batch) < RingSize /\ Head(queue) = call[t].page /\ Tail(queue) = << >>
      BY <3>1, PageFaultAssumption
    <3>3. batch' = <<call[t].page>> /\ queue' = << >>
      BY <1>2, <2>1, <3>1, <3>2, InsertSortedEmpty DEF WorkerDrain
    <3> QED
      BY <1>2, <2>1, <3>1, <3>2, <3>3 DEF WorkerDrain
  <2>2. CASE queue = << >>
    BY <1>2, <2>2 DEF WorkerDrain
  <2> QED
    BY <2>1, <2>2
<1>3. CASE WorkerSkip \/ WorkerMark
  <2>1. batch # << >>
    BY <1>3 DEF WorkerSkip, WorkerMark, TypeInv, WorkerTypes
  <2>2. batch = <<call[t].page>>
    BY <2>1
  <2>3. Tail(batch) = << >>
    BY <2>2
  <2> QED
    BY <1>3, <2>1, <2>2, <2>3 DEF WorkerSkip, WorkerMark
<1>4. CASE WorkerOpen \/ WorkerRead
  BY <1>4 DEF WorkerOpen, WorkerRead
<1>5. CASE WorkerLoaded
  BY <1>5 DEF WorkerLoaded
<1>6. CASE WakeClear
  <2>1. wpc = "wake" /\ wslot \in Slots /\ batch = << >>
    BY <1>6 DEF WakeClear
  <2>2. CASE waiters[wslot] # 0
    <3>1. wslot = 1 /\ queue = << >> /\ pc[t] \in Waiting
      BY <2>1, <2>2
    <3>2. /\ waiters' = [waiters EXCEPT ![1] = 0] /\ wpc' = "futex"
          /\ UNCHANGED <<queue, batch, wslot, pc, call>>
      BY <1>6, <2>2, <3>1 DEF WakeClear
    <3> QED
      BY <2>1, <3>1, <3>2
  <2>3. CASE waiters[wslot] = 0
    <3>1. wslot' = wslot + 1 /\ UNCHANGED <<queue, batch, waiters, wpc, pc, call>>
      BY <1>6, <2>3 DEF WakeClear
    <3>2. wslot' # 1
      BY <2>1, <3>1 DEF Slots
    <3> QED
      BY <2>1, <3>1, <3>2
  <2> QED
    BY <2>2, <2>3
<1>7. CASE WakeFutex
  <2>1. wslot \in Nat /\ wslot >= 1
    BY DEF TypeInv, WorkerTypes
  <2>2. pc'[t] = pc[t] \/ (pc[t] = "asleep" /\ pc'[t] = "test")
    BY <1>7, WorkerEffect DEF WorkerStep
  <2> QED
    BY <1>7, <2>1, <2>2 DEF WakeFutex
<1>8. CASE WakeDone
  BY <1>8 DEF WakeDone
<1> QED
  BY <1>1, <1>2, <1>3, <1>4, <1>5, <1>6, <1>7, <1>8 DEF WorkerStep

\* A step of a thread that has nothing in flight and puts nothing there.
LEMMA FlightApart ==
    ASSUME TypeInv, NEW t \in Threads, FlightOf(t),
           pc[t] \notin Queued \cup Waiting, pc'[t] \notin Waiting, call'[t].slot = 1,
           UNCHANGED <<queue, batch, wslot, waiters>>,
           wpc' = wpc \/ wpc' \in {"none", "top", "woken"}
    PROVE  FlightOf(t)'
BY DEF FlightOf, Pending, Loading

\* The handler pushes one request and leaves when its slot is empty.
LEMMA FlightHandler ==
    ASSUME TypeInv, NEW t \in Threads, FlightOf(t), HandlerStep(t)
    PROVE  FlightOf(t)'
<1>1. CASE \/ GuardTest(t) \/ Enter(t) \/ Look(t) \/ ReCrash(t)
           \/ SyncMark(t) \/ SyncOpen(t) \/ SyncRead(t)
  <2>1. pc[t] \notin Queued \cup Waiting /\ pc'[t] \notin Waiting
    BY <1>1, OneThreadTypes DEF GuardTest, Enter, Look, ReCrash, SyncMark, SyncOpen, SyncRead,
              Uninstall, At, Goto, Queued, Waiting
  <2>2. UNCHANGED <<queue, batch, wslot, waiters, wpc, call>>
    BY <1>1 DEF GuardTest, Enter, Look, ReCrash, SyncMark, SyncOpen, SyncRead, workerVars,
              workerData
  <2> QED
    BY <2>1, <2>2, FlightApart DEF FlightOf
<1> USE OneThreadTypes DEF FlightOf, Pending, Loading, Waiting, Queued, At, Goto, workerVars,
        workerData, procVars, pageVars
<1>2. CASE PushFault(t)
  <2>1. queue = << >> /\ batch = << >> /\ ~Loading /\ waiters[1] = 0
    BY <1>2 DEF PushFault
  <2>2. Append(queue, call[t].page) = <<call[t].page>> /\ Len(queue) < RingSize
    BY <2>1, PageFaultAssumption
  <2> QED
    BY <1>2, <2>1, <2>2 DEF PushFault
<1>3. CASE NotifyWorker(t)
  BY <1>3 DEF NotifyWorker, Signal
<1>4. CASE FindSlot(t)
  <2> DEFINE free == {i \in Slots : waiters[i] = 0}
             first == CHOOSE i \in free : \A j \in free : i <= j
  <2>1. 1 \in free /\ \A j \in free : 1 <= j /\ j \in Nat
    BY <1>4 DEF FindSlot, Slots
  <2>2. first = 1
    <3>1. first \in free /\ \A j \in free : first <= j
      BY <2>1
    <3> HIDE DEF first, free
    <3> QED
      BY <2>1, <3>1
  <2>3. call'[t] = [call[t] EXCEPT !.slot = 1] /\ pc'[t] = "claim"
    BY <1>4, <2>1, <2>2 DEF FindSlot
  <2>4. call'[t].slot = 1 /\ call'[t].page = call[t].page
    BY <2>3 DEF Calls
  <2> QED
    BY <1>4, <2>3, <2>4 DEF FindSlot
<1>5. CASE ClaimSlot(t)
  BY <1>5 DEF ClaimSlot
<1>6. CASE WaitTest(t) \/ FutexWait(t)
  BY <1>6 DEF WaitTest, FutexWait
<1>7. CASE WaitWord(t)
  <2>1. call'[t].slot = 1 /\ call'[t].page = call[t].page
    BY <1>7 DEF WaitWord, Calls
  <2> QED
    BY <1>7, <2>1 DEF WaitWord
<1>8. CASE Leave(t)
  <2>1. call'[t].slot = 1 /\ call'[t].page = call[t].page
    BY <1>8 DEF Leave, Calls
  <2> QED
    BY <1>8, <2>1 DEF Leave
<1> QED
  BY <1>1, <1>2, <1>3, <1>4, <1>5, <1>6, <1>7, <1>8 DEF HandlerStep

\* The calls of the API and the access itself put nothing into the ring.
LEMMA FlightCall ==
    ASSUME TypeInv, NEW t \in Threads, FlightOf(t), CallStep(t) \/ Begin(t)
    PROVE  FlightOf(t)'
<1> USE DEF At, Goto, Queued, Waiting, workerVars, workerData
<1>1. CASE PfInit(t)
  BY <1>1, OneThreadTypes DEF PfInit, FlightOf, Pending, Loading, Idle
<1>2. CASE CallStep(t)
  <2>1. pc[t] \notin Queued \cup Waiting /\ pc'[t] \notin Waiting /\ call'[t].slot = 1
    BY <1>2, OneThreadTypes, NoCallType DEF CallStep, StopNotify, StopJoin, Unmap, AllocInit,
       EvictMark, EvictProtect, LoadRead, LoadMark, Access, Fault, Return, FlightOf
  <2>2. /\ UNCHANGED <<queue, batch, wslot, waiters>>
        /\ wpc' = wpc \/ wpc' \in {"none", "top", "woken"}
    BY <1>2 DEF CallStep, StopNotify, StopJoin, Unmap, AllocInit, EvictMark, EvictProtect,
       LoadRead, LoadMark, Access, Fault, Signal
  <2> QED
    BY <2>1, <2>2, FlightApart
<1>3. CASE Begin(t) /\ ~PfInit(t)
  <2>1. pc[t] \notin Queued \cup Waiting /\ pc'[t] \notin Waiting
    BY <1>3, OneThreadTypes DEF Begin, StopWorker, Alloc, Load, Evict, StartAccess, Call, Idle
  <2>2. call'[t].slot = 1
    <3>1. \A p, v: [NoCall EXCEPT !.page = p, !.val = v].slot = 1
      BY NoCallType DEF Calls
    <3>2. call'[t] = call[t] \/ \E p, v: Call(t, p, v)
      BY <1>3 DEF Begin, StopWorker, Alloc, Load, Evict, StartAccess
    <3>3. \A p, v: Call(t, p, v) => call'[t].slot = 1
      BY <3>1, OneThreadTypes DEF Call
    <3> QED
      BY <3>2, <3>3 DEF FlightOf
  <2>3. UNCHANGED <<queue, batch, wslot, waiters, wpc>>
    BY <1>3 DEF Begin, StopWorker, Alloc, Load, Evict, StartAccess
  <2> QED
    BY <2>1, <2>2, <2>3, FlightApart
<1> QED
  BY <1>1, <1>2, <1>3

\* Every step keeps the request where FlightOf says it is.
LEMMA FlightStep ==
    ASSUME NEW t \in Threads, Threads = {t}
    PROVE  TypeInv /\ FlightInv /\ [Next]_vars => FlightInv'
<1> SUFFICES ASSUME TypeInv, FlightOf(t), [Next]_vars PROVE FlightOf(t)'
  BY DEF FlightInv
<1>1. CASE SpuriousFutex(t)
  BY <1>1, OneThreadTypes DEF SpuriousFutex, FlightOf, Pending, Loading, Queued, Waiting, At,
     Goto, workerVars, workerData
<1>2. CASE UNCHANGED vars
  BY <1>2 DEF vars, FlightOf, Pending, Loading, workerVars, workerData
<1> QED
  BY <1>1, <1>2, FlightWorker, FlightHandler, FlightCall DEF Next, ThreadStep, CallStep

\* With one thread FlightInv holds, whatever calls fail.
LEMMA FlightInvariant ==
    ASSUME NEW t \in Threads, Threads = {t}
    PROVE  Spec => []FlightInv
<1>1. Init => FlightInv
  <2>1. 1 \in Slots
    BY PageFaultAssumption DEF Slots
  <2> QED
    BY <2>1, NoCallType DEF Init, FlightInv, FlightOf, Pending, Loading, Waiting
<1> QED
  BY <1>1, FlightStep, PagingTypeInvariant, PTL DEF Spec

(* While the only application thread runs, the worker has no page to open: *)
(* the window between its mprotect and its pread is never seen             *)
(* (pf_worker_load_batch, pagefault.c:213-297), whatever calls fail.       *)
THEOREM NoLoadBehindThread ==
    ASSUME NEW t \in Threads, Threads = {t}
    PROVE  Spec => []NoLoadWhileRunning
<1>1. FlightInv => NoLoadWhileRunning
  BY DEF FlightInv, FlightOf, Pending, NoLoadWhileRunning, Queued, Waiting, InHandler, ThreadPcs
<1> QED
  BY <1>1, FlightInvariant, PTL

-----------------------------------------------------------------------------
(* One application thread: the pages                                       *)

\* Between mprotect and pread, or between the new descriptor and mprotect.
Opening(t, p) ==
    /\ p = call[t].page
    /\ pc[t] \in {"l_read", "s_read", "e_protect"} \/ wpc = "read"

PageInv(t, p) ==
    /\ valid[p] => mem[p] = content[p]
    /\ fd[p] # "none" => valid[p] /\ store[fd[p]][p] = content[p]
    /\ prot[p] = "rw" => fd[p] = "none" \/ Opening(t, p)
    /\ loc[p] = "ram" => \/ prot[p] = "rw" \/ (pc[t] = "s_open" /\ call[t].page = p)
                         \/ Fails("sync_protect")
    /\ ~valid[p] => prot[p] = "none" \/ (pc[t] = "a_init" /\ call[t].page = p)

\* What a call has found or done on its page before each of its steps.
CallInv(t) ==
    LET p == call[t].page IN
    /\ pc[t] # "idle" => active
    /\ guard => pc[t] \in InHandler \ {"guard", "enter"}
    /\ handler = "dfl" =>
          pc[t] = "access" /\ prot[p] = "none" /\ (~valid[p] \/ Fails("sync_protect"))
    /\ pc[t] \in {"guard", "enter", "look", "push", "s_mark", "s_open"} => prot[p] = "none"
    /\ pc[t] \in InHandler \ {"guard", "enter", "look"} => valid[p]
    /\ pc[t] \in {"e_mark", "e_protect", "l_read", "l_mark"} => valid[p] /\ prot[p] = "rw"
    /\ pc[t] \in {"a_init", "s_read"} => prot[p] = "rw"
    /\ pc[t] = "e_mark" => store[call[t].val][p] = content[p]
    /\ pc[t] = "e_protect" => loc[p] \in Tiers
    /\ wpc \in {"read", "mark"} => valid[p] /\ prot[p] = "rw"

MemOf(t) == CallInv(t) /\ \A p \in Pages: PageInv(t, p)

MemInv == \A t \in Threads: MemOf(t)

\* pread, whole or short, gives back what the page holds: its copy is current.
LEMMA ReadInKeeps ==
    ASSUME TypeInv, NEW t \in Threads, MemOf(t), NEW p \in Pages, NEW site, ReadIn(p, site),
           valid[p]
    PROVE  mem' = mem /\ fd' = [fd EXCEPT ![p] = "none"]
<1>1. mem \in [Pages -> Data] /\ fd' = [fd EXCEPT ![p] = "none"]
  BY DEF TypeInv, MemoryTypes, ReadIn
<1>2. CASE fd[p] = "none"
  BY <1>1, <1>2 DEF ReadIn
<1>3. CASE fd[p] # "none"
  <2>1. store[fd[p]][p] = mem[p]
    BY <1>3 DEF MemOf, PageInv
  <2>2. mem' = [mem EXCEPT ![p] = mem[p]]
    BY <1>3, <2>1 DEF ReadIn, Blend
  <2> QED
    BY <1>1, <2>2
<1> QED
  BY <1>2, <1>3

\* What the step of a page's call can take for granted.
LEMMA OneThreadMemory ==
    ASSUME TypeInv, NEW t \in Threads
    PROVE  /\ pc \in [Threads -> ThreadPcs] /\ call \in [Threads -> Calls]
           /\ call[t].page \in Pages
           /\ valid \in [Pages -> BOOLEAN] /\ loc \in [Pages -> Locations]
           /\ fd \in [Pages -> Tiers \cup {"none"}] /\ prot \in [Pages -> {"none", "rw"}]
           /\ mem \in [Pages -> Data] /\ content \in [Pages -> Data]
           /\ store \in [Tiers -> [Pages -> Data]]
BY OneThreadTypes DEF TypeInv, MemoryTypes

\* The worker opens, reads and marks the page that the thread waits for.
LEMMA MemWorker ==
    ASSUME TypeInv, NEW t \in Threads, FlightOf(t), MemOf(t), WorkerStep \/ SpuriousSignal
    PROVE  MemOf(t)'
<1>1. UNCHANGED <<procVars, valid, store, content, call>>
  BY WorkerEffect
<1>2. pc'[t] = pc[t] \/ (pc[t] = "asleep" /\ pc'[t] = "test")
  BY WorkerEffect, OneThreadMemory
<1>3. wpc \in {"open", "read", "mark"} /\ batch # << >> =>
         Head(batch) = call[t].page /\ pc[t] \in Queued \cup Waiting
  BY DEF FlightOf, Pending
<1> USE OneThreadMemory DEF MemOf, CallInv, PageInv, Opening, WorkerAt, WorkerGoto, procVars,
        pageVars, InHandler, ThreadPcs
<1>4. CASE WorkerOpen
  BY <1>1, <1>2, <1>3, <1>4 DEF WorkerOpen, Queued, Waiting
<1>5. CASE WorkerRead
  <2>1. batch # << >> /\ wpc = "read"
    BY <1>5 DEF WorkerRead, TypeInv, WorkerTypes
  <2>2. mem' = mem /\ fd' = [fd EXCEPT ![call[t].page] = "none"]
    BY <1>3, <1>5, <2>1, ReadInKeeps DEF WorkerRead
  <2> QED
    BY <1>1, <1>2, <1>3, <1>5, <2>1, <2>2 DEF WorkerRead, Queued, Waiting
<1>6. CASE WorkerMark
  <2>1. batch # << >> /\ wpc = "mark"
    BY <1>6 DEF WorkerMark, TypeInv, WorkerTypes
  <2> QED
    BY <1>1, <1>2, <1>3, <1>6, <2>1 DEF WorkerMark, Queued, Waiting
<1>7. CASE UNCHANGED pageVars /\ wpc \notin {"read", "mark"} /\ wpc' \notin {"read", "mark"}
  BY <1>1, <1>2, <1>7
<1>8. \/ WorkerOpen \/ WorkerRead \/ WorkerMark
      \/ UNCHANGED pageVars /\ wpc \notin {"read", "mark"} /\ wpc' \notin {"read", "mark"}
  BY DEF WorkerStep, SpuriousSignal, WorkerTop, WorkerDecide, WorkerPark, WorkerResume,
         WorkerRecheck, WorkerDrain, WorkerSkip, WorkerLoaded, WakeClear, WakeFutex, WakeDone
<1> QED
  BY <1>4, <1>5, <1>6, <1>7, <1>8

\* While the worker has a page in hand the thread waits for it.
LEMMA WorkerElsewhere ==
    ASSUME TypeInv, NEW t \in Threads, FlightOf(t), pc[t] \notin Queued \cup Waiting
    PROVE  wpc \notin {"read", "mark"}
BY DEF FlightOf, Pending, Loading

\* The handler alone: look-up, request, and the synchronous fallback.
LEMMA MemHandler ==
    ASSUME TypeInv, NEW t \in Threads, FlightOf(t), MemOf(t),
           HandlerStep(t)
    PROVE  MemOf(t)'
<1> USE OneThreadMemory DEF MemOf, CallInv, PageInv, Opening, At, Goto, Queued, Waiting,
        procVars, pageVars, workerVars, workerData, InHandler, ThreadPcs
<1>1. CASE GuardTest(t) \/ Enter(t) \/ Look(t)
  <2>1. wpc \notin {"read", "mark"}
    BY <1>1, WorkerElsewhere DEF GuardTest, Enter, Look
  <2> QED
    BY <1>1, <2>1 DEF GuardTest, Enter, Look
<1>2. CASE ReCrash(t)
  <2>1. wpc \notin {"read", "mark"}
    BY <1>2, WorkerElsewhere DEF ReCrash
  <2>2. ~valid[call[t].page] \/ Fails("sync_protect")
    BY <1>2 DEF ReCrash
  <2> QED
    BY <1>2, <2>1, <2>2 DEF ReCrash, Uninstall
<1>3. CASE PushFault(t) \/ ClaimSlot(t) \/ WaitTest(t) \/ FutexWait(t)
  BY <1>3 DEF PushFault, ClaimSlot, WaitTest, FutexWait
<1>4. CASE NotifyWorker(t)
  BY <1>4 DEF NotifyWorker, Signal
<1>5. CASE FindSlot(t) \/ WaitWord(t) \/ Leave(t)
  <2>1. call'[t].page = call[t].page /\ call'[t].val = call[t].val
    BY <1>5 DEF FindSlot, WaitWord, Leave, Calls
  <2> QED
    BY <1>5, <2>1 DEF FindSlot, WaitWord, Leave
<1>6. CASE SyncMark(t)
  <2>1. wpc \notin {"read", "mark"}
    BY <1>6, WorkerElsewhere DEF SyncMark
  <2> QED
    BY <1>6, <2>1 DEF SyncMark
<1>7. CASE SyncOpen(t)
  <2>1. wpc \notin {"read", "mark"}
    BY <1>7, WorkerElsewhere DEF SyncOpen
  <2>2. valid[call[t].page] /\ prot[call[t].page] = "none" /\ pc[t] = "s_open"
    BY <1>7 DEF SyncOpen
  <2>3. CASE prot' = [prot EXCEPT ![call[t].page] = "rw"] /\ Goto(t, "s_read")
             /\ UNCHANGED <<handler, guard>>
    BY <1>7, <2>1, <2>2, <2>3 DEF SyncOpen
  <2>4. CASE Fails("sync_protect") /\ guard' = FALSE /\ Uninstall(t) /\ UNCHANGED prot
    BY <1>7, <2>1, <2>2, <2>4 DEF SyncOpen, Uninstall
  <2> QED
    BY <1>7, <2>3, <2>4 DEF SyncOpen
<1>8. CASE SyncRead(t)
  <2>1. wpc \notin {"read", "mark"}
    BY <1>8, WorkerElsewhere DEF SyncRead
  <2>2. mem' = mem /\ fd' = [fd EXCEPT ![call[t].page] = "none"]
    BY <1>8, ReadInKeeps DEF SyncRead
  <2> QED
    BY <1>8, <2>1, <2>2 DEF SyncRead
<1> QED
  BY <1>1, <1>2, <1>3, <1>4, <1>5, <1>6, <1>7, <1>8 DEF HandlerStep

\* The rest of pf_destroy, pf_page_alloc, evict and load, and the access.
LEMMA MemCall ==
    ASSUME TypeInv, NEW t \in Threads, FlightOf(t), MemOf(t), ~Fails("evict_protect"),
           CallStep(t)
    PROVE  MemOf(t)'
<1>1. wpc \notin {"read", "mark"}
  BY WorkerElsewhere DEF CallStep, StopNotify, StopJoin, Unmap, AllocInit, EvictMark,
     EvictProtect, LoadRead, LoadMark, Access, Fault, At, Queued, Waiting
<1> USE OneThreadMemory DEF MemOf, CallInv, PageInv, Opening, At, Goto, procVars, pageVars,
        workerVars, workerData, InHandler, ThreadPcs
<1>2. CASE StopNotify(t) \/ StopJoin(t)
  BY <1>1, <1>2 DEF StopNotify, StopJoin, Signal
<1>3. CASE Unmap(t)
  BY <1>1, <1>3 DEF Unmap, ResetPages, All, Return
<1>4. CASE AllocInit(t)
  BY <1>1, <1>4 DEF AllocInit, Return
<1>5. CASE EvictMark(t)
  <2>1. call[t].val \in Tiers
    BY <1>5 DEF EvictMark, TypeInv, ThreadTypes, TypedAt
  <2> QED
    BY <1>1, <1>5, <2>1 DEF EvictMark, Tiers
<1>6. CASE EvictProtect(t)
  BY <1>1, <1>6 DEF EvictProtect, Return, Tiers
<1>7. CASE LoadRead(t)
  <2>1. mem' = mem /\ fd' = [fd EXCEPT ![call[t].page] = "none"]
    BY <1>7, ReadInKeeps DEF LoadRead
  <2> QED
    BY <1>1, <1>7, <2>1 DEF LoadRead
<1>8. CASE LoadMark(t)
  BY <1>1, <1>8 DEF LoadMark, Return
<1>9. CASE Access(t)
  <2>1. valid[call[t].page] /\ fd[call[t].page] = "none"
    BY <1>1, <1>9 DEF Access
  <2> QED
    BY <1>1, <1>9, <2>1 DEF Access, Return
<1>10. CASE Fault(t)
  BY <1>1, <1>10 DEF Fault
<1> QED
  BY <1>2, <1>3, <1>4, <1>5, <1>6, <1>7, <1>8, <1>9, <1>10 DEF CallStep

\* The first steps of those calls; pf_page_evict's write is one of them.
LEMMA MemBegin ==
    ASSUME TypeInv, NEW t \in Threads, FlightOf(t), MemOf(t), Begin(t)
    PROVE  MemOf(t)'
<1>1. pc[t] = "idle" /\ wpc \notin {"read", "mark"}
  <2>1. pc[t] = "idle"
    BY DEF Begin, PfInit, StopWorker, Alloc, Load, Evict, StartAccess, Call, Idle, At
  <2> QED
    BY <2>1, WorkerElsewhere DEF Queued, Waiting
<1>2. ASSUME NEW p \in Pages, NEW v, Call(t, p, v)
      PROVE  /\ call'[t].page = p /\ call'[t].val = v /\ active
  BY <1>2, OneThreadMemory, NoCallType DEF Call, Calls
<1> USE OneThreadMemory DEF MemOf, CallInv, PageInv, Opening, Goto, procVars, pageVars,
        workerVars, workerData, InHandler, ThreadPcs
<1>3. CASE PfInit(t)
  BY <1>1, <1>3 DEF PfInit, ResetPages, All
<1>4. CASE StopWorker(t)
  BY <1>1, <1>4 DEF StopWorker
<1>5. ASSUME NEW p \in Pages, Alloc(t, p) PROVE MemOf(t)'
  BY <1>1, <1>2, <1>5 DEF Alloc
<1>6. ASSUME NEW p \in Pages, Load(t, p) PROVE MemOf(t)'
  BY <1>1, <1>2, <1>6 DEF Load
<1>7. ASSUME NEW p \in Pages, NEW f \in Targets, Evict(t, p, f) PROVE MemOf(t)'
  <2>1. f \in Tiers /\ fd[p] = "none" /\ valid[p] /\ prot[p] = "rw"
    BY <1>1, <1>7, PageFaultAssumption DEF Evict, Tiers
  <2>2. \A g \in Tiers, q \in Pages: q # p => store'[g][q] = store[g][q]
    BY <1>7, <2>1 DEF Evict
  <2>3. CASE Call(t, p, f) /\ Goto(t, "e_mark") /\ store'[f][p] = mem[p]
    BY <1>1, <1>2, <1>7, <2>1, <2>2, <2>3 DEF Evict
  <2>4. CASE UNCHANGED <<pc, call>>
    BY <1>1, <1>7, <2>1, <2>2, <2>4 DEF Evict
  <2> QED
    BY <1>7, <2>1, <2>3, <2>4 DEF Evict
<1>8. ASSUME NEW p \in Pages, NEW v \in Values \cup {Read}, StartAccess(t, p, v)
      PROVE  MemOf(t)'
  BY <1>1, <1>2, <1>8 DEF StartAccess
<1> QED
  BY <1>3, <1>4, <1>5, <1>6, <1>7, <1>8 DEF Begin

\* Every step keeps what pages and call are.
LEMMA MemStep ==
    ASSUME NEW t \in Threads, Threads = {t}, ~Fails("evict_protect")
    PROVE  TypeInv /\ FlightInv /\ MemInv /\ [Next]_vars => MemInv'
<1> SUFFICES ASSUME TypeInv, FlightOf(t), MemOf(t), [Next]_vars PROVE MemOf(t)'
  BY DEF FlightInv, MemInv
<1>1. CASE SpuriousFutex(t)
  BY <1>1, OneThreadMemory DEF SpuriousFutex, MemOf, CallInv, PageInv, Opening, At, Goto,
     procVars, pageVars, workerVars, workerData, InHandler, ThreadPcs
<1>2. CASE UNCHANGED vars
  BY <1>2 DEF vars, MemOf, CallInv, PageInv, Opening, procVars, pageVars, workerVars,
     workerData
<1> QED
  BY <1>1, <1>2, MemWorker, MemHandler, MemCall, MemBegin DEF Next, ThreadStep, CallStep

\* With one thread MemInv holds, unless the mprotect of an eviction fails.
LEMMA MemInvariant ==
    ASSUME NEW t \in Threads, Threads = {t}, ~Fails("evict_protect")
    PROVE  Spec => []MemInv
<1>1. Init => MemInv
  BY PageFaultAssumption DEF Init, NoPages, All, MemInv, MemOf, CallInv, PageInv, InHandler,
     ThreadPcs
<1> QED
  BY <1>1, MemStep, FlightInvariant, PagingTypeInvariant, PTL DEF Spec

(* With one application thread a page holds what was last written to it,   *)
(* whatever was evicted, loaded, faulted in or transferred short; the only *)
(* failure left out is that of the mprotect of an eviction, after location *)
(* and backing_fd were changed (pagefault.c:595-604).                      *)
THEOREM PagingTransparent ==
    ASSUME NEW t \in Threads, Threads = {t}, ~Fails("evict_protect")
    PROVE  Spec => []Transparent
<1>1. MemInv => Transparent
  BY DEF MemInv, MemOf, PageInv, Transparent
<1> QED
  BY <1>1, MemInvariant, PTL

(* A backing_fd that is set leads to a copy that is current, so that       *)
(* reading it in loses nothing (pf_worker_load_batch, pagefault.c:213-297; *)
(* pf_page_load; the synchronous fallback), under the same assumptions.    *)
THEOREM StoredCopiesCurrent ==
    ASSUME NEW t \in Threads, Threads = {t}, ~Fails("evict_protect")
    PROVE  Spec => []StoredCopyCurrent
<1>1. MemInv => StoredCopyCurrent
  BY DEF MemInv, MemOf, PageInv, StoredCopyCurrent
<1> QED
  BY <1>1, MemInvariant, PTL

(* PF_LOC_RAM means accessible but between two steps of the synchronous    *)
(* fallback, which sets it first (pagefault.c:123-127); a failure of the   *)
(* mprotect there would leave it set for good.                             *)
THEOREM ResidentPagesOpen ==
    ASSUME NEW t \in Threads, Threads = {t}, ~Fails("evict_protect"), ~Fails("sync_protect")
    PROVE  Spec => []ResidentIsOpen
<1>1. MemInv => ResidentIsOpen
  BY DEF MemInv, MemOf, PageInv, ResidentIsOpen
<1> QED
  BY <1>1, MemInvariant, PTL

(* The handler is given back only on an access of a page never allocated   *)
(* (re_crash in pf_handle_fault), if neither that mprotect fails nor the   *)
(* one of an eviction.                                                     *)
THEOREM ManagedFaultsServed ==
    ASSUME NEW t \in Threads, Threads = {t}, ~Fails("evict_protect"), ~Fails("sync_protect")
    PROVE  Spec => []OnlyStrayAccessCrashes
<1>1. MemInv => OnlyStrayAccessCrashes
  BY DEF MemInv, MemOf, CallInv, OnlyStrayAccessCrashes
<1> QED
  BY <1>1, MemInvariant, PTL
=============================================================================
