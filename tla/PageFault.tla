----------------------------- MODULE PageFault -----------------------------
(***************************************************************************)
(* Transparent paging (pagefault.c) with its worker thread (worker.c).     *)
(*                                                                         *)
(* Application threads read and write pages of a region, and allocate,     *)
(* evict and load them.  An access to a protected page runs the SIGSEGV    *)
(* handler, which queues the page, signals the worker and suspends the     *)
(* thread; the worker drains the queue, loads the pages and wakes every    *)
(* suspended thread.  One action is one access to shared state, one system *)
(* call or one critical section of notify_mutex.  The ring is the bounded  *)
(* FIFO that FaultRing implements.                                         *)
(***************************************************************************)
EXTENDS Naturals, Sequences, FiniteSets

CONSTANTS Threads,      \* the application's threads
          Pages,        \* page indices
          Values,       \* what an application stores in a page
          Zero,         \* the value of a freshly allocated page
          Torn,         \* a page that a short transfer mixed from two values
          Read,         \* call[t].val of a thread that only reads
          RingSize,     \* UFTA_WORKER_RING_SIZE
          MaxWaiters,   \* UFTA_WORKER_MAX_WAITERS
          Targets,      \* the tiers the application evicts to
          Faults        \* the calls that may fail in this environment

FaultSites == {"load_protect", "load_read", "evict_protect", "evict_write",
               "sync_protect", "sync_read", "thread_create"}

ASSUME PageFaultAssumption ==
    /\ Pages \subseteq Nat /\ Pages # {}
    /\ Zero \in Values /\ Torn \notin Values
    /\ Read \notin Values \cup {Torn, "vram", "file"}
    /\ RingSize \in Nat \ {0} /\ MaxWaiters \in Nat \ {0}
    /\ Targets \subseteq {"vram", "file"} /\ Faults \subseteq FaultSites

Tiers == {"vram", "file"}               \* ctx->vram_fd, ctx->file_fd
Locations == Tiers \cup {"ram", "missing"}
Data  == Values \cup {Torn}
Slots == 1 .. MaxWaiters
NoCall == [page |-> CHOOSE p \in Pages : TRUE, val |-> Read, slot |-> 1, word |-> 0]

VARIABLES
    active,    \* ctx->active, and g_pf_ctx # NULL
    handler,   \* the SIGSEGV disposition: "old", "pf" or "dfl"
    guard,     \* ctx->fault_in_progress
    crashed,   \* the process died of SIGSEGV
    valid, loc, fd,    \* pages[p].valid, .location, .backing_fd ("none": -1)
    prot,      \* the page's protection: "none" or "rw"
    mem,       \* its contents in RAM, which PROT_NONE does not discard
    store,     \* its contents in each backing file
    content,   \* (history) what the application last wrote to the page
    queue,     \* worker.ring
    running, started,  \* worker.running, ctx->worker_started
    wpc, batch, wslot, \* worker_main: control, rest of the batch, i of wake_all
    waiters,   \* worker.waiters: page index + 1, or 0
    pc, call           \* a thread's control, and the locals of its current call:
                       \* page, what it writes or where it evicts to, and slot and
                       \* futex argument of ufta_worker_wait

pageVars   == <<valid, loc, fd, prot, mem, store, content>>
workerData == <<running, started, batch, wslot, waiters>>
workerVars == <<wpc, workerData>>
procVars   == <<active, handler, guard, crashed>>
vars == <<procVars, pageVars, queue, workerVars, pc, call>>

-----------------------------------------------------------------------------
Fails(site) == site \in Faults

\* Control; a process that has crashed takes no more steps.
At(t, l)    == ~crashed /\ pc[t] = l
WorkerAt(l) == ~crashed /\ wpc = l
Goto(t, l)  == pc' = [pc EXCEPT ![t] = l]
Return(t)   == Goto(t, "idle") /\ call' = [call EXCEPT ![t] = NoCall]

\* A short transfer of b over a leaves either, or a mixture of both.
Blend(a, b) == IF a = b THEN {a} ELSE {a, b, Torn}

\* The batch stays sorted by page index: the insertion sort of worker_main,
\* applied as the requests are drained.
InsertSorted(s, p) ==
    LET k == Cardinality({i \in DOMAIN s : s[i] <= p})
    IN  [i \in 1 .. Len(s) + 1 |-> IF i <= k THEN s[i]
                                   ELSE IF i = k + 1 THEN p ELSE s[i - 1]]

\* notify_mutex: the worker holds it while it tests its predicate.
MutexFree == wpc \notin {"decide", "park"}

\* pthread_cond_signal wakes the worker if it waits, and is lost otherwise.
Signal == wpc' = IF wpc = "parked" THEN "woken" ELSE wpc

All(v) == [p \in Pages |-> v]

\* The page table, the region and the backing files as pf_init leaves them.
NoPages ==
    /\ valid = All(FALSE) /\ loc = All("missing") /\ fd = All("none")
    /\ prot = All("none") /\ mem = All(Zero) /\ content = All(Zero)
    /\ store = [f \in Tiers |-> All(Zero)]

ResetPages ==
    /\ valid' = All(FALSE) /\ loc' = All("missing") /\ fd' = All("none")
    /\ prot' = All("none") /\ mem' = All(Zero) /\ content' = All(Zero)
    /\ store' = [f \in Tiers |-> All(Zero)]

Init ==
    /\ active = FALSE /\ handler = "old" /\ guard = FALSE /\ crashed = FALSE
    /\ NoPages
    /\ queue = << >>
    /\ running = FALSE /\ started = FALSE
    /\ wpc = "none" /\ batch = << >> /\ wslot = 1
    /\ waiters = [i \in Slots |-> 0]
    /\ pc = [t \in Threads |-> "idle"]
    /\ call = [t \in Threads |-> NoCall]

-----------------------------------------------------------------------------
(* pf_init and pf_destroy.  The application calls them while its other      *)
(* threads are outside the region.                                          *)

OthersIdle(t) == \A u \in Threads \ {t} : pc[u] = "idle"
Idle(t) == At(t, "idle")

\* pf_init: a failure before the handler is installed leaves no trace; a
\* worker that cannot be created leaves the synchronous fallback.
PfInit(t) ==
    /\ Idle(t) /\ OthersIdle(t) /\ ~active
    /\ ResetPages
    /\ active' = TRUE /\ handler' = "pf" /\ guard' = FALSE
    /\ queue' = << >> /\ batch' = << >> /\ wslot' = 1
    /\ waiters' = [i \in Slots |-> 0]
    /\ \/ running' = TRUE /\ started' = TRUE /\ wpc' = "top"
       \/ Fails("thread_create") /\ running' = FALSE /\ started' = FALSE /\ wpc' = "none"
    /\ UNCHANGED <<crashed, pc, call>>

\* ufta_worker_stop clears running without the mutex, then notifies and joins.
StopWorker(t) ==
    /\ Idle(t) /\ OthersIdle(t) /\ active
    /\ running' = FALSE
    /\ Goto(t, IF started THEN "d_notify" ELSE "d_unmap")
    /\ UNCHANGED <<procVars, pageVars, queue, started, wpc, batch, wslot, waiters, call>>

\* Mutant: the signal is sent without taking notify_mutex.
StopNotifyUnlocked(t) ==
    /\ At(t, "d_notify")
    /\ Signal
    /\ Goto(t, "d_join")
    /\ UNCHANGED <<procVars, pageVars, queue, workerData, call>>

\* Mutant: pf_destroy does not wait for the worker.
StopNotifyOnly(t) ==
    /\ At(t, "d_notify") /\ MutexFree
    /\ Signal
    /\ Goto(t, "d_unmap")
    /\ UNCHANGED <<procVars, pageVars, queue, workerData, call>>

\* ufta_worker_notify: lock notify_mutex, signal, unlock.
StopNotify(t) ==
    /\ At(t, "d_notify") /\ MutexFree
    /\ Signal
    /\ Goto(t, "d_join")
    /\ UNCHANGED <<procVars, pageVars, queue, workerData, call>>

StopJoin(t) ==
    /\ At(t, "d_join") /\ wpc = "exited"
    /\ started' = FALSE /\ wpc' = "none"
    /\ Goto(t, "d_unmap")
    /\ UNCHANGED <<procVars, pageVars, queue, running, batch, wslot, waiters, call>>

\* Restore the old handler, drop g_pf_ctx, close the files, unmap the region.
Unmap(t) ==
    /\ At(t, "d_unmap")
    /\ handler' = "old" /\ active' = FALSE
    /\ ResetPages
    /\ Return(t)
    /\ UNCHANGED <<guard, crashed, queue, workerVars>>

-----------------------------------------------------------------------------
(* pf_page_alloc, pf_page_evict, pf_page_load *)

Stopping == \E u \in Threads : pc[u] \in {"d_notify", "d_join", "d_unmap"}
Call(t, p, v) ==
    /\ Idle(t) /\ active /\ ~Stopping
    /\ call' = [call EXCEPT ![t] = [NoCall EXCEPT !.page = p, !.val = v]]

\* Mutant: backing_fd is not cleared after the read.
ReadInKeepsFd(p, site) ==
    /\ IF fd[p] = "none" THEN UNCHANGED mem
       ELSE \/ mem' = [mem EXCEPT ![p] = store[fd[p]][p]]
            \/ /\ Fails(site)
               /\ \E d \in Blend(mem[p], store[fd[p]][p]) : mem' = [mem EXCEPT ![p] = d]
    /\ UNCHANGED fd

\* pread into the page from its backing file, which the page then forgets.
ReadIn(p, site) ==
    /\ IF fd[p] = "none" THEN UNCHANGED mem
       ELSE \/ mem' = [mem EXCEPT ![p] = store[fd[p]][p]]
            \/ /\ Fails(site)
               /\ \E d \in Blend(mem[p], store[fd[p]][p]) : mem' = [mem EXCEPT ![p] = d]
    /\ fd' = [fd EXCEPT ![p] = "none"]

Alloc(t, p) ==
    /\ Call(t, p, Read) /\ ~valid[p]
    /\ prot' = [prot EXCEPT ![p] = "rw"]
    /\ Goto(t, "a_init")
    /\ UNCHANGED <<procVars, valid, loc, fd, mem, store, content, queue, workerVars>>

AllocInit(t) ==
    LET p == call[t].page IN
    /\ At(t, "a_init")
    /\ mem' = [mem EXCEPT ![p] = Zero]
    /\ content' = [content EXCEPT ![p] = Zero]
    /\ valid' = [valid EXCEPT ![p] = TRUE]
    /\ loc' = [loc EXCEPT ![p] = "ram"]
    /\ fd' = [fd EXCEPT ![p] = "none"]
    /\ Return(t)
    /\ UNCHANGED <<procVars, prot, store, queue, workerVars>>

\* Mutant: the result of pwrite is ignored.
EvictUnchecked(t, p, f) ==
    /\ valid[p] /\ loc[p] # "missing" /\ prot[p] = "rw"
    /\ Call(t, p, f)
    /\ \E d \in IF Fails("evict_write") THEN Blend(store[f][p], mem[p]) ELSE {mem[p]} :
          store' = [store EXCEPT ![f][p] = d]
    /\ Goto(t, "e_mark")
    /\ UNCHANGED <<procVars, valid, loc, fd, prot, mem, content, queue, workerVars>>

\* pwrite reads the page itself: a protected page gives EFAULT and -1.
Evict(t, p, f) ==
    /\ valid[p] /\ loc[p] # "missing" /\ prot[p] = "rw"
    /\ \/ /\ Call(t, p, f)
          /\ store' = [store EXCEPT ![f][p] = mem[p]]
          /\ Goto(t, "e_mark")
       \/ /\ Idle(t) /\ active /\ ~Stopping /\ Fails("evict_write")
          /\ \E d \in Blend(store[f][p], mem[p]) : store' = [store EXCEPT ![f][p] = d]
          /\ UNCHANGED <<pc, call>>
    /\ UNCHANGED <<procVars, valid, loc, fd, prot, mem, content, queue, workerVars>>

\* Mutant: the backing file is chosen by the page's old location.
EvictMarkByLocation(t) ==
    /\ At(t, "e_mark")
    /\ fd' = [fd EXCEPT ![call[t].page] = loc[call[t].page]]
    /\ loc' = [loc EXCEPT ![call[t].page] = call[t].val]
    /\ Goto(t, "e_protect")
    /\ UNCHANGED <<procVars, valid, prot, mem, store, content, queue, workerVars, call>>

\* Mutant: the location is left at RAM.
EvictMarkFdOnly(t) ==
    /\ At(t, "e_mark")
    /\ fd' = [fd EXCEPT ![call[t].page] = call[t].val]
    /\ Goto(t, "e_protect")
    /\ UNCHANGED <<procVars, valid, loc, prot, mem, store, content, queue, workerVars, call>>

EvictMark(t) ==
    /\ At(t, "e_mark")
    /\ fd' = [fd EXCEPT ![call[t].page] = call[t].val]
    /\ loc' = [loc EXCEPT ![call[t].page] = call[t].val]
    /\ Goto(t, "e_protect")
    /\ UNCHANGED <<procVars, valid, prot, mem, store, content, queue, workerVars, call>>

EvictProtect(t) ==
    /\ At(t, "e_protect")
    /\ \/ prot' = [prot EXCEPT ![call[t].page] = "none"]
       \/ Fails("evict_protect") /\ UNCHANGED prot
    /\ Return(t)
    /\ UNCHANGED <<procVars, valid, loc, fd, mem, store, content, queue, workerVars>>

Load(t, p) ==
    /\ Call(t, p, Read) /\ valid[p] /\ loc[p] \notin {"ram", "missing"}
    /\ prot' = [prot EXCEPT ![p] = "rw"]
    /\ Goto(t, "l_read")
    /\ UNCHANGED <<procVars, valid, loc, fd, mem, store, content, queue, workerVars>>

LoadRead(t) ==
    /\ At(t, "l_read")
    /\ ReadIn(call[t].page, "load_read")
    /\ Goto(t, "l_mark")
    /\ UNCHANGED <<procVars, valid, loc, prot, store, content, queue, workerVars, call>>

LoadMark(t) ==
    /\ At(t, "l_mark")
    /\ loc' = [loc EXCEPT ![call[t].page] = "ram"]
    /\ Return(t)
    /\ UNCHANGED <<procVars, valid, fd, prot, mem, store, content, queue, workerVars>>

-----------------------------------------------------------------------------
(* An application load or store, also the memset of pf_page_write_pattern. *)
(* The page need not be allocated: that is the stray access which the       *)
(* handler passes on.                                                       *)

StartAccess(t, p, v) ==
    /\ Call(t, p, v)
    /\ Goto(t, "access")
    /\ UNCHANGED <<procVars, pageVars, queue, workerVars>>

\* The instruction, run again after every return from the handler.
Access(t) ==
    LET p == call[t].page IN
    /\ At(t, "access") /\ prot[p] = "rw"
    /\ IF call[t].val = Read THEN UNCHANGED <<mem, content>>
       ELSE /\ mem' = [mem EXCEPT ![p] = call[t].val]
            /\ content' = [content EXCEPT ![p] = call[t].val]
    /\ Return(t)
    /\ UNCHANGED <<procVars, valid, loc, fd, prot, store, queue, workerVars>>

Fault(t) ==
    /\ At(t, "access") /\ prot[call[t].page] = "none"
    /\ IF handler = "pf" THEN Goto(t, "guard") /\ UNCHANGED crashed
                         ELSE crashed' = TRUE /\ UNCHANGED pc
    /\ UNCHANGED <<active, handler, guard, pageVars, queue, workerVars, call>>

-----------------------------------------------------------------------------
(* pf_handle_fault *)

\* Put the default action back and return: the retried access kills the process.
Uninstall(t) == handler' = "dfl" /\ Goto(t, "access")

\* The re-entrancy guard, tested here and set in the next step.
GuardTest(t) ==
    /\ At(t, "guard")
    /\ IF ~active \/ guard THEN Uninstall(t) ELSE Goto(t, "enter") /\ UNCHANGED handler
    /\ UNCHANGED <<active, guard, crashed, pageVars, queue, workerVars, call>>

Enter(t) ==
    /\ At(t, "enter")
    /\ guard' = TRUE
    /\ Goto(t, "look")
    /\ UNCHANGED <<active, handler, crashed, pageVars, queue, workerVars, call>>

\* Only a valid page that is not in RAM is ours to resolve.
Look(t) ==
    /\ At(t, "look")
    /\ valid[call[t].page] /\ loc[call[t].page] # "ram"
    /\ Goto(t, IF started THEN "push" ELSE "s_mark")
    /\ UNCHANGED <<procVars, pageVars, queue, workerVars, call>>

ReCrash(t) ==
    /\ At(t, "look")
    /\ ~(valid[call[t].page] /\ loc[call[t].page] # "ram")
    /\ guard' = FALSE
    /\ Uninstall(t)
    /\ UNCHANGED <<active, crashed, pageVars, queue, workerVars, call>>

\* ufta_ring_push; a full ring falls through to the synchronous path.
PushFault(t) ==
    /\ At(t, "push")
    /\ IF Len(queue) < RingSize
       THEN queue' = Append(queue, call[t].page) /\ Goto(t, "notify")
       ELSE UNCHANGED queue /\ Goto(t, "s_mark")
    /\ UNCHANGED <<procVars, pageVars, workerVars, call>>

\* Mutant: the signal is sent without taking notify_mutex.
NotifyWorkerUnlocked(t) ==
    /\ At(t, "notify")
    /\ Signal
    /\ Goto(t, "scan")
    /\ UNCHANGED <<procVars, pageVars, queue, workerData, call>>

NotifyWorker(t) ==
    /\ At(t, "notify") /\ MutexFree
    /\ Signal
    /\ Goto(t, "scan")
    /\ UNCHANGED <<procVars, pageVars, queue, workerData, call>>

\* ufta_worker_wait: the first free slot, or the first slot when none is free.
FindSlot(t) ==
    LET free == {i \in Slots : waiters[i] = 0} IN
    /\ At(t, "scan")
    /\ IF free = {} THEN call' = [call EXCEPT ![t].slot = 1] /\ Goto(t, "test")
       ELSE /\ call' = [call EXCEPT ![t].slot = CHOOSE i \in free : \A j \in free : i <= j]
            /\ Goto(t, "claim")
    /\ UNCHANGED <<procVars, pageVars, queue, workerVars>>

ClaimSlot(t) ==
    /\ At(t, "claim")
    /\ waiters' = [waiters EXCEPT ![call[t].slot] = call[t].page + 1]
    /\ Goto(t, "test")
    /\ UNCHANGED <<procVars, pageVars, queue, running, started, wpc, batch, wslot, call>>

\* Mutant: the loop waits for the page instead of the slot.
WaitTestPage(t) ==
    /\ At(t, "test")
    /\ Goto(t, IF loc[call[t].page] = "ram" THEN "leave" ELSE "word")
    /\ UNCHANGED <<procVars, pageVars, queue, workerVars, call>>

\* while (w->waiters[slot] != 0) ...
WaitTest(t) ==
    /\ At(t, "test")
    /\ Goto(t, IF waiters[call[t].slot] = 0 THEN "leave" ELSE "word")
    /\ UNCHANGED <<procVars, pageVars, queue, workerVars, call>>

\* ... futex_wait(&w->waiters[slot], w->waiters[slot]): the argument is a
\* second read, and the kernel's comparison a third.
WaitWord(t) ==
    /\ At(t, "word")
    /\ call' = [call EXCEPT ![t].word = waiters[call[t].slot]]
    /\ Goto(t, "futex")
    /\ UNCHANGED <<procVars, pageVars, queue, workerVars>>

FutexWait(t) ==
    /\ At(t, "futex")
    /\ Goto(t, IF waiters[call[t].slot] = call[t].word THEN "asleep" ELSE "test")
    /\ UNCHANGED <<procVars, pageVars, queue, workerVars, call>>

\* Mutant: fault_in_progress is not reset.
LeaveGuarded(t) ==
    /\ At(t, "leave")
    /\ call' = [call EXCEPT ![t].slot = 1, ![t].word = 0]
    /\ Goto(t, "access")
    /\ UNCHANGED <<procVars, pageVars, queue, workerVars>>

Leave(t) ==
    /\ At(t, "leave")
    /\ guard' = FALSE
    /\ call' = [call EXCEPT ![t].slot = 1, ![t].word = 0]
    /\ Goto(t, "access")
    /\ UNCHANGED <<active, handler, crashed, pageVars, queue, workerVars>>

\* The synchronous fallback marks the page before it opens it.
SyncMark(t) ==
    /\ At(t, "s_mark")
    /\ loc' = [loc EXCEPT ![call[t].page] = "ram"]
    /\ Goto(t, "s_open")
    /\ UNCHANGED <<procVars, valid, fd, prot, mem, store, content, queue, workerVars, call>>

SyncOpen(t) ==
    /\ At(t, "s_open")
    /\ \/ /\ prot' = [prot EXCEPT ![call[t].page] = "rw"]
          /\ Goto(t, "s_read")
          /\ UNCHANGED <<handler, guard>>
       \/ /\ Fails("sync_protect")
          /\ guard' = FALSE
          /\ Uninstall(t)
          /\ UNCHANGED prot
    /\ UNCHANGED <<active, crashed, valid, loc, fd, mem, store, content, queue, workerVars,
                   call>>

SyncRead(t) ==
    /\ At(t, "s_read")
    /\ ReadIn(call[t].page, "sync_read")
    /\ guard' = FALSE
    /\ Goto(t, "access")
    /\ UNCHANGED <<active, handler, crashed, valid, loc, prot, store, content, queue,
                   workerVars, call>>

-----------------------------------------------------------------------------
(* worker_main *)

WorkerGoto(l) == wpc' = l

\* while (w->running), then lock notify_mutex.
WorkerTop ==
    /\ WorkerAt("top")
    /\ WorkerGoto(IF running THEN "decide" ELSE "exited")
    /\ UNCHANGED <<procVars, pageVars, queue, workerData, pc, call>>

\* while (running && head == tail): the test, with the mutex held.
WorkerDecide ==
    /\ WorkerAt("decide")
    /\ WorkerGoto(IF running /\ queue = << >> THEN "park" ELSE "recheck")
    /\ UNCHANGED <<procVars, pageVars, queue, workerData, pc, call>>

\* pthread_cond_wait releases the mutex and waits in one step ...
WorkerPark ==
    /\ WorkerAt("park")
    /\ WorkerGoto("parked")
    /\ UNCHANGED <<procVars, pageVars, queue, workerData, pc, call>>

\* ... and takes the mutex again when signalled.
WorkerResume ==
    /\ WorkerAt("woken")
    /\ WorkerGoto("decide")
    /\ UNCHANGED <<procVars, pageVars, queue, workerData, pc, call>>

\* Unlocked: if (!w->running) break, whatever is still queued.
WorkerRecheck ==
    /\ WorkerAt("recheck")
    /\ WorkerGoto(IF running THEN "drain" ELSE "exited")
    /\ UNCHANGED <<procVars, pageVars, queue, workerData, pc, call>>

\* ufta_ring_pop until the ring is empty or the batch is full.
WorkerDrain ==
    /\ WorkerAt("drain")
    /\ IF queue # << >> /\ Len(batch) < RingSize
       THEN /\ batch' = InsertSorted(batch, Head(queue))
            /\ queue' = Tail(queue)
            /\ UNCHANGED wpc
       ELSE /\ WorkerGoto(IF batch = << >> THEN "top" ELSE "open")
            /\ UNCHANGED <<queue, batch>>
    /\ UNCHANGED <<procVars, pageVars, running, started, wslot, waiters, pc, call>>

\* pf_worker_load_batch, one page of the batch: skip a page that needs
\* nothing, or whose mprotect fails; otherwise open it before it is filled.
WorkerSkip ==
    /\ WorkerAt("open") /\ batch # << >>
    /\ ~valid[Head(batch)] \/ loc[Head(batch)] = "ram" \/ Fails("load_protect")
    /\ batch' = Tail(batch)
    /\ UNCHANGED <<procVars, pageVars, queue, running, started, wpc, wslot, waiters,
                   pc, call>>

WorkerOpen ==
    /\ WorkerAt("open") /\ batch # << >>
    /\ valid[Head(batch)] /\ loc[Head(batch)] # "ram"
    /\ prot' = [prot EXCEPT ![Head(batch)] = "rw"]
    /\ WorkerGoto("read")
    /\ UNCHANGED <<procVars, valid, loc, fd, mem, store, content, queue, running, started,
                   batch, wslot, waiters, pc, call>>

WorkerRead ==
    /\ WorkerAt("read")
    /\ ReadIn(Head(batch), "load_read")
    /\ WorkerGoto("mark")
    /\ UNCHANGED <<procVars, valid, loc, prot, store, content, queue, running, started,
                   batch, wslot, waiters, pc, call>>

WorkerMark ==
    /\ WorkerAt("mark")
    /\ loc' = [loc EXCEPT ![Head(batch)] = "ram"]
    /\ batch' = Tail(batch)
    /\ WorkerGoto("open")
    /\ UNCHANGED <<procVars, valid, fd, prot, mem, store, content, queue, running, started,
                   wslot, waiters, pc, call>>

WorkerLoaded ==
    /\ WorkerAt("open") /\ batch = << >>
    /\ wslot' = 1
    /\ WorkerGoto("wake")
    /\ UNCHANGED <<procVars, pageVars, queue, running, started, batch, waiters, pc, call>>

\* ufta_worker_wake_all clears every registered slot, whatever its page ...
WakeClear ==
    /\ WorkerAt("wake") /\ wslot \in Slots
    /\ IF waiters[wslot] # 0
       THEN /\ waiters' = [waiters EXCEPT ![wslot] = 0]
            /\ WorkerGoto("futex")
            /\ UNCHANGED wslot
       ELSE wslot' = wslot + 1 /\ UNCHANGED <<wpc, waiters>>
    /\ UNCHANGED <<procVars, pageVars, queue, running, started, batch, pc, call>>

\* ... and wakes one thread that sleeps on it.
WakeFutex ==
    LET asleep == {t \in Threads : pc[t] = "asleep" /\ call[t].slot = wslot} IN
    /\ WorkerAt("futex")
    /\ IF asleep = {} THEN UNCHANGED pc ELSE \E t \in asleep : Goto(t, "test")
    /\ wslot' = wslot + 1
    /\ WorkerGoto("wake")
    /\ UNCHANGED <<procVars, pageVars, queue, running, started, batch, waiters, call>>

WakeDone ==
    /\ WorkerAt("wake") /\ wslot \notin Slots
    /\ WorkerGoto("top")
    /\ UNCHANGED <<procVars, pageVars, queue, workerData, pc, call>>

-----------------------------------------------------------------------------
(* POSIX lets both waits return for no reason; the code loops around both. *)

SpuriousSignal ==
    /\ WorkerAt("parked")
    /\ WorkerGoto("woken")
    /\ UNCHANGED <<procVars, pageVars, queue, workerData, pc, call>>

\* Mutant: an if in place of the while around futex_wait.
SpuriousFutexLeaves(t) ==
    /\ At(t, "asleep")
    /\ Goto(t, "leave")
    /\ UNCHANGED <<procVars, pageVars, queue, workerVars, call>>

SpuriousFutex(t) ==
    /\ At(t, "asleep")
    /\ Goto(t, "test")
    /\ UNCHANGED <<procVars, pageVars, queue, workerVars, call>>

WorkerStep ==
    \/ WorkerTop \/ WorkerDecide \/ WorkerPark \/ WorkerResume \/ WorkerRecheck
    \/ WorkerDrain \/ WorkerSkip \/ WorkerOpen \/ WorkerRead \/ WorkerMark
    \/ WorkerLoaded \/ WakeClear \/ WakeFutex \/ WakeDone

\* What a thread does once it has begun; it may begin nothing for ever.
HandlerStep(t) ==
    \/ GuardTest(t) \/ Enter(t) \/ Look(t) \/ ReCrash(t)
    \/ PushFault(t) \/ NotifyWorker(t)
    \/ FindSlot(t) \/ ClaimSlot(t) \/ WaitTest(t) \/ WaitWord(t) \/ FutexWait(t) \/ Leave(t)
    \/ SyncMark(t) \/ SyncOpen(t) \/ SyncRead(t)

ThreadStep(t) ==
    \/ StopNotify(t) \/ StopJoin(t) \/ Unmap(t)
    \/ AllocInit(t) \/ EvictMark(t) \/ EvictProtect(t) \/ LoadRead(t) \/ LoadMark(t)
    \/ Access(t) \/ Fault(t) \/ HandlerStep(t)

Begin(t) ==
    \/ PfInit(t) \/ StopWorker(t)
    \/ \E p \in Pages :
         \/ Alloc(t, p) \/ Load(t, p)
         \/ \E f \in Targets : Evict(t, p, f)
         \/ \E v \in Values \cup {Read} : StartAccess(t, p, v)

Next ==
    \/ WorkerStep \/ SpuriousSignal
    \/ \E t \in Threads : Begin(t) \/ ThreadStep(t) \/ SpuriousFutex(t)

\* The kernel runs every runnable thread: weak fairness of each, none of the
\* application's decision to begin a call, none of the spurious returns.
Fairness == WF_vars(WorkerStep) /\ \A t \in Threads : WF_vars(ThreadStep(t))

Spec == Init /\ [][Next]_vars
FairSpec == Spec /\ Fairness

-----------------------------------------------------------------------------
(* Properties *)

ThreadPcs == {"idle", "access", "guard", "enter", "look", "push", "notify", "scan",
              "claim", "test", "word", "futex", "asleep", "leave", "s_mark", "s_open",
              "s_read", "a_init", "e_mark", "e_protect", "l_read", "l_mark",
              "d_notify", "d_join", "d_unmap"}
WorkerPcs == {"none", "top", "decide", "park", "parked", "woken", "recheck", "drain",
              "open", "read", "mark", "wake", "futex", "exited"}
InHandler == ThreadPcs \ {"idle", "access", "a_init", "e_mark", "e_protect", "l_read",
                          "l_mark", "d_notify", "d_join", "d_unmap"}
Waiting == {"test", "word", "futex", "asleep"}

TypeOK ==
    /\ active \in BOOLEAN /\ guard \in BOOLEAN /\ crashed \in BOOLEAN
    /\ handler \in {"old", "pf", "dfl"}
    /\ valid \in [Pages -> BOOLEAN]
    /\ loc \in [Pages -> Locations]
    /\ fd \in [Pages -> Tiers \cup {"none"}]
    /\ prot \in [Pages -> {"none", "rw"}]
    /\ mem \in [Pages -> Data] /\ content \in [Pages -> Data]
    /\ store \in [Tiers -> [Pages -> Data]]
    /\ queue \in Seq(Pages) /\ Len(queue) <= RingSize
    /\ running \in BOOLEAN /\ started \in BOOLEAN
    /\ wpc \in WorkerPcs
    /\ batch \in Seq(Pages) /\ Len(batch) <= RingSize
    /\ wslot \in 1 .. MaxWaiters + 1
    /\ waiters \in [Slots -> {0} \cup {p + 1 : p \in Pages}]
    /\ pc \in [Threads -> ThreadPcs]
    /\ call \in [Threads -> [page : Pages, val : Data \cup {Read} \cup Tiers,
                             slot : Slots, word : {0} \cup {p + 1 : p \in Pages}]]

(* Paging is transparent (pagefault.h:4-11): whatever was evicted, faulted *)
(* in, half transferred or refused by mprotect, a page holds what the      *)
(* application last wrote to it.                                           *)
Transparent == \A p \in Pages : valid[p] => mem[p] = content[p]

(* A page that would be read back from a backing file is current in it: no *)
(* path leaves backing_fd pointing at an older copy of the page.           *)
StoredCopyCurrent == \A p \in Pages : fd[p] # "none" => store[fd[p]][p] = content[p]

(* PF_LOC_RAM means accessible (pagefault.h:34), but for the window inside *)
(* the synchronous fallback.                                               *)
ResidentIsOpen ==
    \A p \in Pages :
        loc[p] = "ram" => \/ prot[p] = "rw"
                          \/ \E t \in Threads : pc[t] = "s_open" /\ call[t].page = p

(* The handler gives SIGSEGV back only to an access of a page that was     *)
(* never allocated: no fault on a managed page ever kills the process.     *)
OnlyStrayAccessCrashes ==
    handler = "dfl" => \E t \in Threads : pc[t] = "access" /\ ~valid[call[t].page]

(* The worker opens a page before it fills it.  What keeps that window     *)
(* from the application is that no request is queued and no batch is in    *)
(* hand while the faulting thread runs.                                    *)
NoLoadWhileRunning ==
    (\A t \in Threads : pc[t] \notin InHandler) => queue = << >> /\ batch = << >>

(* No waiter slot leaks: a registered slot belongs to a suspended thread,  *)
(* so 256 slots serve any number of faults.                                *)
NoLeakedWaiter ==
    \A i \in Slots : waiters[i] # 0 => \E t \in Threads : pc[t] \in Waiting /\ call[t].slot = i

(* pf_destroy stops and joins the worker before it unmaps the region and   *)
(* closes the backing files: the worker never touches a page of a region   *)
(* that is gone.                                                           *)
WorkerGoneBeforeUnmap ==
    ~active \/ (\E t \in Threads : pc[t] = "d_unmap") => wpc = "none"

(* ufta_worker_stop always ends: clearing running without the mutex and    *)
(* signalling afterwards loses no wakeup.                                  *)
StopTerminates == \A t \in Threads : pc[t] = "d_notify" ~> pc[t] # "d_notify" /\ ~active

(* Every queued request is drained: a push followed by a signal is never   *)
(* missed by a worker that is about to sleep.  A crash ends the process.   *)
RequestsDrain ==
    \A p \in Pages : (\E i \in DOMAIN queue : queue[i] = p)
                        ~> (~(\E i \in DOMAIN queue : queue[i] = p) \/ crashed)

(* A fault on an evicted page is served, never answered by removing the    *)
(* handler, also while another thread is suspended on its own fault: the   *)
(* waiter table has room for 256 of them (worker.h:35, 123).               *)
EvictedFaultServed ==
    [][\A t \in Threads :
         pc[t] \in {"guard", "enter", "look"} /\ loc[call[t].page] \in Tiers
             => pc'[t] # "access"]_vars

(* The ring has a single producer: the handler runs in one thread at a     *)
(* time (worker.h:45-47), which is what its push relies on.                *)
OneProducer ==
    \A t, u \in Threads : pc[t] = "push" /\ pc[u] = "push" => t = u

(* A fault is resolved and the access completes (worker.h:123-124:         *)
(* ufta_worker_wait returns when the worker has processed the page).       *)
FaultResolved == \A t \in Threads : pc[t] = "guard" ~> (pc[t] = "idle" \/ crashed)
=============================================================================
