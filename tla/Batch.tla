------------------------------- MODULE Batch -------------------------------
(***************************************************************************)
(* One batch of the fault worker, step by step: the insertion sort of      *)
(* worker_main (worker.c:161-173) and the walk of pf_worker_load_batch     *)
(* over runs of contiguous pages (pagefault.c:213-297), which resolves the *)
(* pages start, start + 1, ... of a run and not the entries of the array.  *)
(* Indices are one more than in the code.  What resolving a page does is   *)
(* in PageFault; here it is an entry of handled.                           *)
(***************************************************************************)
EXTENDS Naturals, Sequences, FiniteSets

CONSTANTS
    Pages,     \* page indices
    MaxBatch,  \* UFTA_WORKER_RING_SIZE: what one drain takes at most
    MaxRun     \* UFTA_WORKER_BATCH_MAX / page_size

ASSUME BatchAssumption ==
    Pages \subseteq Nat /\ MaxBatch \in Nat \ {0} /\ MaxRun \in Nat \ {0}

VARIABLES
    request,  \* the batch as it was drained (history)
    idx,      \* w->batch_idx
    pc,       \* "sort", "shift", "walk", "extend", "resolve" or "done"
    i, j,     \* the indices of the sort; i is also that of the walk
    key,      \* the key of the sort; the start of the run in the walk
    runLen,   \* run_len
    k,        \* the index in the run
    handled   \* the pages resolved, in order (history)

vars == <<request, idx, pc, i, j, key, runLen, k, handled>>

Init ==
    /\ request \in UNION {[1 .. n -> Pages] : n \in 1 .. MaxBatch}
    /\ idx = request
    /\ pc = "sort" /\ i = 2 /\ j = 1 /\ key = 0
    /\ runLen = 0 /\ k = 0 /\ handled = <<>>

-----------------------------------------------------------------------------
(* Insertion sort                                                          *)

TakeKey ==
    /\ pc = "sort" /\ i <= Len(idx)
    /\ key' = idx[i] /\ j' = i /\ pc' = "shift"
    /\ UNCHANGED <<request, idx, i, runLen, k, handled>>

\* Mutant: the first entry is never compared (j > 1 in the code).
MustShiftNotFirst == j > 2 /\ idx[j - 1] > key

MustShift == j > 1 /\ idx[j - 1] > key

Shift ==
    /\ pc = "shift" /\ MustShift
    /\ idx' = [idx EXCEPT ![j] = idx[j - 1]] /\ j' = j - 1
    /\ UNCHANGED <<request, pc, i, key, runLen, k, handled>>

Place ==
    /\ pc = "shift" /\ ~MustShift
    /\ idx' = [idx EXCEPT ![j] = key] /\ i' = i + 1 /\ pc' = "sort"
    /\ UNCHANGED <<request, j, key, runLen, k, handled>>

SortDone ==
    /\ pc = "sort" /\ i > Len(idx)
    /\ pc' = "walk" /\ i' = 1
    /\ UNCHANGED <<request, idx, j, key, runLen, k, handled>>

-----------------------------------------------------------------------------
(* Walk over the runs                                                      *)

StartRun ==
    /\ pc = "walk" /\ i <= Len(idx)
    /\ key' = idx[i] /\ runLen' = 1 /\ pc' = "extend"
    /\ UNCHANGED <<request, idx, i, j, k, handled>>

\* Mutant: a request that comes twice lengthens the run.
ExtendsUpTo == /\ i + runLen <= Len(idx)
               /\ idx[i + runLen] <= key + runLen
               /\ runLen + 1 <= MaxRun

\* Mutant: the cap is tested before the page is counted.
ExtendsLate == /\ i + runLen <= Len(idx)
               /\ idx[i + runLen] = key + runLen
               /\ runLen <= MaxRun

Extends == /\ i + runLen <= Len(idx)
           /\ idx[i + runLen] = key + runLen
           /\ runLen + 1 <= MaxRun

Extend ==
    /\ pc = "extend" /\ Extends
    /\ runLen' = runLen + 1
    /\ UNCHANGED <<request, idx, pc, i, j, key, k, handled>>

RunFound ==
    /\ pc = "extend" /\ ~Extends
    /\ pc' = "resolve" /\ k' = 0
    /\ UNCHANGED <<request, idx, i, j, key, runLen, handled>>

Resolve ==
    /\ pc = "resolve" /\ k < runLen
    /\ handled' = Append(handled, key + k) /\ k' = k + 1
    /\ UNCHANGED <<request, idx, pc, i, j, key, runLen>>

\* Mutant: the walk goes on with the next entry.
EndRunByOne ==
    /\ pc = "resolve" /\ k >= runLen
    /\ i' = i + 1 /\ pc' = "walk"
    /\ UNCHANGED <<request, idx, j, key, runLen, k, handled>>

EndRun ==
    /\ pc = "resolve" /\ k >= runLen
    /\ i' = i + runLen /\ pc' = "walk"
    /\ UNCHANGED <<request, idx, j, key, runLen, k, handled>>

Return ==
    /\ pc = "walk" /\ i > Len(idx)
    /\ pc' = "done"
    /\ UNCHANGED <<request, idx, i, j, key, runLen, k, handled>>

Next ==
    \/ TakeKey \/ Shift \/ Place \/ SortDone
    \/ StartRun \/ Extend \/ RunFound \/ Resolve \/ EndRun \/ Return

Spec == Init /\ [][Next]_vars

\* The batch is a sequential computation: the worker thread keeps running.
FairSpec == Spec /\ WF_vars(Next)

-----------------------------------------------------------------------------
(* Properties                                                              *)

Count(s, p) == Cardinality({m \in DOMAIN s: s[m] = p})

(* A run never passes the cap of one transfer, and stops before it only at a *)
(* gap, a repeated page or the end of the batch (pagefault.c:216-220).       *)
RunsCapped ==
    pc = "resolve" =>
        /\ runLen <= MaxRun
        /\ runLen = MaxRun \/ i + runLen > Len(idx)
             \/ idx[i + runLen] # idx[i + runLen - 1] + 1

Sorted == INSTANCE SortedBatch WITH
    rest <- [p \in Pages |-> Count(request, p) - Count(handled, p)],
    latest <- IF handled = <<>> THEN <<>> ELSE <<handled[Len(handled)]>>

(* Sorting in place and resolving whole runs handles exactly the requested   *)
(* pages, in ascending order, each as often as it was requested - also where *)
(* a page was requested twice, and where a run was cut at the cap.           *)
ImplementsSortedBatch == Sorted!SortedSpec

(* The batch ends, with every request handled: the worker reaches wake_all   *)
(* (worker.c:189) and no request of the batch is left behind.                *)
BatchEnds == <>(pc = "done" /\ Len(handled) = Len(request))
=============================================================================
