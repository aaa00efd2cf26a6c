----------------------------- MODULE Predictor -----------------------------
(***************************************************************************)
(* The predictor's array of states (predictor.c) and the three steps of a  *)
(* tick that use it (pipeline_predict, pipeline_prioritize and             *)
(* pipeline_commit), over a page table whose pages come and go between     *)
(* ticks.                                                                  *)
(*                                                                         *)
(* A prediction is known by where it comes from: the page it was computed  *)
(* for and the tick; directions and rotations are left out.  A page's life *)
(* is its allocation: page_alloc gives the id of a freed page again.       *)
(***************************************************************************)
EXTENDS Integers, Sequences

CONSTANTS
    TableCapacity,    \* pt->capacity
    InitialCapacity,  \* 256
    MaxStates,        \* UFTA_MAX_PRED_PAGES
    MemoryFails,      \* realloc may return NULL
    MaxLives,         \* bound on allocations
    MaxTicks          \* bound on ticks

ASSUME PredictorAssumption ==
    /\ TableCapacity \in Nat /\ MaxLives \in Nat /\ MaxTicks \in Nat
    /\ InitialCapacity \in Nat \ {0} /\ MaxStates \in Nat \ {0}
    /\ MemoryFails \in BOOLEAN

VARIABLES
    pages,     \* pt->pages: id and life
    lives,     \* (history) allocations so far
    states,    \* pred->states[0 .. num_states-1]: page_id and prediction
    capacity,  \* pred->capacity
    tick,      \* rt->cycle_count
    pc, at,    \* the step of the tick and its loop, or "idle"
    learnt,    \* (history) what predictor_lms_update last compared
    reused     \* (history) a page was given an id that has a state already

predictorVars == <<pages, lives, states, capacity, tick, pc, at, learnt, reused>>

NoPrediction == [life |-> 0, tick |-> 0]         \* last_dt = 0
Nothing == [life |-> 0, from |-> NoPrediction]   \* no update in this tick

-----------------------------------------------------------------------------
(* predictor_get                                                           *)

Has(array, id) == \E k \in DOMAIN array: array[k].id = id
HasState(id) == Has(states, id)
IndexOf(id) == CHOOSE k \in DOMAIN states: states[k].id = id

\* Mutant: the limit is not applied.
DoubledUnlimited(c) == IF c = 0 THEN InitialCapacity ELSE 2 * c

\* The capacity the array would grow to.
Doubled(c) ==
    LET double == IF c = 0 THEN InitialCapacity ELSE 2 * c
    IN  IF double > MaxStates THEN MaxStates ELSE double

\* Mutant: a state is only looked for in a full array.
GetWithoutSearch(id) ==
    \/ /\ Len(states) < capacity
       /\ states' = Append(states, [id |-> id, prediction |-> NoPrediction])
       /\ UNCHANGED capacity
    \/ /\ Len(states) >= capacity /\ Len(states) < Doubled(capacity)
       /\ states' = Append(states, [id |-> id, prediction |-> NoPrediction])
       /\ capacity' = Doubled(capacity)
    \/ Len(states) >= Doubled(capacity) /\ UNCHANGED <<states, capacity>>

\* The call leaves states' with a state for the page, or unchanged when it
\* returns NULL.
Get(id) ==
    \/ HasState(id) /\ UNCHANGED <<states, capacity>>
    \/ /\ ~HasState(id) /\ Len(states) < capacity
       /\ states' = Append(states, [id |-> id, prediction |-> NoPrediction])
       /\ UNCHANGED capacity
    \/ /\ ~HasState(id) /\ Len(states) >= capacity
       /\ Len(states) < Doubled(capacity)
       /\ states' = Append(states, [id |-> id, prediction |-> NoPrediction])
       /\ capacity' = Doubled(capacity)
    \/ /\ ~HasState(id) /\ Len(states) >= capacity
       /\ Len(states) >= Doubled(capacity) \/ MemoryFails
       /\ UNCHANGED <<states, capacity>>

-----------------------------------------------------------------------------
PredictorInit ==
    /\ pages = <<>> /\ lives = 0
    /\ states = <<>> /\ capacity = 0
    /\ tick = 0 /\ pc = "idle" /\ at = 1
    /\ learnt = Nothing /\ reused = FALSE

\* page_alloc
Alloc ==
    /\ pc = "idle" /\ Len(pages) < TableCapacity /\ lives < MaxLives
    /\ pages' = Append(pages, [id |-> Len(pages) + 1, life |-> lives + 1])
    /\ lives' = lives + 1
    /\ reused' = (reused \/ HasState(Len(pages) + 1)
                         \/ \E k \in DOMAIN pages: pages[k].id = Len(pages) + 1)
    /\ UNCHANGED <<states, capacity, tick, pc, at, learnt>>

\* page_free compacts the table; the predictor is not told.
Free(k) ==
    /\ pc = "idle"
    /\ pages' = [j \in 1 .. Len(pages) - 1 |-> IF j < k THEN pages[j] ELSE pages[j + 1]]
    /\ UNCHANGED <<lives, states, capacity, tick, pc, at, learnt, reused>>

StartTick ==
    /\ pc = "idle" /\ tick < MaxTicks
    /\ pc' = "predict" /\ at' = 1 /\ tick' = tick + 1 /\ learnt' = Nothing
    /\ UNCHANGED <<pages, lives, states, capacity, reused>>

\* pipeline_predict: predictor_get for the page; a NULL skips it.
Lookup ==
    /\ pc = "predict" /\ at <= Len(pages)
    /\ Get(pages[at].id)
    /\ IF Has(states', pages[at].id)
         THEN pc' = "learn" /\ UNCHANGED at
         ELSE at' = at + 1 /\ UNCHANGED pc
    /\ UNCHANGED <<pages, lives, tick, learnt, reused>>

NewPrediction == [life |-> pages[at].life, tick |-> tick]

\* Mutant: predictor_step runs before the comparison.
StepThenLearn ==
    LET k == IndexOf(pages[at].id) IN
    /\ pc = "learn"
    /\ learnt' = IF states[k].prediction = NoPrediction THEN Nothing
                 ELSE [life |-> pages[at].life, from |-> NewPrediction]
    /\ states' = [states EXCEPT ![k].prediction = NewPrediction]
    /\ pc' = "predict" /\ at' = at + 1
    /\ UNCHANGED <<pages, lives, capacity, tick, reused>>

\* The stored prediction, if there is one, is compared with the page
\* (predictor_lms_update); then predictor_step stores the next one.
Learn ==
    LET k == IndexOf(pages[at].id) IN
    /\ pc = "learn"
    /\ learnt' = IF states[k].prediction = NoPrediction THEN Nothing
                 ELSE [life |-> pages[at].life, from |-> states[k].prediction]
    /\ states' = [states EXCEPT ![k].prediction = NewPrediction]
    /\ pc' = "predict" /\ at' = at + 1
    /\ UNCHANGED <<pages, lives, capacity, tick, reused>>

\* pipeline_prioritize asks for every page on its tier's channel, and
\* pipeline_commit for every page.
Touch ==
    /\ pc \in {"prioritize", "commit"} /\ at <= Len(pages)
    /\ Get(pages[at].id)
    /\ at' = at + 1
    /\ UNCHANGED <<pages, lives, tick, pc, learnt, reused>>

NextStep ==
    /\ pc \in {"predict", "prioritize", "commit"} /\ at > Len(pages)
    /\ pc' = CASE pc = "predict" -> "prioritize"
               [] pc = "prioritize" -> "commit"
               [] pc = "commit" -> "idle"
    /\ at' = 1
    /\ UNCHANGED <<pages, lives, states, capacity, tick, learnt, reused>>

PredictorNext == \/ Alloc \/ \E k \in DOMAIN pages: Free(k)
        \/ StartTick \/ Lookup \/ Learn \/ Touch \/ NextStep

PredictorSpec == PredictorInit /\ [][PredictorNext]_predictorVars

-----------------------------------------------------------------------------
(* Properties                                                              *)

(* Whatever the order of allocations, frees, ticks and failing reallocs, no  *)
(* page id has two states, of which the searches of predictor_step and       *)
(* predictor_error would only see the first, and the array stays within its  *)
(* capacity and its limit (predictor.c:104-139).                             *)
OneStatePerId ==
    /\ \A j, k \in DOMAIN states: states[j].id = states[k].id => j = k
    /\ Len(states) <= capacity /\ capacity <= MaxStates

(* "compare last tick's prediction against the actual current state"         *)
(* (pipeline.c:86-91): where no id was given twice, an update compares a     *)
(* page with the prediction made for it in the tick before, and never with   *)
(* an older one, though memory may be short for some ticks.                  *)
LearnsFromLastTick ==
    learnt # Nothing /\ ~reused =>
        learnt.from = [life |-> learnt.life, tick |-> tick - 1]

(* The same comment, for every page: what an update compares a page with is  *)
(* a prediction made for that page.                                          *)
LearnsFromOwnPage == learnt # Nothing => learnt.from.life = learnt.life

(* "Ensure predictor has state for this page" (pipeline.c:82): after the     *)
(* step, if memory is there, every page has one, as long as there are not    *)
(* more pages than states.                                                   *)
EveryPageHasState ==
    pc = "prioritize" /\ ~MemoryFails /\ Len(pages) <= MaxStates =>
        \A k \in DOMAIN pages: HasState(pages[k].id)
=============================================================================
