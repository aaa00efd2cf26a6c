----------------------------- MODULE Dashboard -----------------------------
(***************************************************************************)
(* The command "uvm gui" (cmd_gui): the main thread sets the runtime up,   *)
(* starts the pipeline's thread and draws its numbers (ufta_gui_run) until *)
(* the window is closed, then stops the thread and frees the runtime.  The *)
(* two threads share everything and lock nothing.                          *)
(*                                                                         *)
(* Pages have one size.  Which pages a tick moves is Migration's question; *)
(* here it may move any.  A tick's duration stands for its metrics.        *)
(***************************************************************************)
EXTENDS Integers, Sequences, FiniteSets, FiniteSetsExt, SequencesExt

CONSTANTS
    Pages,       \* pages of the page table
    Tiers,       \* tiers, in the order of the registry: 0 is RAM, 1 VRAM
    Durations,   \* durations of a tick
    Window,      \* UFTA_GUI_MAX_SAMPLES
    MaxSamples,  \* bound on samples
    MaxMoves     \* bound on migrations

ASSUME DashboardAssumption ==
    /\ IsFiniteSet(Pages)
    /\ IsFiniteSet(Tiers) /\ Tiers = 0 .. Cardinality(Tiers) - 1
    /\ Durations \subseteq Nat \ {0} /\ Window \in Nat \ {0}
    /\ MaxSamples \in Nat /\ MaxMoves \in Nat

VARIABLES
    main,      \* where cmd_gui is
    live,      \* what it has allocated
    running,   \* gs.running
    thread,    \* where the pipeline's thread is; "none" before, "ended" after
    tier,      \* p->tier_id
    used,      \* tiers[t].used, in pages
    moving,    \* the pages this tick may still move, and the one on its way
    stats,     \* migrator.stats.total_bytes_moved, in pages
    duration,  \* rt.metrics.total_cycle_us, 0 before the first tick
    snap,      \* gs.snap: pointers set, vram_recovered_mb
    window,    \* hist_cycle_us and hist_vram_mb [0 .. hist_count-1]
    samples,   \* (history) every sample
    drawn,     \* (history) used, tier by tier, as the current frame drew it
    still,     \* (history) no page was on its way since the frame began
    closing    \* the window was closed, or could not be opened

shared == <<tier, used, stats, duration, snap>>
vars == <<main, live, running, thread, shared, moving, window, samples, drawn, still, closing>>

Population(t) == Cardinality({p \in Pages: tier[p] = t})

-----------------------------------------------------------------------------
(* cmd_gui, before the window                                              *)

\* The page table holds the pages pf_page_evict has spread: half to VRAM, a
\* quarter to FILE, whatever of that failed stays in RAM.
Init ==
    /\ main = "tables" /\ live = {} /\ running = TRUE /\ thread = "none"
    /\ tier \in [Pages -> Tiers]
    /\ used = [t \in Tiers |-> Population(t)]
    /\ moving = {} /\ stats = 0 /\ duration = 0
    /\ snap = [set |-> FALSE, vram |-> 0]
    /\ window = <<>> /\ samples = <<>> /\ drawn = <<>>
    /\ still = TRUE /\ closing = FALSE

Tables == {"pages", "map", "predictor"}

mainOnly == <<running, thread, shared, moving, window, samples, drawn, still, closing>>

InitTables ==
    /\ main = "tables" /\ main' = "faults" /\ live' = Tables
    /\ UNCHANGED mainOnly

\* Without pf_init nothing is freed before the return.
InitFaults ==
    /\ main = "faults"
    /\ \/ main' = "pages" /\ live' = live \cup {"pf"}
       \/ main' = "exited" /\ UNCHANGED live
    /\ UNCHANGED mainOnly

\* pf_page_alloc for every page, evictions, page_alloc; only the first can
\* end the command.
CreatePages ==
    /\ main = "pages"
    /\ \/ main' = "spawn" /\ UNCHANGED live
       \/ main' = "exited" /\ live' = live \ {"pf"}
    /\ UNCHANGED mainOnly

Spawn ==
    /\ main = "spawn"
    /\ \/ main' = "window" /\ thread' = "test" /\ UNCHANGED live
       \/ main' = "exited" /\ live' = live \ {"pf"} /\ UNCHANGED thread
    /\ UNCHANGED <<running, shared, moving, window, samples, drawn, still, closing>>

-----------------------------------------------------------------------------
(* gui_pipeline_thread                                                     *)

guiFrame == <<main, live, running, window, samples, drawn, closing>>
threadOnly == <<guiFrame, still>>

TestRunning ==
    /\ thread = "test"
    /\ thread' = IF running THEN "migrate" ELSE "ended"
    /\ moving' = IF running THEN Pages ELSE {}
    /\ UNCHANGED <<shared, threadOnly>>

\* migrate_execute takes the page out of its tier ...
MoveOut(p) ==
    /\ thread = "migrate" /\ p \in moving /\ stats < MaxMoves
    /\ used' = [used EXCEPT ![tier[p]] = @ - 1]
    /\ moving' = {p} /\ thread' = "arrive" /\ still' = FALSE
    /\ UNCHANGED <<tier, stats, duration, snap, guiFrame>>

\* Mutant: the page has moved, and its tier was not told.
MoveInUntold(t) ==
    /\ thread = "arrive"
    /\ LET p == CHOOSE q \in moving: TRUE IN
       /\ t # tier[p]
       /\ tier' = [tier EXCEPT ![p] = t]
       /\ moving' = {q \in Pages: q > p}
    /\ stats' = stats + 1
    /\ thread' = "migrate"
    /\ UNCHANGED <<used, duration, snap, threadOnly>>

\* ... and puts it into the other; the rest of the queue follows it.
MoveIn(t) ==
    /\ thread = "arrive"
    /\ LET p == CHOOSE q \in moving: TRUE IN
       /\ t # tier[p]
       /\ tier' = [tier EXCEPT ![p] = t]
       /\ moving' = {q \in Pages: q > p}
    /\ used' = [used EXCEPT ![t] = @ + 1]
    /\ stats' = stats + 1
    /\ thread' = "migrate"
    /\ UNCHANGED <<duration, snap, threadOnly>>

EndTick ==
    /\ thread = "migrate" /\ thread' = "publish"
    /\ duration' \in Durations /\ moving' = {}
    /\ UNCHANGED <<tier, used, stats, snap, threadOnly>>

\* The pointers, the derived values; then nanosleep.
Publish ==
    /\ thread = "publish" /\ thread' = "test"
    /\ snap' = [set |-> TRUE, vram |-> stats]
    /\ UNCHANGED <<tier, used, stats, duration, moving, threadOnly>>

-----------------------------------------------------------------------------
(* ufta_gui_run                                                            *)

\* SDL_Init, the window or the context may fail, and the stub of builds
\* without SDL always does.
OpenWindow ==
    /\ main = "window"
    /\ \/ main' = "poll" /\ UNCHANGED closing
       \/ main' = "stop" /\ closing' = TRUE
    /\ UNCHANGED <<live, running, thread, shared, moving, window, samples, drawn, still>>

CloseWindow ==
    /\ main \in {"poll", "sample", "draw"} /\ ~closing /\ closing' = TRUE
    /\ UNCHANGED <<main, live, running, thread, shared, moving, window, samples, drawn, still>>

guiOnly == <<live, running, thread, shared, moving, closing>>

\* The frame is drawn once more after the event.
Poll ==
    /\ main = "poll" /\ main' = "sample"
    /\ drawn' = <<>> /\ still' = (thread # "arrive")
    /\ UNCHANGED <<guiOnly, window, samples>>

Measured == [cycle |-> IF snap.set THEN duration ELSE 0, vram |-> snap.vram]

\* Mutant: a full window is not shifted.
PushedInPlace(w, s) == IF Len(w) < Window THEN Append(w, s) ELSE [w EXCEPT ![Window] = s]

\* The samples fill the window, then shift it.
Pushed(w, s) == IF Len(w) < Window THEN Append(w, s) ELSE Append(Tail(w), s)

\* Every tenth of a second; frames in between take none.
Sample ==
    /\ main = "sample" /\ main' = "draw"
    /\ \/ /\ Len(samples) < MaxSamples
          /\ window' = Pushed(window, Measured)
          /\ samples' = Append(samples, Measured)
       \/ UNCHANGED <<window, samples>>
    /\ UNCHANGED <<guiOnly, drawn, still>>

\* render_frame: the bar of the next tier, read through the pointer.
DrawTier ==
    /\ main = "draw" /\ snap.set /\ Len(drawn) < Cardinality(Tiers)
    /\ drawn' = Append(drawn, used[Len(drawn)])
    /\ UNCHANGED <<main, guiOnly, window, samples, still>>

EndFrame ==
    /\ main = "draw"
    /\ Len(drawn) = Cardinality(Tiers) \/ (drawn = <<>> /\ ~snap.set)
    /\ main' = IF closing THEN "stop" ELSE "poll"
    /\ UNCHANGED <<guiOnly, window, samples, drawn, still>>

-----------------------------------------------------------------------------
(* cmd_gui, after the window                                               *)

\* Mutant: the thread is not told.
StopUntold ==
    /\ main = "stop" /\ main' = "join"
    /\ UNCHANGED <<live, mainOnly>>

Stop ==
    /\ main = "stop" /\ main' = "join" /\ running' = FALSE
    /\ UNCHANGED <<live, thread, shared, moving, window, samples, drawn, still, closing>>

\* Mutant: nobody waits for the thread.
JoinWithoutWait ==
    /\ main = "join" /\ main' = "free"
    /\ UNCHANGED <<live, mainOnly>>

Join ==
    /\ main = "join" /\ thread = "ended" /\ main' = "free"
    /\ UNCHANGED <<live, mainOnly>>

FreeOrder == <<"pages", "map", "predictor", "pf">>

Free ==
    /\ main = "free"
    /\ IF live = {} THEN main' = "exited" /\ UNCHANGED live
       ELSE live' = live \ {Head(SelectSeq(FreeOrder, LAMBDA r: r \in live))} /\ UNCHANGED main
    /\ UNCHANGED mainOnly

-----------------------------------------------------------------------------
Setup == InitTables \/ InitFaults \/ CreatePages \/ Spawn \/ OpenWindow
Frame == Poll \/ Sample \/ DrawTier \/ EndFrame
Shutdown == Stop \/ Join \/ Free

PipelineThread ==
    \/ TestRunning \/ EndTick \/ Publish
    \/ \E p \in Pages: MoveOut(p)
    \/ \E t \in Tiers: MoveIn(t)

\* The process is gone.
Exited == main = "exited" /\ UNCHANGED vars

Next == Setup \/ Frame \/ Shutdown \/ PipelineThread \/ CloseWindow \/ Exited

Spec == Init /\ [][Next]_vars

\* The kernel schedules both threads; nothing makes the user close the window.
FairSpec == Spec /\ WF_vars(Setup \/ Frame \/ Shutdown) /\ WF_vars(PipelineThread)

-----------------------------------------------------------------------------
(* Properties                                                              *)

(* Whatever the thread and the frame are doing when the window is closed,    *)
(* neither uses what cmd_gui has freed (main.c:1731-1742): the thread has    *)
(* every table as long as it may run a tick, the frame has the page faults'  *)
(* context it points to.                                                     *)
NoUseAfterFree ==
    /\ thread \notin {"none", "ended"} => Tables \subseteq live
    /\ (main \in {"sample", "draw"} \/ thread = "publish") => "pf" \in live

(* The chart is the last samples, in their order, when the window is full as *)
(* when it is not (gui.c:503-533).                                           *)
WindowIsLatest ==
    window = SubSeq(samples, Len(samples) - Len(window) + 1, Len(samples))
        /\ Len(window) = Min({Window, Len(samples)})

(* Closing the window ends the command, wherever the pipeline's thread is in *)
(* a tick then; so does a window that cannot be opened, in a build without   *)
(* SDL too (main.c:1731-1736, gui_stub.c:8-17).                              *)
CloseEnds == closing ~> main = "exited"

(* A frame that no move disturbs shows in every tier the pages that are      *)
(* there, and so every page in one tier, whatever was moved before it and    *)
(* wherever the pipeline's thread is (gui.c:360-376, migrate.c:158-182).     *)
StillFrameIsWhole ==
    still => \A n \in DOMAIN drawn: drawn[n] = Population(n - 1)

(* "Snapshot of live metrics fed to the GUI each frame" (gui.h:35): the       *)
(* tiers of a frame are those of one moment, with every page in one of them. *)
FrameIsSnapshot ==
    Len(drawn) = Cardinality(Tiers) =>
        SumFunction(drawn) = Cardinality(Pages)
=============================================================================
