----------------------------- MODULE RunCommand -----------------------------
(***************************************************************************)
(* The command "uvm run" (cmd_run) over the backend file: installation of  *)
(* the signal handler, creation and opening of the file, the loop of       *)
(* pipeline_run, flush and close.  SIGINT and SIGTERM come at any time,    *)
(* and the handler only clears g_rt.running.                               *)
(*                                                                         *)
(* A tick works on an empty page table: cmd_run allocates no page.         *)
(***************************************************************************)
EXTENDS Backend

CONSTANT WithFile   \* --file was given

VARIABLES
    pc,       \* where cmd_run is; "off": no process
    handled,  \* sighandler is installed
    running,  \* g_rt.running
    stop      \* (history) when the handler ran: "none", "early", before
              \* pipeline_run set running, or "loop"

vars == <<backendVars, pc, handled, running, stop>>

Goto(l) == pc' = l
AfterRun == IF WithFile THEN "flush" ELSE "exit"
InLoop == pc \in {"tick", "sleep", "test"}

Init == BackendInit /\ pc = "off" /\ handled = FALSE /\ running = FALSE /\ stop = "none"

-----------------------------------------------------------------------------
\* main dispatches to cmd_run; pipeline_init clears g_rt.  The backend_t on
\* the stack is not initialised.
Start ==
    /\ pc = "off" /\ Goto("signals")
    /\ be' = Uninitialised
    /\ handled' = FALSE /\ running' = FALSE /\ stop' = "none"
    /\ UNCHANGED <<fileVars, step, ram, written, saved>>

InstallHandler ==
    /\ pc = "signals" /\ Goto(IF WithFile THEN "create" ELSE "run")
    /\ handled' = TRUE
    /\ UNCHANGED <<backendVars, running, stop>>

\* backend_create, step by step; when it fails, backend_open is skipped and
\* a warning is all.
Create ==
    /\ pc = "create"
    /\ \/ CreateOpen /\ UNCHANGED pc
       \/ Fails("create_open") /\ Goto("run") /\ UNCHANGED backendVars
    /\ UNCHANGED <<handled, running, stop>>

CreateHeader ==
    /\ pc = "create" /\ CreateWrite
    /\ Goto(IF step' = "idle" THEN "run" ELSE "create")
    /\ UNCHANGED <<handled, running, stop>>

CreateLength ==
    /\ pc = "create" /\ CreateExtend
    /\ Goto(IF Total > 1 /\ cached' = cached THEN "run" ELSE "open")
    /\ UNCHANGED <<handled, running, stop>>

OpenBackend ==
    /\ pc = "open" /\ Open /\ Goto("run")
    /\ UNCHANGED <<handled, running, stop>>

-----------------------------------------------------------------------------
(* pipeline_run                                                            *)

EnterLoop ==
    /\ pc = "run" /\ Goto("test")
    /\ running' = TRUE
    /\ UNCHANGED <<backendVars, handled, stop>>

TestRunning ==
    /\ pc = "test" /\ Goto(IF running THEN "tick" ELSE AfterRun)
    /\ UNCHANGED <<backendVars, handled, running, stop>>

\* Mutant: pipeline_tick raises the flag again.
TickRestarts ==
    /\ pc = "tick" /\ Goto("sleep")
    /\ running' = TRUE
    /\ UNCHANGED <<backendVars, handled, stop>>

\* pipeline_tick, then nanosleep, which a signal ends.
Tick ==
    /\ pc = "tick" /\ Goto("sleep")
    /\ UNCHANGED <<backendVars, handled, running, stop>>

Sleep ==
    /\ pc = "sleep" /\ Goto("test")
    /\ UNCHANGED <<backendVars, handled, running, stop>>

-----------------------------------------------------------------------------
(* The end of cmd_run: flush and close, whether or not a backend was opened. *)

\* Without an open file the calls of backend_flush fail, or act on whatever
\* the structure names.
FlushBackend ==
    /\ pc = "flush"
    /\ \/ be.fd = "open" /\ (FlushHeader \/ FlushSync)
       \/ be.fd # "open" /\ UNCHANGED backendVars
    /\ Goto(IF step' = "sync" THEN "flush" ELSE "close")
    /\ UNCHANGED <<handled, running, stop>>

CloseBackend ==
    /\ pc = "close" /\ Goto("exit")
    /\ \/ Close
       \/ be.fd # "open" /\ UNCHANGED backendVars
    /\ UNCHANGED <<handled, running, stop>>

Exit ==
    /\ pc = "exit" /\ Goto("off")
    /\ be' = Uninitialised
    /\ UNCHANGED <<fileVars, step, ram, written, saved, handled, running, stop>>

-----------------------------------------------------------------------------
\* The handler returns to the interrupted instruction; without it the signal
\* ends the process.
Interrupt ==
    /\ pc # "off"
    /\ \/ /\ handled /\ running' = FALSE
          /\ stop' = IF InLoop THEN "loop" ELSE IF stop = "none" THEN "early" ELSE stop
          /\ UNCHANGED <<backendVars, pc>>
       \/ ~handled /\ Kill /\ Goto("off") /\ UNCHANGED <<running, stop>>
    /\ UNCHANGED handled

\* SIGKILL and the power.
Crash ==
    /\ pc # "off" /\ (Kill \/ PowerFailure) /\ Goto("off")
    /\ UNCHANGED <<handled, running, stop>>

Disk == WriteBack /\ UNCHANGED <<pc, handled, running, stop>>

Command ==
    \/ InstallHandler \/ Create \/ CreateHeader \/ CreateLength \/ OpenBackend
    \/ EnterLoop \/ TestRunning \/ Tick \/ Sleep
    \/ FlushBackend \/ CloseBackend \/ Exit

Next == Start \/ Command \/ Interrupt \/ Crash \/ Disk

Spec == Init /\ [][Next]_vars

\* The kernel schedules the process; nothing makes a user start or stop it.
FairSpec == Spec /\ WF_vars(Command)

-----------------------------------------------------------------------------
(* Properties                                                              *)

(* A signal that comes while the loop runs ends the command, whatever the    *)
(* backend calls of its end return and wherever in a cycle it came           *)
(* (pipeline.c:266-278, main.c:45-49): nothing in a tick, the flush or the   *)
(* close takes the stop back or waits.                                       *)
LoopStops == stop = "loop" ~> pc = "off"

(* "Ctrl+C to stop" (main.c:343), printed once the handler is installed: a   *)
(* signal that the handler takes ends the command.                           *)
CtrlCStops == stop # "none" ~> pc = "off"

(* "Flush and close backend" (main.c:370): what is flushed and closed is a   *)
(* backend, whose structure backend_open filled.                             *)
FlushesBackend == pc \in {"flush", "close"} => be.fd # "wild"
=============================================================================
