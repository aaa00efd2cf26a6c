------------------------------ MODULE Storage ------------------------------
(***************************************************************************)
(* The clients of backend.c, a kind of them in each behaviour: runs of     *)
(* "uvm run" on a file of theirs (RunCommand), which their first call      *)
(* empties; processes that use the functions of backend.h in any order     *)
(* (Backend); a writer and a reader of a file in the text format           *)
(* (TextFormat).                                                           *)
(***************************************************************************)
EXTENDS RunCommand, TextFormat

VARIABLE client   \* "command", "caller" or "text"

storageVars == <<vars, textVars, client>>

StorageInit == Init /\ TextInit /\ client \in {"command", "caller", "text"}

CommandStep == client = "command" /\ Next
CallerStep ==
    client = "caller" /\ BackendNext /\ UNCHANGED <<pc, handled, running, stop>>
TextStep == client = "text" /\ TextNext

StorageNext ==
    \/ (CommandStep \/ CallerStep) /\ UNCHANGED <<textVars, client>>
    \/ TextStep /\ UNCHANGED <<vars, client>>

\* The kernel schedules the process of the command, as in FairSpec.
StorageSpec ==
    /\ StorageInit /\ [][StorageNext]_storageVars
    /\ WF_vars(client = "command" /\ Command)
=============================================================================
