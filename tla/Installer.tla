----------------------------- MODULE Installer -----------------------------
(***************************************************************************)
(* The Windows installer (installer-main.c) over a payload of pack-payload *)
(* (pack-payload.c): installation and removal, run one after the other in  *)
(* any order, on a disk whose calls may fail and with a user who may end   *)
(* the installer at any point.  An installation looks for the payload in   *)
(* the installer's own file first, which is PayloadSearch.                 *)
(*                                                                         *)
(* A file is its directory and its name; what is in it is left out.        *)
(***************************************************************************)
EXTENDS PayloadSearch, Sequences

CONSTANTS
    Staged,    \* the files build-installer-exe.bat packs: directory and name
    DiskFails, \* a call on the disk may fail
    MaxRuns    \* bound on runs of the installer

ASSUME InstallerAssumption ==
    Staged \in Seq(STRING \X STRING) /\ DiskFails \in BOOLEAN /\ MaxRuns \in Nat

VARIABLES
    phase,   \* where the installer is; "idle": it does not run
    dirs,    \* directories under the prefix
    files,   \* files: directory and name
    entry,   \* the payload entry that comes next
    said,    \* the last message or return of the last run
    runs,    \* (history) runs so far
    before   \* (history) the files when the run began

installing == <<phase, dirs, files, entry, said, runs, before>>
installerVars == <<vars, installing>>

-----------------------------------------------------------------------------
(* pack-payload: the entry of a file has its name without the path.          *)

Packed(staged) == staged[2]

Payload == [j \in DOMAIN Staged |-> Packed(Staged[j])]

-----------------------------------------------------------------------------
(* Windows                                                                 *)

\* CopyFileA creates no directory.
Copied(from, to) ==
    IF from \in files /\ to[1] \in dirs THEN {to} ELSE {}

Empty(dir) == \A f \in files: f[1] # dir

\* A group of calls whose results nobody looks at: any of them may fail.
Some(set) == IF DiskFails THEN SUBSET set ELSE {set}

InstallerInit ==
    /\ Init
    /\ phase = "idle" /\ dirs = {} /\ files = {}
    /\ entry = 1 /\ said = "nothing" /\ runs = 0 /\ before = {}

Begin(command) ==
    /\ phase = "idle" /\ runs < MaxRuns
    /\ phase' = command /\ entry' = 1 /\ said' = "nothing"
    /\ runs' = runs + 1 /\ before' = files
    /\ UNCHANGED <<vars, dirs, files>>

\* The end of the process, and of what its search had read.
Return(message) ==
    /\ phase' = "idle" /\ said' = message
    /\ at' = 0 /\ pos' = 0 /\ n' = 0 /\ i' = 0 /\ pc' = "read" /\ result' = -1
    /\ UNCHANGED file

-----------------------------------------------------------------------------
(* do_install                                                              *)

MakeDirectories ==
    /\ phase = "install" /\ phase' = "search"
    /\ \E made \in Some({"bin", "lib", "tmp"}): dirs' = dirs \cup made
    /\ UNCHANGED <<vars, files, entry, said, runs, before>>

\* find_payload_offset, step by step
FindPayload ==
    /\ phase = "search" /\ Search
    /\ phase' = IF pc' = "done" THEN "extract" ELSE "search"
    /\ UNCHANGED <<dirs, files, entry, said, runs, before>>

\* Mutant: entries go to where they belong in the end.
ExtractInPlace ==
    /\ phase = "extract" /\ result # -1 /\ entry <= Len(Payload)
    /\ files' = files \cup {<<"bin", Payload[entry]>>}
    /\ entry' = entry + 1 /\ dirs' = dirs \cup {"bin"}
    /\ UNCHANGED <<vars, phase, said, runs, before>>

\* extract_payload makes the directories of an entry and writes its file;
\* nobody looks at the result of fwrite.
Extract ==
    /\ phase = "extract" /\ result # -1 /\ entry <= Len(Payload)
    /\ files' = files \cup {<<"tmp", Payload[entry]>>}
    /\ entry' = entry + 1 /\ dirs' = dirs \cup {"tmp"}
    /\ UNCHANGED <<vars, phase, said, runs, before>>

\* No marker, a payload that does not begin behind the marker found (the
\* model's payload does), an entry that is cut, no memory, a file that
\* cannot be made.
ExtractFails ==
    /\ phase = "extract"
    /\ Return("failed")
    /\ UNCHANGED <<dirs, files, entry, runs, before>>

\* The end mark, or the end of the file between two entries.
EndOfPayload ==
    /\ phase = "extract" /\ result # -1 /\ (entry > Len(Payload) \/ DiskFails)
    /\ phase' = "copy"
    /\ UNCHANGED <<vars, dirs, files, entry, said, runs, before>>

CopyFiles ==
    /\ phase = "copy" /\ phase' = "launcher"
    /\ \E done \in Some(
             Copied(<<"tmp\\bin", "uvm.exe">>, <<"bin\\bin", "uvm.exe">>)
        \cup Copied(<<"tmp\\bin", "uvm-gui.exe">>, <<"bin\\bin", "uvm-gui.exe">>)
        \cup Copied(<<"tmp\\lib", "SDL2.dll">>, <<"lib", "SDL2.dll">>)
        \cup Copied(<<"tmp\\lib", "opengl32.dll">>, <<"lib", "opengl32.dll">>)):
         files' = files \cup done
    /\ UNCHANGED <<vars, dirs, entry, said, runs, before>>

Launcher == {<<"bin", "ufta-vmm.bat">>}
Shortcuts == {<<"start menu", "UFTA-VMM.lnk">>, <<"desktop", "UFTA-VMM.lnk">>}

CreateLauncher ==
    /\ phase = "launcher" /\ phase' = "shortcuts"
    /\ \E made \in Some(IF "bin" \in dirs THEN Launcher ELSE {}): files' = files \cup made
    /\ UNCHANGED <<vars, dirs, entry, said, runs, before>>

CreateShortcuts ==
    /\ phase = "shortcuts" /\ phase' = "clean"
    /\ \E made \in Some(Shortcuts): files' = files \cup made
    /\ UNCHANGED <<vars, dirs, entry, said, runs, before>>

\* rmdir /s /q of the temporary directory
CleanUp ==
    /\ phase = "clean" /\ Return("installed")
    /\ \E gone \in Some({f \in files: f[1] = "tmp"}):
          /\ files' = files \ gone
          /\ dirs' = IF \A f \in files': f[1] # "tmp" THEN dirs \ {"tmp"} ELSE dirs
    /\ UNCHANGED <<entry, runs, before>>

-----------------------------------------------------------------------------
(* do_uninstall                                                            *)

Binaries == {<<"bin", "uvm.exe">>, <<"bin", "uvm-gui.exe">>}

DeleteBinaries ==
    /\ phase = "uninstall" /\ phase' = "remove directories"
    /\ \E gone \in Some(Binaries \cup Launcher): files' = files \ gone
    /\ UNCHANGED <<vars, dirs, entry, said, runs, before>>

\* RemoveDirectoryA takes empty directories only.
RemoveDirectories ==
    /\ phase = "remove directories" /\ phase' = "remove shortcuts"
    /\ \E gone \in Some({d \in {"bin", "lib"}: Empty(d)}): dirs' = dirs \ gone
    /\ UNCHANGED <<vars, files, entry, said, runs, before>>

RemoveShortcuts ==
    /\ phase = "remove shortcuts" /\ Return("removed")
    /\ \E gone \in Some(Shortcuts): files' = files \ gone
    /\ UNCHANGED <<dirs, entry, runs, before>>

-----------------------------------------------------------------------------
\* The console window is closed, or the machine goes down.
Kill ==
    /\ phase # "idle" /\ Return("killed")
    /\ UNCHANGED <<dirs, files, entry, runs, before>>

Install ==
    \/ MakeDirectories \/ FindPayload \/ Extract \/ ExtractFails \/ EndOfPayload \/ CopyFiles
    \/ CreateLauncher \/ CreateShortcuts \/ CleanUp

Uninstall == DeleteBinaries \/ RemoveDirectories \/ RemoveShortcuts

InstallerNext == Begin("install") \/ Begin("uninstall") \/ Install \/ Uninstall \/ Kill

InstallerSpec == InstallerInit /\ [][InstallerNext]_installerVars

\* The search runs on until it returns.
FairInstallerSpec == InstallerSpec /\ WF_installerVars(FindPayload)

-----------------------------------------------------------------------------
(* Properties                                                              *)

Outside(set) == {f \in set: f[1] # "tmp"}

(* The search comes to an end in every file, although it goes back behind    *)
(* every full block (installer-main.c:104-121): no installation hangs in it. *)
SearchReturns == phase = "search" ~> phase # "search"

(* An installation that fails leaves the installation there was, if any, as   *)
(* it was, whatever earlier runs left behind: all it has touched is its      *)
(* temporary directory (installer-main.c:343-350).                           *)
FailureKeepsInstalled ==
    said = "failed" => Outside(files) = Outside(before)

(* "instalado com sucesso!" (installer-main.c:411): then the programs the     *)
(* launcher and the shortcuts start are there.                               *)
InstalledIsThere == said = "installed" => Binaries \subseteq files
=============================================================================
