------------------------ MODULE PayloadSearchProofs ------------------------
(***************************************************************************)
(* The installer's search finds the first marker, for every block size,    *)
(* marker, file length and place of the markers.  SearchInv is inductive:  *)
(* every marker lies at or behind the scan, and a block that is not full   *)
(* is the file's last.  Then the installer, for every list of staged files *)
(* and however its calls fail or its user ends it: the search in each of   *)
(* its runs, and what a failed installation leaves.                        *)
(***************************************************************************)
EXTENDS Installer, TLAPS

(* The initial states: nothing is read, so nothing can have been missed.     *)
LEMMA InitEstablishes == Init => SearchInv
  BY SearchAssumption DEF Init, SearchInv, TypeOK, FindsFirst

(* fread brings no more than the file holds, nor more than the block.        *)
LEMMA GotBounds ==
  ASSUME SearchInv, pc = "read"
  PROVE  /\ Got \in 0 .. Block /\ at + Got <= length
         /\ Got < Block => at + Got = length
  BY SearchAssumption DEF SearchInv, TypeOK, Got

(* A block is read: every marker lies at or behind its start.                *)
LEMMA ReadPreserves == SearchInv /\ Read => SearchInv'
  <1> SUFFICES ASSUME SearchInv, Read PROVE SearchInv'
    OBVIOUS
  <1>1. /\ Got \in 0 .. Block /\ at + Got <= length
        /\ Got < Block => at + Got = length
    BY GotBounds DEF Read
  <1>2. TypeOK'
    BY <1>1, SearchAssumption DEF SearchInv, TypeOK, Read, file
  <1>3. pc' = "scan" /\ at' = pos' + n' /\ pos' + i' = pos
    BY <1>1, SearchAssumption DEF SearchInv, TypeOK, Read, file
  <1> QED
    BY <1>1, <1>2, <1>3, SearchAssumption DEF SearchInv, TypeOK, Read, file, FindsFirst

(* At the end of the file no marker fits behind the scan.                    *)
LEMMA NotFoundPreserves == SearchInv /\ NotFound => SearchInv'
  <1> SUFFICES ASSUME SearchInv, NotFound PROVE SearchInv'
    OBVIOUS
  <1>1. at = length /\ pos = length
    BY SearchAssumption DEF SearchInv, TypeOK, NotFound, Got
  <1>2. matches = {}
    <2> SUFFICES ASSUME NEW m \in matches PROVE FALSE
      OBVIOUS
    <2> QED
      BY <1>1, SearchAssumption DEF SearchInv, TypeOK, NotFound
  <1> QED
    BY <1>2, SearchAssumption DEF SearchInv, TypeOK, NotFound, file, FindsFirst

(* The marker under the scan is the first one.                               *)
LEMMA FoundPreserves == SearchInv /\ Found => SearchInv'
  <1> SUFFICES ASSUME SearchInv, Found PROVE SearchInv'
    OBVIOUS
  <1>1. result' \in Int /\ result' - Marker = pos + i
    BY SearchAssumption DEF SearchInv, TypeOK, Found
  <1> QED
    BY <1>1, SearchAssumption DEF SearchInv, TypeOK, Found, file, FindsFirst

(* Where there is no marker, the scan may go on.                             *)
LEMMA AdvancePreserves == SearchInv /\ Advance => SearchInv'
  <1> SUFFICES ASSUME SearchInv, Advance PROVE SearchInv'
    OBVIOUS
  <1>1. \A m \in matches: pos + (i + 1) <= m
    BY SearchAssumption DEF SearchInv, TypeOK, Advance
  <1> QED
    BY <1>1, SearchAssumption DEF SearchInv, TypeOK, Advance, file, FindsFirst

(* The next block begins where the scan stopped, or at the end of the file.  *)
LEMMA NextBlockPreserves == SearchInv /\ NextBlock => SearchInv'
  <1> SUFFICES ASSUME SearchInv, NextBlock PROVE SearchInv'
    OBVIOUS
  <1>1. /\ pc' = "read" /\ matches' = matches /\ length' = length
        /\ n' = n /\ i' = i /\ result' = result
        /\ at' = at - Back /\ pos' = pos + n - Back
    BY DEF NextBlock, file
  <1>2. CASE n = Block
    <2>1. at' = at - (Marker - 1) /\ pos' = at'
      BY <1>1, <1>2, SearchAssumption DEF SearchInv, TypeOK, NextBlock, Back
    <2>2. at' \in Nat /\ at' <= length
      BY <2>1, <1>2, SearchAssumption DEF SearchInv, TypeOK, NextBlock
    <2>3. \A m \in matches: pos' <= m
      BY <2>1, <1>2, SearchAssumption DEF SearchInv, TypeOK, NextBlock
    <2> QED
      BY <1>1, <2>1, <2>2, <2>3, SearchAssumption DEF SearchInv, TypeOK, FindsFirst
  <1>3. CASE n # Block
    <2>1. at' = length /\ pos' = length
      BY <1>1, <1>3, SearchAssumption DEF SearchInv, TypeOK, NextBlock, Back
    <2>2. \A m \in matches: FALSE
      BY <1>3, SearchAssumption DEF SearchInv, TypeOK, NextBlock
    <2> QED
      BY <1>1, <2>1, <2>2, SearchAssumption DEF SearchInv, TypeOK, FindsFirst
  <1> QED
    BY <1>2, <1>3

LEMMA StepPreserves == SearchInv /\ [Next]_vars => SearchInv'
  <1> SUFFICES ASSUME SearchInv, [Next]_vars PROVE SearchInv'
    OBVIOUS
  <1>1. CASE Read
    BY <1>1, ReadPreserves
  <1>2. CASE NotFound
    BY <1>2, NotFoundPreserves
  <1>3. CASE Found
    BY <1>3, FoundPreserves
  <1>4. CASE Advance
    BY <1>4, AdvancePreserves
  <1>5. CASE NextBlock
    BY <1>5, NextBlockPreserves
  <1>6. CASE UNCHANGED vars
    BY <1>6 DEF SearchInv, TypeOK, FindsFirst, Got, vars, file
  <1> QED
    BY <1>1, <1>2, <1>3, <1>4, <1>5, <1>6 DEF Next, Search, Finished

(* The search returns the offset behind the first marker, and -1 only when    *)
(* there is none, for every block at least as long as the marker             *)
(* (installer-main.c:93-122).                                                *)
THEOREM SearchFindsFirst == Spec => []FindsFirst
  <1>1. SearchInv => FindsFirst
    BY DEF SearchInv
  <1> QED
    BY InitEstablishes, StepPreserves, <1>1, PTL DEF Spec

-----------------------------------------------------------------------------
(* The installer                                                           *)

(* The end of a run forgets its search: the next one begins like the first.  *)
LEMMA ReturnPreserves ==
  ASSUME SearchInv, NEW message, Return(message)
  PROVE  SearchInv'
  <1>1. /\ at' = 0 /\ pos' = 0 /\ n' = 0 /\ i' = 0 /\ pc' = "read" /\ result' = -1
        /\ length' = length /\ matches' = matches
    BY DEF Return, file
  <1> QED
    BY <1>1 DEF SearchInv, TypeOK, FindsFirst

RunEnds == \E message \in {"failed", "installed", "removed", "killed"}: Return(message)

(* Every step of the installer makes a step of the search, ends the run, or  *)
(* leaves the search alone.                                                  *)
LEMMA InstallerSearches ==
  ASSUME [InstallerNext]_installerVars
  PROVE  Search \/ UNCHANGED vars \/ RunEnds
  <1>1. CASE \E command \in {"install", "uninstall"}: Begin(command)
    BY <1>1 DEF Begin
  <1>2. CASE FindPayload
    BY <1>2 DEF FindPayload
  <1>3. CASE ExtractFails \/ CleanUp \/ RemoveShortcuts \/ Kill
    BY <1>3, Zenon DEF ExtractFails, CleanUp, RemoveShortcuts, Kill, RunEnds
  <1>4. CASE MakeDirectories \/ Extract \/ EndOfPayload \/ CopyFiles
    BY <1>4 DEF MakeDirectories, Extract, EndOfPayload, CopyFiles
  <1>5. CASE CreateLauncher \/ CreateShortcuts \/ DeleteBinaries \/ RemoveDirectories
    BY <1>5 DEF CreateLauncher, CreateShortcuts, DeleteBinaries, RemoveDirectories
  <1>6. CASE UNCHANGED installerVars
    BY <1>6 DEF installerVars
  <1> QED
    BY <1>1, <1>2, <1>3, <1>4, <1>5, <1>6 DEF InstallerNext, Install, Uninstall

(* In every run of the installer the search returns the offset behind the     *)
(* first marker, and -1 only when there is none (installer-main.c:93-122,     *)
(* called at 127).                                                           *)
THEOREM InstallerFindsFirst == InstallerSpec => []FindsFirst
  <1>1. InstallerInit => SearchInv
    BY InitEstablishes DEF InstallerInit
  <1>2. SearchInv /\ [InstallerNext]_installerVars => SearchInv'
    <2> SUFFICES ASSUME SearchInv, [InstallerNext]_installerVars PROVE SearchInv'
      OBVIOUS
    <2>1. CASE Search \/ UNCHANGED vars
      BY <2>1, StepPreserves DEF Next
    <2>2. CASE RunEnds
      BY <2>2, ReturnPreserves DEF RunEnds
    <2> QED
      BY <2>1, <2>2, InstallerSearches
  <1>3. SearchInv => FindsFirst
    BY DEF SearchInv
  <1> QED
    BY <1>1, <1>2, <1>3, PTL DEF InstallerSpec

(* FailureKeepsInstalled says nothing of the phases before the failure: up to *)
(* the end of the extraction nothing outside the temporary directory has      *)
(* changed, and a run that failed is over.                                   *)
UntouchedInv ==
  /\ phase \in {"install", "search", "extract"} => Outside(files) = Outside(before)
  /\ said = "failed" => phase = "idle" /\ Outside(files) = Outside(before)

(* An extracted entry lies in the temporary directory.                       *)
LEMMA ExtractedInside == Extract => Outside(files') = Outside(files)
  BY DEF Extract, Outside

(* Before the extraction has ended: the directories, the search, the entries *)
(* and the ways it fails.                                                    *)
LEMMA PreparingPreserves ==
  ASSUME UntouchedInv, MakeDirectories \/ FindPayload \/ Extract \/ ExtractFails
  PROVE  UntouchedInv'
  <1>1. CASE MakeDirectories
    BY <1>1 DEF MakeDirectories, UntouchedInv
  <1>2. CASE FindPayload
    BY <1>2 DEF FindPayload, UntouchedInv
  <1>3. CASE Extract
    <2>1. phase' = "extract" /\ said' = said /\ said # "failed" /\ before' = before
      BY <1>3 DEF Extract, UntouchedInv
    <2>2. Outside(files') = Outside(before)
      BY <1>3, ExtractedInside DEF Extract, UntouchedInv
    <2> QED
      BY <2>1, <2>2 DEF UntouchedInv
  <1>4. CASE ExtractFails
    BY <1>4 DEF ExtractFails, Return, UntouchedInv
  <1> QED
    BY <1>1, <1>2, <1>3, <1>4

(* From the copies on, and in a removal, a run ends in other ways.           *)
LEMMA ChangingPreserves ==
  ASSUME UntouchedInv,
         \/ EndOfPayload \/ CopyFiles \/ CreateLauncher \/ CreateShortcuts \/ CleanUp
         \/ Uninstall \/ Kill
  PROVE  UntouchedInv'
  <1>1. said' = "failed" => said = "failed"
    BY DEF EndOfPayload, CopyFiles, CreateLauncher, CreateShortcuts, CleanUp, Return,
           Uninstall, DeleteBinaries, RemoveDirectories, RemoveShortcuts, Kill
  <1>2. phase # "idle" /\ phase' \notin {"install", "search", "extract"}
    BY DEF EndOfPayload, CopyFiles, CreateLauncher, CreateShortcuts, CleanUp, Return,
           Uninstall, DeleteBinaries, RemoveDirectories, RemoveShortcuts, Kill
  <1> QED
    BY <1>1, <1>2 DEF UntouchedInv

(* However its calls fail and whatever earlier runs left, an installation     *)
(* that returns with an error leaves the files outside its temporary          *)
(* directory as they were when it began (installer-main.c:309-350).           *)
THEOREM FailedInstallHarmless == InstallerSpec => []FailureKeepsInstalled
  <1>1. InstallerInit => UntouchedInv
    BY DEF InstallerInit, UntouchedInv
  <1>2. UntouchedInv /\ [InstallerNext]_installerVars => UntouchedInv'
    <2> SUFFICES ASSUME UntouchedInv, [InstallerNext]_installerVars PROVE UntouchedInv'
      OBVIOUS
    <2>1. CASE \E command \in {"install", "uninstall"}: Begin(command)
      BY <2>1 DEF Begin, UntouchedInv
    <2>2. CASE Install \/ Uninstall \/ Kill
      BY <2>2, PreparingPreserves, ChangingPreserves DEF Install
    <2>3. CASE UNCHANGED installerVars
      BY <2>3 DEF installerVars, installing, UntouchedInv
    <2> QED
      BY <2>1, <2>2, <2>3 DEF InstallerNext
  <1>3. UntouchedInv => FailureKeepsInstalled
    BY DEF UntouchedInv, FailureKeepsInstalled
  <1> QED
    BY <1>1, <1>2, <1>3, PTL DEF InstallerSpec
=============================================================================
