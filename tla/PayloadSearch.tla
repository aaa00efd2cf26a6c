--------------------------- MODULE PayloadSearch ---------------------------
(***************************************************************************)
(* find_payload_offset of the Windows installer: the search for the        *)
(* payload's marker in the installer's own file, read in blocks of which   *)
(* each begins with the last bytes of the one before.                      *)
(*                                                                         *)
(* A file is its length and the offsets at which the marker occurs.        *)
(***************************************************************************)
EXTENDS Integers

CONSTANTS
    Block,      \* sizeof(buf)
    Marker,     \* strlen(PAYLOAD_MARKER)
    MaxLength   \* bound on the file's length

ASSUME SearchAssumption ==
    /\ Block \in Nat /\ Marker \in Nat \ {0} /\ MaxLength \in Nat
    /\ Marker <= Block

VARIABLES
    length,   \* of the file
    matches,  \* offsets of the marker in it
    at,       \* the stream's position
    pos,      \* the offset of buf in the file, as the code counts it
    n, i,     \* bytes in buf, and where the scan is
    pc, result

file == <<length, matches>>
vars == <<file, at, pos, n, i, pc, result>>

Init ==
    /\ length \in 0 .. MaxLength
    /\ matches \in SUBSET (0 .. MaxLength)
    /\ \A m \in matches: m + Marker <= length
    /\ at = 0 /\ pos = 0 /\ n = 0 /\ i = 0
    /\ pc = "read" /\ result = -1

\* fread: a whole block, or what is left of the file.
Got == IF length - at < Block THEN length - at ELSE Block

Read ==
    /\ pc = "read" /\ Got > 0
    /\ n' = Got /\ at' = at + Got /\ i' = 0 /\ pc' = "scan"
    /\ UNCHANGED <<file, pos, result>>

NotFound ==
    /\ pc = "read" /\ Got = 0
    /\ pc' = "done" /\ result' = -1
    /\ UNCHANGED <<file, at, pos, n, i>>

Found ==
    /\ pc = "scan" /\ i + Marker <= n /\ pos + i \in matches
    /\ pc' = "done" /\ result' = pos + i + Marker
    /\ UNCHANGED <<file, at, pos, n, i>>

Advance ==
    /\ pc = "scan" /\ i + Marker <= n /\ pos + i \notin matches
    /\ i' = i + 1
    /\ UNCHANGED <<file, at, pos, n, pc, result>>

\* Mutant: the blocks do not overlap.
BackNowhere == 0

\* Mutant: back to where the block began.
BackToStart == IF n = Block THEN n ELSE 0

\* How far the stream goes back behind a full block.
Back == IF n = Block THEN Marker - 1 ELSE 0

NextBlock ==
    /\ pc = "scan" /\ i + Marker > n
    /\ at' = at - Back /\ pos' = pos + n - Back
    /\ pc' = "read"
    /\ UNCHANGED <<file, n, i, result>>

Finished == pc = "done" /\ UNCHANGED vars

Search == Read \/ NotFound \/ Found \/ Advance \/ NextBlock
Next == Search \/ Finished

Spec == Init /\ [][Next]_vars

-----------------------------------------------------------------------------
(* Properties                                                              *)

TypeOK ==
    /\ length \in Nat /\ matches \subseteq Nat
    /\ at \in Nat /\ pos \in Nat /\ n \in Nat /\ i \in Nat
    /\ pc \in {"read", "scan", "done"} /\ result \in Int

(* The search returns the offset behind the first marker of the file, and -1 *)
(* only if there is none, wherever the marker falls between two blocks       *)
(* (installer-main.c:104-121).                                               *)
FindsFirst ==
    pc = "done" =>
        \/ matches = {} /\ result = -1
        \/ /\ result - Marker \in matches
           /\ \A m \in matches: result - Marker <= m

(* What holds between two steps: the count agrees with the stream, and no     *)
(* marker lies before the scan.                                              *)
SearchInv ==
    /\ TypeOK
    /\ \A m \in matches: m + Marker <= length
    /\ pc = "read" => /\ at = pos /\ at <= length
                      /\ \A m \in matches: pos <= m
    /\ pc = "scan" => /\ at = pos + n /\ at <= length /\ n <= Block
                      /\ n < Block => at = length
                      /\ \A m \in matches: pos + i <= m
    /\ FindsFirst

(* "Localizamos o marcador __UFTA_PAYLOAD_BELOW__ no binário, e a partir dali *)
(* extraímos o tar.gz" (installer-main.c:71-72): what is found is the marker *)
(* in front of the payload, the last of the file.  The program itself holds  *)
(* the string it looks for (installer-main.c:29, 99).                        *)
FindsPayload ==
    pc = "done" /\ matches # {} => \A m \in matches: m <= result - Marker
=============================================================================
