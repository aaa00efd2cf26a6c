---------------------------- MODULE SortedBatch ----------------------------
(***************************************************************************)
(* What the worker's batch promises the handler: the requested pages are   *)
(* handled one at a time, in ascending order, each as often as it was      *)
(* requested, and no other page is touched.  PageFault takes its batches   *)
(* to behave like this; Batch shows that the code does.                    *)
(***************************************************************************)
EXTENDS Naturals

CONSTANTS Pages

VARIABLES rest,   \* page -> how many of its requests are still to be handled
          latest  \* the page handled last, as << page >>; << >> before

sortedVars == <<rest, latest>>

SortedInit == rest \in [Pages -> Nat] /\ latest = << >>

Handle(p) ==
    /\ rest[p] > 0
    /\ \A q \in Pages: q < p => rest[q] = 0
    /\ rest' = [rest EXCEPT ![p] = @ - 1]
    /\ latest' = <<p>>

SortedNext == \E p \in Pages: Handle(p)

SortedSpec == SortedInit /\ [][SortedNext]_sortedVars
=============================================================================
