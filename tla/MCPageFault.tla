---------------------------- MODULE MCPageFault ----------------------------
(* Small instances of PageFault for TLC. *)
EXTENDS PageFault, TLC

\* Values are interchangeable but for the one a fresh page holds, and pages
\* are not, because the batch is sorted: only threads are permuted.
ThreadSymmetry == Permutations(Threads)
=============================================================================
