---------------------------- MODULE MCEventMerge ----------------------------
(* EventMerge on a small instance: a buffer that a few events fill, so that *)
(* threads and the timer callback both pick and send.                       *)
EXTENDS EventMergeProofs, TLC

Symmetry == Permutations(Thread) \cup Permutations(Path)
=============================================================================
