---------------------------- MODULE MCVfsMonitor ----------------------------
(* VfsMonitor on small instances; the .cfg files choose which operations   *)
(* take place and what is assumed of the timer.                            *)
EXTENDS VfsMonitor, TLC

Symmetry == Permutations(Thread) \cup Permutations(Path \ InitFiles)
              \cup Permutations(InitFiles)
=============================================================================
