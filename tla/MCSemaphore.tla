---------------------------- MODULE MCSemaphore -----------------------------
(* Semaphore on small sets of threads and semaphores. *)
EXTENDS Semaphore, TLC

Symmetry == Permutations(Threads) \cup Permutations(Sems)
=============================================================================
