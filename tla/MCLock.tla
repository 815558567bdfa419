------------------------------- MODULE MCLock -------------------------------
(* Lock on small sets of threads and locks. *)
EXTENDS Lock, TLC

CONSTANT Junk  \* a stale pointer in recycled memory: no thread's address

Symmetry == Permutations(Threads) \cup Permutations(Locks)
Zeroed == {NULL}
Recycled == {NULL, Junk}
=============================================================================
