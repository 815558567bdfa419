---------------------------- MODULE MCThreadLife ----------------------------
(* ThreadLife with a few thread structures and one sleep address. *)
EXTENDS ThreadLife, TLC

Symmetry == Permutations(Threads \ {Boot})

Fresh(pids, detached, exited) ==
  [t_pid : pids, parent : pids, is_detached : detached, has_exited : exited, children : {<<>>}]

\* What thread_create may return: the flag that thread_exit looks at is set or not, or
\* any word is 0 or 1.
Flagged == Fresh({0}, {0, 1}, {0})
Unassigned == Fresh({0, 1}, {0, 1}, {0, 1})
=============================================================================
