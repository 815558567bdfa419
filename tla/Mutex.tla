------------------------------- MODULE Mutex --------------------------------
(***************************************************************************)
(* What synch.h promises of locks: only one thread holds a lock at a time, *)
(* only the holder frees it, and the operations are atomic.  As in         *)
(* AtomicSemaphore there is no scheduler, no table and no re-test: a       *)
(* waiting thread takes the lock in one step, at a moment it is free.      *)
(***************************************************************************)
EXTENDS Integers

CONSTANTS Threads, Locks, NULL

VARIABLES held,     \* per thread: the locks it holds
          waiting,  \* per thread: the lock it waits for, or NULL
          misused,  \* a caller has acquired a lock it holds, or released one
                    \* that it does not hold
          stopped   \* the kernel has panicked

vars == <<held, waiting, misused, stopped>>

Free(l) == \A u \in Threads : l \notin held[u]

Init ==
  /\ held = [t \in Threads |-> {}]
  /\ waiting = [t \in Threads |-> NULL]
  /\ misused = FALSE
  /\ stopped = FALSE

Block(t, l) ==
  /\ ~stopped /\ waiting[t] = NULL
  /\ ~Free(l) /\ l \notin held[t]
  /\ waiting' = [waiting EXCEPT ![t] = l]
  /\ UNCHANGED <<held, misused, stopped>>

Acquire(t, l) ==
  /\ ~stopped /\ waiting[t] \in {NULL, l} /\ Free(l)
  /\ held' = [held EXCEPT ![t] = @ \cup {l}]
  /\ waiting' = [waiting EXCEPT ![t] = NULL]
  /\ UNCHANGED <<misused, stopped>>

Release(t, l) ==
  /\ ~stopped /\ waiting[t] = NULL /\ l \in held[t]
  /\ held' = [held EXCEPT ![t] = @ \ {l}]
  /\ UNCHANGED <<waiting, misused, stopped>>

\* Misuse by a thread that is not waiting stops the kernel, and nothing else
\* does.
Misuse ==
  /\ ~stopped /\ \E t \in Threads : waiting[t] = NULL
  /\ misused' = TRUE /\ stopped' = TRUE
  /\ UNCHANGED <<held, waiting>>

Next ==
  \/ \E t \in Threads, l \in Locks :
       Block(t, l) \/ Acquire(t, l) \/ Release(t, l)
  \/ Misuse

Take(l) == \E t \in Threads : waiting[t] = l /\ Acquire(t, l)

\* A lock that stays free is taken by somebody who waits for it.  Nothing is
\* promised to a particular waiter: others may always come first.
Liveness == \A l \in Locks : WF_vars(Take(l))

Spec == Init /\ [][Next]_vars /\ Liveness

=============================================================================
