-------------------------- MODULE AtomicSemaphore ---------------------------
(***************************************************************************)
(* What synch.h promises of a semaphore: P decrements the count, blocking  *)
(* while it is 0, V increments it, and both are atomic.  There is no       *)
(* scheduler here, no table of sleepers and no re-test after a wakeup: a   *)
(* blocked thread takes the semaphore in one step, at a moment the count   *)
(* is positive.                                                            *)
(***************************************************************************)
EXTENDS Integers

CONSTANTS Threads, Sems, NULL,
          IntMax   \* largest value of a C int

VARIABLES count,    \* per semaphore
          waiting,  \* per thread: the semaphore it is blocked on, or NULL
          stopped   \* the kernel has panicked

vars == <<count, waiting, stopped>>

Init ==
  /\ count \in [Sems -> 0..IntMax]
  /\ waiting = [t \in Threads |-> NULL]
  /\ stopped = FALSE

Block(t, s) ==
  /\ ~stopped /\ waiting[t] = NULL /\ count[s] = 0
  /\ waiting' = [waiting EXCEPT ![t] = s]
  /\ UNCHANGED <<count, stopped>>

P(t, s) ==
  /\ ~stopped /\ waiting[t] \in {NULL, s} /\ count[s] > 0
  /\ count' = [count EXCEPT ![s] = @ - 1]
  /\ waiting' = [waiting EXCEPT ![t] = NULL]
  /\ UNCHANGED stopped

V(s) ==
  /\ ~stopped /\ count[s] < IntMax
  /\ count' = [count EXCEPT ![s] = @ + 1]
  /\ UNCHANGED <<waiting, stopped>>

\* The only other thing V may do: at the top of the range the kernel stops.
Overflow(s) ==
  /\ ~stopped /\ count[s] = IntMax
  /\ count' = [count EXCEPT ![s] = -IntMax - 1]
  /\ stopped' = TRUE
  /\ UNCHANGED waiting

Next ==
  \E s \in Sems : V(s) \/ Overflow(s) \/ \E t \in Threads : Block(t, s) \/ P(t, s)

\* A thread blocked on s completes its P.
Unblock(s) == \E t \in Threads : waiting[t] = s /\ P(t, s)

\* While a semaphore stays positive somebody blocked on it gets through.
Liveness == \A s \in Sems : WF_vars(Unblock(s))

Spec == Init /\ [][Next]_vars /\ Liveness

=============================================================================
