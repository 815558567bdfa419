----------------------------- MODULE Semaphore ------------------------------
(***************************************************************************)
(* Semaphores (project_5_6/synch.c, lines 13 to 95) on top of the thread   *)
(* core.  Every thread runs arbitrary code that calls P and V on any of    *)
(* the semaphores; V may also come from an interrupt handler, P may not    *)
(* (it asserts in_interrupt == 0).                                         *)
(***************************************************************************)
EXTENDS ThreadSwitch

CONSTANTS Sems,   \* the semaphores, already created
          IntMax  \* largest value of the C int that counts

ASSUME SemAssumption == Sems \subseteq Addrs /\ IntMax \in Nat \ {0}

VARIABLE count    \* sem->count, per semaphore

vars == <<switchVars, count>>

SemTypeOK ==
  /\ SwitchTypeOK
  /\ count \in [Sems -> (-IntMax - 1)..IntMax]

-----------------------------------------------------------------------------

\* sem_create(name, initial_count), for any initial_count >= 0.
Init == SwitchInit /\ count \in [Sems -> 0..IntMax]

\* Mutated: the count is not tested.
P_loop_untested(t, s) ==
  /\ count' = [count EXCEPT ![s] = @ - 1]
  /\ ReturnFromSleep
  /\ UNCHANGED <<curthread, runqueue, sleepers, panicked>>

\* P after its loop: assert(sem->count > 0), decrement, return.
P_take(s) ==
  IF count[s] > 0
    THEN /\ count' = [count EXCEPT ![s] = @ - 1]
         /\ ReturnFromSleep
         /\ UNCHANGED <<curthread, runqueue, sleepers, panicked>>
    ELSE thread_panic /\ UNCHANGED <<curthread, t_sleepaddr, count>>

\* The body of P, entered at splhigh: the loop tests the count, and goes to
\* sleep (to test again when woken) or leaves the loop.
P_loop(t, s) ==
  \/ /\ count[s] = 0
     /\ thread_sleep(s, sleepers)
     /\ UNCHANGED <<runqueue, panicked, count>>
  \/ count[s] # 0 /\ P_take(s)

\* P(sem), from the call.
P(t, s) == Running(t) /\ P_loop(t, s)

\* Mutated: the count is tested by an if, not a while.
P_resume_once(t, s) == Resumed(t, s) /\ P_take(s)

\* P(sem), on return from the thread_sleep in its loop.
P_resume(t, s) == Resumed(t, s) /\ P_loop(t, s)

\* sem->count++ on a 32-bit int.
Increment(n) == IF n = IntMax THEN -IntMax - 1 ELSE n + 1

\* Mutated: the count is not looked at after the increment.
V_unchecked(s) ==
  /\ InterruptsOn
  /\ count' = [count EXCEPT ![s] = Increment(@)]
  /\ thread_wakeup(s)
  /\ UNCHANGED <<curthread, t_sleepaddr, panicked>>

\* V(sem), called by the running thread or by an interrupt handler.  Its
\* assertion that the count is positive fails when the increment wraps.
V(s) ==
  /\ InterruptsOn
  /\ count' = [count EXCEPT ![s] = Increment(@)]
  /\ IF count'[s] > 0
       THEN thread_wakeup(s) /\ UNCHANGED panicked
       ELSE thread_panic
  /\ UNCHANGED <<curthread, t_sleepaddr>>

Next ==
  \/ scheduler /\ UNCHANGED count
  \/ \E t \in Threads : thread_yield(t) /\ UNCHANGED count
  \/ \E t \in Threads, s \in Sems : P(t, s)
  \/ \E t \in Threads, s \in Sems : P_resume(t, s)
  \/ \E s \in Sems : V(s)

\* The CPU does not halt in the scheduler or in P's loop, and the timer
\* interrupt comes again and again.  No thread is obliged to call anything.
Fairness ==
  /\ WF_vars(scheduler /\ UNCHANGED count)
  /\ WF_vars(\E t \in Threads, s \in Sems : P_resume(t, s))
  /\ WF_vars(\E t \in Threads : thread_yield(t) /\ UNCHANGED count)

Spec == Init /\ [][Next]_vars /\ Fairness

-----------------------------------------------------------------------------
(* Properties *)

(* No lost wakeup: while a semaphore is positive nobody sleeps on it.  The  *)
(* test of the count in P and the insertion into the sleepers table are one *)
(* interrupts-off region, and V wakes every sleeper, not just one.          *)
NoLostWakeup == \A s \in Sems : count[s] > 0 => ~thread_hassleepers(s)

(* The count goes below 0 only by the overflow that stops the kernel: V's   *)
(* assertion comes after the increment and before anybody else sees it.     *)
CountOK == ~panicked => \A s \in Sems : count[s] >= 0

(* P and V are atomic and no P is forgotten, as synch.h promises: the code  *)
(* with its sleepers table, run queue and re-test loop implements           *)
(* AtomicSemaphore, fairness included.                                      *)
Atomic == INSTANCE AtomicSemaphore
            WITH waiting <- t_sleepaddr, stopped <- panicked

ImplementsAtomic == Atomic!Spec

(* The safety part of ImplementsAtomic, which is proved in SemaphoreProofs. *)
ImplementsAtomicSafety == Atomic!Init /\ [][Atomic!Next]_(Atomic!vars)

=============================================================================
