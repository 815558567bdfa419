-------------------------------- MODULE Lock --------------------------------
(***************************************************************************)
(* Locks (project_5_6/synch.c, lines 97 to 179) on top of the thread core. *)
(* Threads call lock_acquire and lock_release on any lock in any order,    *)
(* misuse included: the assertions of the code then stop the kernel.       *)
(*                                                                         *)
(* Both operations assert lock_do_i_hold with interrupts still on, and     *)
(* turn them off afterwards.  Whether owner = curthread is changed by      *)
(* curthread alone, so an interrupt between the two makes no difference    *)
(* and each call is one step up to the next mi_switch.                     *)
(***************************************************************************)
EXTENDS ThreadSwitch

CONSTANTS Locks,      \* the locks, already created
          FreshOwner  \* what lock_create may leave in the owner field

ASSUME LockAssumption == Locks \subseteq Addrs

VARIABLES owner,   \* lock->owner, per lock
          held,    \* history: per thread, the locks whose lock_acquire has
                   \* returned and whose lock_release has not been called
          misused  \* history: some call broke the rules of synch.h

lockVars == <<owner, held>>
vars == <<switchVars, lockVars, misused>>

LockTypeOK ==
  /\ SwitchTypeOK
  /\ owner \in [Locks -> Threads \cup {NULL} \cup FreshOwner]
  /\ held \in [Threads -> SUBSET Locks]
  /\ misused \in BOOLEAN

-----------------------------------------------------------------------------

\* lock_create assigns the name only: the owner field keeps whatever kmalloc
\* returned in that word.
Init ==
  /\ SwitchInit
  /\ owner \in [Locks -> FreshOwner]
  /\ held = [t \in Threads |-> {}]
  /\ misused = FALSE

lock_do_i_hold(t, l) == owner[l] = t

\* lock_acquire at splhigh: while the lock has an owner, sleep; then own it.
\* The assertion after the while repeats its condition and cannot fail.
lock_acquire_loop(t, l) ==
  \/ /\ owner[l] # NULL
     /\ thread_sleep(l, sleepers)
     /\ UNCHANGED <<runqueue, panicked, lockVars>>
  \/ /\ owner[l] = NULL
     /\ owner' = [owner EXCEPT ![l] = t]
     /\ held' = [held EXCEPT ![t] = @ \cup {l}]
     /\ ReturnFromSleep
     /\ UNCHANGED <<curthread, runqueue, sleepers, panicked>>

\* A failed assertion stops the kernel.
AssertFails == thread_panic /\ UNCHANGED <<curthread, t_sleepaddr, lockVars>>

\* The body of lock_acquire, its assertion included.
lock_acquire_body(t, l) ==
  \/ lock_do_i_hold(t, l) /\ AssertFails
  \/ ~lock_do_i_hold(t, l) /\ lock_acquire_loop(t, l)

\* lock_acquire(lock), from the call; not to be called by the holder.
lock_acquire(t, l) ==
  /\ Running(t) /\ lock_acquire_body(t, l)
  /\ misused' = (misused \/ l \in held[t])

\* lock_acquire(lock), on return from the thread_sleep in its loop.
lock_acquire_resume(t, l) ==
  Resumed(t, l) /\ lock_acquire_loop(t, l) /\ UNCHANGED misused

\* Mutated: nobody is woken.
lock_release_silent(t, l) ==
  /\ Running(t) /\ lock_do_i_hold(t, l)
  /\ owner' = [owner EXCEPT ![l] = NULL]
  /\ held' = [held EXCEPT ![t] = @ \ {l}]
  /\ UNCHANGED <<switchVars, misused>>

\* Mutated: the owner field is not reset.
lock_release_owned(t, l) ==
  /\ Running(t) /\ lock_do_i_hold(t, l)
  /\ held' = [held EXCEPT ![t] = @ \ {l}]
  /\ thread_wakeup(l)
  /\ UNCHANGED <<curthread, t_sleepaddr, panicked, owner, misused>>

\* Mutated: anybody may release.
lock_release_unchecked(t, l) ==
  /\ Running(t)
  /\ owner' = [owner EXCEPT ![l] = NULL]
  /\ held' = [held EXCEPT ![t] = @ \ {l}]
  /\ thread_wakeup(l)
  /\ misused' = (misused \/ l \notin held[t])
  /\ UNCHANGED <<curthread, t_sleepaddr, panicked>>

\* lock_release(lock), for the holder only: no owner any more, and every
\* sleeper is woken.
lock_release(t, l) ==
  /\ Running(t)
  /\ \/ ~lock_do_i_hold(t, l) /\ AssertFails
     \/ /\ lock_do_i_hold(t, l)
        /\ owner' = [owner EXCEPT ![l] = NULL]
        /\ held' = [held EXCEPT ![t] = @ \ {l}]
        /\ thread_wakeup(l)
        /\ UNCHANGED <<curthread, t_sleepaddr, panicked>>
  /\ misused' = (misused \/ l \notin held[t])

Next ==
  \/ scheduler /\ UNCHANGED <<lockVars, misused>>
  \/ \E t \in Threads : thread_yield(t) /\ UNCHANGED <<lockVars, misused>>
  \/ \E t \in Threads, l \in Locks : lock_acquire(t, l)
  \/ \E t \in Threads, l \in Locks : lock_acquire_resume(t, l)
  \/ \E t \in Threads, l \in Locks : lock_release(t, l)

\* The CPU does not halt in the scheduler or in lock_acquire's loop, and the
\* timer interrupt comes again and again.  No thread is obliged to release.
Fairness ==
  /\ WF_vars(scheduler /\ UNCHANGED <<lockVars, misused>>)
  /\ WF_vars(\E t \in Threads, l \in Locks : lock_acquire_resume(t, l))
  /\ WF_vars(\E t \in Threads : thread_yield(t) /\ UNCHANGED <<lockVars, misused>>)

Spec == Init /\ [][Next]_vars /\ Fairness

-----------------------------------------------------------------------------
(* Properties *)

Free(l) == \A t \in Threads : l \notin held[t]

(* Mutual exclusion: no interleaving of woken, barging and releasing        *)
(* threads gets two of them past lock_acquire for the same lock.            *)
MutualExclusion ==
  \A l \in Locks : \A t, u \in Threads : l \in held[t] \cap held[u] => t = u

(* lock_do_i_hold tells the truth: the owner field names the thread that    *)
(* holds the lock whenever one does, and no thread otherwise.               *)
HoldIsTruth == \A t \in Threads, l \in Locks : lock_do_i_hold(t, l) <=> l \in held[t]

(* Nobody sleeps on a lock that nobody holds: the sleeper would need a      *)
(* wakeup that no lock_release is going to send.                            *)
NoSleeperOnFree == \A l \in Locks : Free(l) => ~thread_hassleepers(l)

(* Locks are atomic, exclude each other, stop the kernel exactly when a      *)
(* call breaks the rules, and a free lock is taken by somebody who waits for *)
(* it: the code implements Mutex, fairness included.                         *)
Abstract == INSTANCE Mutex WITH waiting <- t_sleepaddr, stopped <- panicked

ImplementsMutex == Abstract!Spec

(* The safety part of ImplementsMutex. *)
ImplementsMutexSafety == Abstract!Init /\ [][Abstract!Next]_(Abstract!vars)

=============================================================================
