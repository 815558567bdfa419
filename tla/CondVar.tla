------------------------------ MODULE CondVar -------------------------------
(***************************************************************************)
(* Condition variables (project_5_6/synch.c, lines 181 to 272) on top of   *)
(* locks and the thread core.                                              *)
(*                                                                         *)
(* A cv has no state of its own: it is an address to sleep on.  What makes *)
(* it correct is how the code combines lock_release, thread_sleep and      *)
(* lock_acquire, so cv_wait and its way back are composed of the building  *)
(* blocks of Lock and ThreadSwitch.  The repository has no caller of the   *)
(* cv operations; the threads here use them the way synch.h says, each cv  *)
(* with its lock and a condition that the lock protects.                   *)
(***************************************************************************)
EXTENDS Lock

CONSTANTS CVs,          \* the condition variables, already created
          LockOf,       \* the lock used with each of them
          SignalCVs,    \* those on which threads call cv_signal too
          SignalIndex   \* what the unassigned index of thread_wakeone may hold

ASSUME CvAssumption ==
  /\ CVs \subseteq Addrs /\ CVs \cap Locks = {}
  /\ LockOf \in [CVs -> Locks] /\ SignalCVs \subseteq CVs
  /\ SignalIndex \subseteq Int

VARIABLE cond  \* the callers' condition, per cv, protected by the cv's lock

cvVars == <<vars, cond>>

CvTypeOK == LockTypeOK /\ cond \in [CVs -> BOOLEAN]

CvInit == Init /\ cond = [c \in CVs |-> FALSE]

-----------------------------------------------------------------------------

\* All three operations are for a caller that holds the lock.
Checked(t, c) == misused' = (misused \/ LockOf[c] \notin held[t])

\* Mutated: those who wait for the lock are not woken.
cv_wait_silent(t, c) ==
  LET l == LockOf[c] IN
  /\ Running(t) /\ lock_do_i_hold(t, l) /\ ~cond[c]
  /\ owner' = [owner EXCEPT ![l] = NULL]
  /\ held' = [held EXCEPT ![t] = @ \ {l}]
  /\ thread_sleep(c, sleepers)
  /\ UNCHANGED <<runqueue, panicked, misused, cond>>

\* Mutated: the lock is not released.
cv_wait_holding(t, c) ==
  /\ Running(t) /\ lock_do_i_hold(t, LockOf[c]) /\ ~cond[c]
  /\ thread_sleep(c, sleepers)
  /\ UNCHANGED <<runqueue, panicked, lockVars, misused, cond>>

\* cv_wait(cv, lock), called while the condition is false: with interrupts
\* off, release the lock and sleep on the cv.
cv_wait(t, c) ==
  LET l == LockOf[c] IN
  /\ Running(t)
  /\ \/ ~lock_do_i_hold(t, l) /\ AssertFails
     \/ /\ lock_do_i_hold(t, l)
        /\ ~cond[c]
        /\ owner' = [owner EXCEPT ![l] = NULL]
        /\ held' = [held EXCEPT ![t] = @ \ {l}]
        /\ runqueue' = runqueue \o Awakened(l)
        /\ thread_sleep(c, StillAsleep(l))
        /\ UNCHANGED panicked
  /\ Checked(t, c)
  /\ UNCHANGED cond

\* Mutated: the lock is not acquired again.
cv_wait_resume_unlocked(t, c) ==
  /\ Resumed(t, c)
  /\ held' = [held EXCEPT ![t] = @ \cup {LockOf[c]}]
  /\ ReturnFromSleep
  /\ UNCHANGED <<curthread, runqueue, sleepers, panicked, owner, misused, cond>>

\* cv_wait(cv, lock), on return from its thread_sleep: lock_acquire.
cv_wait_resume(t, c) ==
  Resumed(t, c) /\ lock_acquire_body(t, LockOf[c]) /\ UNCHANGED <<misused, cond>>

\* cv_signal(cv, lock), after the caller has made the condition true.
cv_signal(t, c) ==
  /\ Running(t) /\ c \in SignalCVs
  /\ \/ ~lock_do_i_hold(t, LockOf[c]) /\ AssertFails /\ UNCHANGED cond
     \/ /\ lock_do_i_hold(t, LockOf[c])
        /\ cond' = [cond EXCEPT ![c] = TRUE]
        /\ \E i \in SignalIndex : thread_wakeone(c, i)
        /\ UNCHANGED <<curthread, t_sleepaddr, lockVars>>
  /\ Checked(t, c)

\* cv_broadcast(cv, lock), after the caller has made the condition true.
cv_broadcast(t, c) ==
  /\ Running(t)
  /\ \/ ~lock_do_i_hold(t, LockOf[c]) /\ AssertFails /\ UNCHANGED cond
     \/ /\ lock_do_i_hold(t, LockOf[c])
        /\ cond' = [cond EXCEPT ![c] = TRUE]
        /\ thread_wakeup(c)
        /\ UNCHANGED <<curthread, t_sleepaddr, panicked, lockVars>>
  /\ Checked(t, c)

\* The caller's own code: a thread that finds the condition true takes it.
consume(t, c) ==
  /\ Running(t) /\ lock_do_i_hold(t, LockOf[c]) /\ cond[c]
  /\ cond' = [cond EXCEPT ![c] = FALSE]
  /\ UNCHANGED vars

CvNext ==
  \/ Next /\ UNCHANGED cond
  \/ \E t \in Threads, c \in CVs : cv_wait(t, c)
  \/ \E t \in Threads, c \in CVs : cv_wait_resume(t, c)
  \/ \E t \in Threads, c \in CVs : cv_signal(t, c)
  \/ \E t \in Threads, c \in CVs : cv_broadcast(t, c)
  \/ \E t \in Threads, c \in CVs : consume(t, c)

\* As for locks, with one more place where a resumed thread goes on by itself.
CvFairness ==
  /\ WF_cvVars(scheduler /\ UNCHANGED <<lockVars, misused, cond>>)
  /\ WF_cvVars(\E t \in Threads, l \in Locks :
                 lock_acquire_resume(t, l) /\ UNCHANGED cond)
  /\ WF_cvVars(\E t \in Threads, c \in CVs : cv_wait_resume(t, c))
  /\ WF_cvVars(\E t \in Threads : thread_yield(t) /\ UNCHANGED <<lockVars, misused, cond>>)

CvSpec == CvInit /\ [][CvNext]_cvVars /\ CvFairness

-----------------------------------------------------------------------------
(* Properties *)

(* No broadcast is missed: while its condition holds nobody sleeps on a cv  *)
(* that is only broadcast, whatever is signalled on others of its lock.     *)
(* A thread that saw the condition false under the lock is on the table     *)
(* before anybody else can get the lock to make it true, because cv_wait    *)
(* releases the lock and goes to sleep in one interrupts-off region.        *)
NoMissedBroadcast == \A c \in CVs \ SignalCVs : cond[c] => ~thread_hassleepers(c)

(* What a thread waits for: a thread woken from a cv waits for the lock.    *)
WaitingFor ==
  [t \in Threads |->
     IF t_sleepaddr[t] \in CVs /\ t \notin Range(sleepers)
       THEN LockOf[t_sleepaddr[t]]
       ELSE t_sleepaddr[t]]

(* Monitors: cv_wait is atomic, a woken thread returns only with the lock,   *)
(* nobody else is woken, the kernel stops only when a call breaks the rules, *)
(* and the lock goes on being handed out.  Holds of callers that broadcast   *)
(* and never signal: cv_signal does not do what a monitor promises (the next *)
(* two properties, and Placement, which fails if the index is not 0).        *)
AbstractMonitor == INSTANCE Monitor WITH waiting <- WaitingFor, stopped <- panicked

ImplementsMonitor == AbstractMonitor!MonitorSpec

(* The safety part of ImplementsMonitor. *)
ImplementsMonitorSafety ==
  AbstractMonitor!Init /\ [][AbstractMonitor!MonitorNext]_(AbstractMonitor!vars)

(* A call that keeps to the rules of synch.h stops the kernel in one case:   *)
(* cv_signal by the holder of the lock, when the index of thread_wakeone is  *)
(* not one of the table, be it because the table is empty.                   *)
StopsInSignal ==
  panicked /\ ~misused =>
    \E t \in Threads, c \in SignalCVs : curthread = t /\ LockOf[c] \in held[t]

(* cv_signal wakes one thread that sleeps on the cv, if there is one        *)
(* (synch.h and thread.h say so of cv_signal and thread_wakeone).           *)
SignalWakesOne ==
  [][\A c \in CVs :
       /\ \E t \in Threads : cv_signal(t, c)
       /\ ~cond[c] /\ cond'[c] /\ thread_hassleepers(c)
       => Cardinality(SleepersOn(c)') = Cardinality(SleepersOn(c)) - 1]_cvVars

=============================================================================
