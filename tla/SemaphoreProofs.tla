-------------------------- MODULE SemaphoreProofs ---------------------------
(***************************************************************************)
(* Proofs about Semaphore, for any finite set of threads, any set of       *)
(* semaphores and any size of the count: its four invariants, and that     *)
(* every behaviour of the code is one of AtomicSemaphore (safety).         *)
(***************************************************************************)
EXTENDS Semaphore, ThreadSwitchProofs

\* One step of the C int: it grows, or wraps from the top of its range.
LEMMA IncrementType ==
  ASSUME NEW n \in (-IntMax - 1)..IntMax
  PROVE  /\ Increment(n) \in (-IntMax - 1)..IntMax
         /\ n >= 0 => (Increment(n) > 0 <=> n < IntMax)
         /\ n >= 0 /\ n < IntMax => Increment(n) = n + 1
BY SemAssumption DEF Increment

(* Every variable keeps its type: a queue never holds anything but threads, *)
(* and the count stays a C int.                                             *)
THEOREM TypeCorrect == Spec => []SemTypeOK
<1>1. Init => SemTypeOK
  <2> SUFFICES ASSUME Init PROVE SemTypeOK
    OBVIOUS
  <2>1. SwitchTypeOK
    BY InitPlaced DEF Init
  <2>2. count \in [Sems -> (-IntMax - 1)..IntMax]
    <3>1. 0..IntMax \subseteq (-IntMax - 1)..IntMax
      BY SemAssumption
    <3> QED BY <3>1 DEF Init
  <2> QED BY <2>1, <2>2 DEF SemTypeOK
<1>2. SemTypeOK /\ [Next]_vars => SemTypeOK'
  <2> SUFFICES ASSUME SemTypeOK, [Next]_vars PROVE SemTypeOK'
    OBVIOUS
  <2> USE SemAssumption DEF SemTypeOK, SwitchTypeOK
  <2>1. CASE scheduler /\ UNCHANGED count
    BY <2>1, HeadTailFacts DEF scheduler
  <2>2. ASSUME NEW t \in Threads, thread_yield(t), UNCHANGED count
        PROVE  SemTypeOK'
    BY <2>2, AppendFacts DEF thread_yield
  <2>3. ASSUME NEW t \in Threads, NEW s \in Sems, curthread = t, P_loop(t, s)
        PROVE  SemTypeOK'
    <3>1. CASE count[s] = 0 /\ thread_sleep(s, sleepers)
               /\ UNCHANGED <<runqueue, panicked, count>>
      <4>1. sleepers' \in Seq(Threads) /\ curthread' \in Threads \cup {NULL}
        BY <2>3, <3>1, AppendFacts DEF thread_sleep
      <4>2. t_sleepaddr' \in [Threads -> Addrs \cup {NULL}]
        BY <2>3, <3>1 DEF thread_sleep
      <4> QED BY <3>1, <4>1, <4>2
    <3>2. CASE count[s] > 0 /\ count' = [count EXCEPT ![s] = @ - 1]
               /\ ReturnFromSleep
               /\ UNCHANGED <<curthread, runqueue, sleepers, panicked>>
      <4>1. count[s] - 1 \in (-IntMax - 1)..IntMax
        BY <3>2
      <4>2. count' \in [Sems -> (-IntMax - 1)..IntMax]
        BY <3>2, <4>1
      <4>3. t_sleepaddr' \in [Threads -> Addrs \cup {NULL}]
        BY <3>2 DEF ReturnFromSleep
      <4> QED BY <3>2, <4>2, <4>3
    <3>3. CASE thread_panic /\ UNCHANGED <<curthread, t_sleepaddr, count>>
      BY <3>3 DEF thread_panic
    <3> QED BY <2>3, <3>1, <3>2, <3>3 DEF P_loop, P_take
  <2>4. ASSUME NEW s \in Sems, V(s) PROVE SemTypeOK'
    <3>1. count' \in [Sems -> (-IntMax - 1)..IntMax]
      BY <2>4, IncrementType DEF V
    <3>2. UNCHANGED <<curthread, t_sleepaddr>>
      BY <2>4 DEF V
    <3>3. CASE thread_wakeup(s) /\ UNCHANGED panicked
      <4>1. sleepers' \in Seq(Threads) /\ Awakened(s) \in Seq(Threads)
        BY <3>3, WakeupType DEF thread_wakeup
      <4>2. runqueue' \in Seq(Threads)
        BY <3>3, <4>1 DEF thread_wakeup
      <4> QED BY <3>1, <3>2, <3>3, <4>1, <4>2
    <3>4. CASE thread_panic
      BY <3>1, <3>2, <3>4 DEF thread_panic
    <3> QED BY <2>4, <3>3, <3>4 DEF V
  <2>5. CASE UNCHANGED vars
    BY <2>5 DEF vars, switchVars
  <2> QED BY <2>1, <2>2, <2>3, <2>4, <2>5
          DEF Next, P, P_resume, Running, Resumed
<1> QED BY <1>1, <1>2, PTL DEF Spec

-----------------------------------------------------------------------------

\* Both branches of P's loop keep the counts of a kernel that runs at 0 or
\* more; they are the only steps that lower a count.
LEMMA CountStep ==
  ASSUME SemTypeOK, CountOK, [Next]_vars
  PROVE  CountOK'
<1> SUFFICES ASSUME ~panicked', NEW r \in Sems PROVE count'[r] >= 0
  BY DEF CountOK
<1> USE DEF SemTypeOK, SwitchTypeOK
<1>1. ASSUME ~panicked PROVE count[r] >= 0
  BY <1>1 DEF CountOK
<1>2. CASE UNCHANGED <<count, panicked>>
  BY <1>1, <1>2
<1>3. ASSUME NEW t \in Threads, NEW s \in Sems, P_loop(t, s)
      PROVE  count'[r] >= 0
  BY <1>1, <1>3 DEF P_loop, P_take, thread_panic
<1>4. ASSUME NEW s \in Sems, V(s) PROVE count'[r] >= 0
  <2>1. ~panicked /\ count' = [count EXCEPT ![s] = Increment(@)]
    BY <1>4 DEF V, InterruptsOn
  <2>2. count'[s] > 0
    BY <1>4 DEF V, thread_panic
  <2>3. count'[s] \in Int
    BY <2>1, IncrementType
  <2>4. CASE r = s
    BY <2>2, <2>3, <2>4
  <2>5. CASE r # s
    BY <1>1, <2>1, <2>5
  <2> QED BY <2>4, <2>5
<1> QED BY <1>2, <1>3, <1>4
        DEF Next, P, P_resume, scheduler, thread_yield, vars, switchVars

(* A count drops below 0 only by the overflow that stops the kernel.        *)
THEOREM CountCorrect == Spec => []CountOK
<1>1. Init => CountOK
  BY SemAssumption DEF Init, CountOK
<1>2. SemTypeOK /\ CountOK /\ [Next]_vars => CountOK'
  BY CountStep
<1> QED BY <1>1, <1>2, TypeCorrect, PTL DEF Spec

-----------------------------------------------------------------------------

\* Nobody in the table sleeps on addr.
NoneAsleep(table, sleepaddr, addr) == \A t \in Range(table) : sleepaddr[t] # addr

LEMMA WakeupLeavesNone ==
  ASSUME SemTypeOK, NEW s, NEW r,
         r = s \/ NoneAsleep(sleepers, t_sleepaddr, r)
  PROVE  NoneAsleep(StillAsleep(s), t_sleepaddr, r)
<1>1. Range(StillAsleep(s)) = {t \in Range(sleepers) : t_sleepaddr[t] # s}
  BY StillAsleepRange DEF SemTypeOK
<1> QED BY <1>1 DEF NoneAsleep

LEMMA NoLostWakeupMeans ==
  NoLostWakeup <=> \A s \in Sems : count[s] > 0 => NoneAsleep(sleepers, t_sleepaddr, s)
BY DEF NoLostWakeup, NoneAsleep, thread_hassleepers, SleepersOn, Range

(* While a semaphore is positive nobody sleeps on it: no V is missed by a   *)
(* thread that has tested the count and not yet gone to sleep.              *)
THEOREM WakeupCorrect == Spec => []NoLostWakeup
<1> DEFINE Awake == \A s \in Sems : count[s] > 0 => NoneAsleep(sleepers, t_sleepaddr, s)
<1>1. Init => Awake
  BY DEF Init, SwitchInit, NoneAsleep, Range
<1>2. SemTypeOK /\ Awake /\ [Next]_vars => Awake'
  <2> SUFFICES ASSUME SemTypeOK, Awake, [Next]_vars, NEW r \in Sems, count'[r] > 0
               PROVE  NoneAsleep(sleepers', t_sleepaddr', r)
    BY DEF NoneAsleep
  <2>1. r \in Addrs /\ r # NULL
    BY SemAssumption, ThreadAssumption
  <2>2. /\ count \in [Sems -> (-IntMax - 1)..IntMax]
        /\ sleepers \in Seq(Threads)
        /\ t_sleepaddr \in [Threads -> Addrs \cup {NULL}]
        /\ Range(sleepers) \subseteq Threads
    BY DEF SemTypeOK, SwitchTypeOK, Range
  <2>3. CASE UNCHANGED <<count, sleepers, t_sleepaddr>>
    BY <2>3
  <2>4. ASSUME NEW t \in Threads, NEW s \in Sems, curthread = t, P_loop(t, s)
        PROVE  NoneAsleep(sleepers', t_sleepaddr', r)
    <3>1. CASE count[s] = 0 /\ thread_sleep(s, sleepers) /\ UNCHANGED count
      <4>1. r # s
        BY <3>1
      <4>2. /\ Range(sleepers') = Range(sleepers) \cup {t}
            /\ t_sleepaddr' = [t_sleepaddr EXCEPT ![t] = s]
        BY <2>2, <2>4, <3>1, AppendFacts DEF thread_sleep
      <4>3. NoneAsleep(sleepers, t_sleepaddr, r)
        BY <3>1
      <4> QED BY <2>2, <4>1, <4>2, <4>3 DEF NoneAsleep
    <3>2. CASE /\ count[s] > 0 /\ count' = [count EXCEPT ![s] = @ - 1]
               /\ ReturnFromSleep /\ UNCHANGED sleepers
      <4>1. count[r] > 0
        BY <2>2, <3>2
      <4>2. NoneAsleep(sleepers, t_sleepaddr, r)
        BY <4>1
      <4>3. t_sleepaddr' = [t_sleepaddr EXCEPT ![t] = NULL]
        BY <2>4, <3>2 DEF ReturnFromSleep
      <4> QED BY <2>1, <2>2, <3>2, <4>2, <4>3 DEF NoneAsleep
    <3>3. CASE thread_panic
      BY <3>3 DEF thread_panic, NoneAsleep, Range
    <3> QED BY <2>4, <3>1, <3>2, <3>3 DEF P_loop, P_take
  <2>5. ASSUME NEW s \in Sems, V(s)
        PROVE  NoneAsleep(sleepers', t_sleepaddr', r)
    <3>1. count' = [count EXCEPT ![s] = Increment(@)] /\ UNCHANGED t_sleepaddr
      BY <2>5 DEF V
    <3>2. CASE thread_wakeup(s)
      <4>1. r = s \/ NoneAsleep(sleepers, t_sleepaddr, r)
        BY <2>2, <3>1
      <4> QED BY <3>1, <3>2, <4>1, WakeupLeavesNone DEF thread_wakeup
    <3>3. CASE thread_panic
      BY <3>3 DEF thread_panic, NoneAsleep, Range
    <3> QED BY <2>5, <3>2, <3>3 DEF V
  <2> QED BY <2>3, <2>4, <2>5
          DEF Next, P, P_resume, Running, Resumed, scheduler, thread_yield,
              vars, switchVars
<1>3. Awake <=> NoLostWakeup
  BY NoLostWakeupMeans
<1> QED BY <1>1, <1>2, <1>3, TypeCorrect, PTL DEF Spec

-----------------------------------------------------------------------------

(* Every thread is in exactly one place, whatever the threads call: none is *)
(* run twice and none is forgotten.                                         *)
THEOREM PlacementCorrect == Spec => []Placement
<1>1. Init => Placement
  BY InitPlaced DEF Init
<1>2. SemTypeOK /\ Placement /\ [Next]_vars => Placement'
  <2> SUFFICES ASSUME SemTypeOK, Placement, [Next]_vars, ~panicked'
               PROVE  Placed(runqueue', sleepers', curthread', t_sleepaddr')
    BY DEF Placement, Placed
  <2>1. /\ runqueue \in Seq(Threads) /\ sleepers \in Seq(Threads)
        /\ t_sleepaddr \in [Threads -> Addrs \cup {NULL}]
    BY DEF SemTypeOK, SwitchTypeOK
  <2>2. ~panicked => Placed(runqueue, sleepers, curthread, t_sleepaddr)
    BY DEF Placement
  <2>3. CASE scheduler
    BY <2>1, <2>2, <2>3, RunPlaced DEF scheduler
  <2>4. ASSUME NEW t \in Threads, thread_yield(t)
        PROVE  Placed(runqueue', sleepers', curthread', t_sleepaddr')
    BY <2>1, <2>2, <2>4, YieldPlaced DEF thread_yield, Running
  <2>5. ASSUME NEW t \in Threads, NEW s \in Sems, curthread = t, ~panicked, P_loop(t, s)
        PROVE  Placed(runqueue', sleepers', curthread', t_sleepaddr')
    <3>1. CASE thread_sleep(s, sleepers) /\ UNCHANGED runqueue
      <4>1. s \in Addrs
        BY SemAssumption
      <4> QED BY <2>1, <2>2, <2>5, <3>1, <4>1, SleepPlaced DEF thread_sleep
    <3>2. CASE ReturnFromSleep /\ UNCHANGED <<curthread, runqueue, sleepers>>
      BY <2>1, <2>2, <2>5, <3>2, ReturnPlaced DEF ReturnFromSleep
    <3> QED BY <2>5, <3>1, <3>2 DEF P_loop, P_take, thread_panic
  <2>6. ASSUME NEW s \in Sems, V(s)
        PROVE  Placed(runqueue', sleepers', curthread', t_sleepaddr')
    <3>1. ~panicked /\ thread_wakeup(s) /\ UNCHANGED <<curthread, t_sleepaddr>>
      BY <2>6 DEF V, InterruptsOn, thread_panic
    <3>2. SleepersOn(s) \in SUBSET (DOMAIN sleepers)
      BY DEF SleepersOn
    <3> QED BY <2>1, <2>2, <3>1, <3>2, WakeupPlaced
            DEF thread_wakeup, StillAsleep, Awakened
  <2>7. CASE UNCHANGED vars
    BY <2>2, <2>7 DEF vars, switchVars
  <2> QED BY <2>3, <2>4, <2>5, <2>6, <2>7 DEF Next, P, P_resume, Running, Resumed
<1> QED BY <1>1, <1>2, TypeCorrect, PTL DEF Spec

-----------------------------------------------------------------------------

(* P and V are atomic: the initial states of the code are initial states of *)
(* AtomicSemaphore, and each of its steps is a step of AtomicSemaphore or   *)
(* leaves the count and the waiting threads alone.                          *)
THEOREM AtomicityCorrect == Spec => ImplementsAtomicSafety
<1>1. Init => Atomic!Init
  BY DEF Init, SwitchInit, Atomic!Init
<1>2. SemTypeOK /\ CountOK /\ [Next]_vars => [Atomic!Next]_(Atomic!vars)
  <2> SUFFICES ASSUME SemTypeOK, CountOK, [Next]_vars
               PROVE  Atomic!Next \/ UNCHANGED Atomic!vars
    OBVIOUS
  <2>1. /\ count \in [Sems -> (-IntMax - 1)..IntMax]
        /\ t_sleepaddr \in [Threads -> Addrs \cup {NULL}]
    BY DEF SemTypeOK, SwitchTypeOK
  <2>2. CASE UNCHANGED <<count, t_sleepaddr, panicked>>
    BY <2>2 DEF Atomic!vars
  <2>3. ASSUME NEW t \in Threads, NEW s \in Sems, P(t, s)
        PROVE  Atomic!Next \/ UNCHANGED Atomic!vars
    <3>1. ~panicked /\ curthread = t /\ t_sleepaddr[t] = NULL
      BY <2>3 DEF P, Running
    <3>2. count[s] = 0 \/ count[s] > 0
      BY <2>1, <3>1 DEF CountOK
    <3>3. Atomic!Block(t, s) \/ Atomic!P(t, s)
      BY <2>3, <3>1, <3>2 DEF P, P_loop, P_take, thread_sleep, ReturnFromSleep,
                              Atomic!Block, Atomic!P
    <3> QED BY <3>3 DEF Atomic!Next
  <2>4. ASSUME NEW t \in Threads, NEW s \in Sems, P_resume(t, s)
        PROVE  Atomic!Next \/ UNCHANGED Atomic!vars
    <3>1. ~panicked /\ curthread = t /\ t_sleepaddr[t] = s
      BY <2>4 DEF P_resume, Resumed
    <3>2. CASE count[s] = 0 /\ thread_sleep(s, sleepers)
               /\ UNCHANGED <<runqueue, panicked, count>>
      BY <2>1, <3>1, <3>2 DEF thread_sleep, Atomic!vars
    <3>3. CASE count[s] > 0
      <4>1. Atomic!P(t, s)
        BY <2>4, <3>1, <3>3 DEF P_resume, P_loop, P_take, ReturnFromSleep, Atomic!P
      <4> QED BY <4>1 DEF Atomic!Next
    <3>4. count[s] = 0 \/ count[s] > 0
      BY <2>1, <3>1 DEF CountOK
    <3> QED BY <2>4, <3>2, <3>3, <3>4 DEF P_resume, P_loop
  <2>5. ASSUME NEW s \in Sems, V(s)
        PROVE  Atomic!Next \/ UNCHANGED Atomic!vars
    <3>1. ~panicked /\ UNCHANGED t_sleepaddr /\ count' = [count EXCEPT ![s] = Increment(@)]
      BY <2>5 DEF V, InterruptsOn
    <3>2. count[s] \in 0..IntMax /\ count'[s] = Increment(count[s])
      BY <2>1, <3>1 DEF CountOK
    <3>3. CASE count[s] < IntMax
      <4>1. Increment(count[s]) = count[s] + 1 /\ count'[s] > 0
        BY <3>2, <3>3, SemAssumption DEF Increment
      <4>2. UNCHANGED panicked
        BY <2>5, <4>1 DEF V
      <4>3. Atomic!V(s)
        BY <3>1, <3>3, <4>1, <4>2 DEF Atomic!V
      <4> QED BY <4>3 DEF Atomic!Next
    <3>4. CASE count[s] = IntMax
      <4>1. Increment(count[s]) = -IntMax - 1 /\ ~(count'[s] > 0)
        BY <3>2, <3>4, SemAssumption DEF Increment
      <4>2. panicked' = TRUE
        BY <2>5, <4>1 DEF V, thread_panic
      <4>3. Atomic!Overflow(s)
        BY <3>1, <3>4, <4>1, <4>2 DEF Atomic!Overflow
      <4> QED BY <4>3 DEF Atomic!Next
    <3> QED BY <3>2, <3>3, <3>4, SemAssumption
  <2> QED BY <2>2, <2>3, <2>4, <2>5
          DEF Next, scheduler, thread_yield, vars, switchVars
<1> QED BY <1>1, <1>2, TypeCorrect, CountCorrect, PTL
        DEF Spec, ImplementsAtomicSafety

=============================================================================
