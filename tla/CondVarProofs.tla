---------------------------- MODULE CondVarProofs ----------------------------
(***************************************************************************)
(* Proofs about CondVar, for any finite set of threads and any condition   *)
(* variables, locks and conventions of which is signalled: what LockProofs *)
(* shows of the locks survives the steps of the condition variables, and   *)
(* no broadcast is missed.                                                 *)
(***************************************************************************)
EXTENDS CondVar, LockProofs

\* The addresses of cvs, of locks and NULL are different.
LEMMA Addresses ==
  ASSUME NEW c \in CVs
  PROVE  c \in Addrs /\ c # NULL /\ c \notin Locks /\ LockOf[c] \in Locks
BY CvAssumption, ThreadAssumption

LEMMA RemoveFirst ==
  ASSUME NEW s \in Seq(Threads), 1 \in DOMAIN s
  PROVE  s # <<>> /\ array_remove(s, 1) = Tail(s) /\ Head(s) = s[1]
BY DEF array_remove

\* The steps of the condition variables.
CvStep ==
  \E t \in Threads, c \in CVs :
    \/ cv_wait(t, c) \/ cv_wait_resume(t, c)
    \/ cv_signal(t, c) \/ cv_broadcast(t, c) \/ consume(t, c)

LEMMA CvNextCases == CvNext => ([Next]_vars /\ UNCHANGED cond) \/ CvStep
BY DEF CvNext, CvStep

-----------------------------------------------------------------------------
(* Types *)

\* cv_wait once it has the lock.
WaitStep(t, c) ==
  /\ Running(t) /\ lock_do_i_hold(t, LockOf[c]) /\ ~cond[c]
  /\ owner' = [owner EXCEPT ![LockOf[c]] = NULL]
  /\ held' = [held EXCEPT ![t] = @ \ {LockOf[c]}]
  /\ runqueue' = runqueue \o Awakened(LockOf[c])
  /\ thread_sleep(c, StillAsleep(LockOf[c]))
  /\ UNCHANGED <<panicked, cond>>

LEMMA WaitCases ==
  ASSUME NEW t, NEW c, cv_wait(t, c)
  PROVE  /\ Running(t) /\ Checked(t, c)
         /\ \/ ~lock_do_i_hold(t, LockOf[c]) /\ AssertFails /\ UNCHANGED cond
            \/ lock_do_i_hold(t, LockOf[c]) /\ WaitStep(t, c)
BY DEF cv_wait, WaitStep

\* cv_wait leaves in the table the sleepers on other addresses and the caller.
LEMMA WaitTable ==
  ASSUME LockTypeOK, NEW t \in Threads, NEW c \in CVs, WaitStep(t, c)
  PROVE  /\ sleepers' \in Seq(Threads) /\ runqueue' \in Seq(Threads)
         /\ Range(sleepers') =
              {u \in Range(sleepers) : t_sleepaddr[u] # LockOf[c]} \cup {t}
         /\ t_sleepaddr' = [t_sleepaddr EXCEPT ![t] = c]
<1>1. curthread = t
  BY DEF WaitStep, Running
<1>2. /\ StillAsleep(LockOf[c]) \in Seq(Threads) /\ Awakened(LockOf[c]) \in Seq(Threads)
      /\ runqueue \in Seq(Threads)
  BY WakeupType DEF LockTypeOK, SwitchTypeOK
<1>3. Range(StillAsleep(LockOf[c])) = {u \in Range(sleepers) : t_sleepaddr[u] # LockOf[c]}
  BY StillAsleepRange DEF LockTypeOK
<1>4. /\ sleepers' = Append(StillAsleep(LockOf[c]), t)
      /\ t_sleepaddr' = [t_sleepaddr EXCEPT ![t] = c]
      /\ runqueue' = runqueue \o Awakened(LockOf[c])
  BY <1>1 DEF WaitStep, thread_sleep
<1>5. /\ sleepers' \in Seq(Threads)
      /\ Range(sleepers') = Range(StillAsleep(LockOf[c])) \cup {t}
  BY <1>2, <1>4, AppendFacts
<1>6. runqueue' \in Seq(Threads)
  BY <1>2, <1>4
<1> QED
  BY <1>3, <1>4, <1>5, <1>6

\* What thread_wakeone does to the tables, whatever its index is.
LEMMA WakeoneTable ==
  ASSUME LockTypeOK, NEW c, NEW i \in Int, thread_wakeone(c, i)
  PROVE  /\ sleepers' \in Seq(Threads) /\ runqueue' \in Seq(Threads)
         /\ panicked' \in BOOLEAN
         /\ Range(sleepers') \subseteq Range(sleepers)
<1>1. sleepers \in Seq(Threads) /\ runqueue \in Seq(Threads) /\ panicked \in BOOLEAN
  BY DEF LockTypeOK, SwitchTypeOK
<1>2. CASE thread_panic
  BY <1>2 DEF thread_panic, Range
<1>3. CASE /\ i + 1 \in SleepersOn(c)
           /\ sleepers' = array_remove(sleepers, 1)
           /\ runqueue' = Append(runqueue, sleepers[i + 1])
           /\ UNCHANGED panicked
  <2>1. i + 1 \in DOMAIN sleepers /\ 1 \in DOMAIN sleepers
    BY <1>1, <1>3 DEF SleepersOn
  <2>2. sleepers # <<>> /\ sleepers' = Tail(sleepers)
    BY <1>1, <1>3, <2>1, RemoveFirst
  <2>3. sleepers' \in Seq(Threads) /\ Range(sleepers') \subseteq Range(sleepers)
    BY <1>1, <2>2, HeadTailFacts
  <2>4. sleepers[i + 1] \in Threads
    BY <1>1, <2>1
  <2>5. runqueue' \in Seq(Threads)
    BY <1>1, <1>3, <2>4
  <2> QED
    BY <1>1, <1>3, <2>3, <2>5
<1>4. CASE UNCHANGED <<sleepers, runqueue, panicked>>
  BY <1>1, <1>4
<1> QED
  BY <1>2, <1>3, <1>4 DEF thread_wakeone

LEMMA CvMisusedType ==
  ASSUME CvTypeOK, [CvNext]_cvVars
  PROVE  misused' \in BOOLEAN
<1>1. CASE [Next]_vars
  BY <1>1, LockTypeStep DEF CvTypeOK, LockTypeOK
<1>2. CASE CvStep
  BY <1>2 DEF CvStep, cv_wait, cv_wait_resume, cv_signal, cv_broadcast, consume,
              Checked, vars, CvTypeOK, LockTypeOK
<1> QED
  BY <1>1, <1>2, CvNextCases DEF cvVars

LEMMA CvTypeStep == CvTypeOK /\ [CvNext]_cvVars => CvTypeOK'
<1> SUFFICES ASSUME CvTypeOK, [CvNext]_cvVars PROVE CvTypeOK'
  OBVIOUS
<1> misused' \in BOOLEAN
  BY CvMisusedType
<1> USE DEF CvTypeOK
<1>1. CASE [Next]_vars /\ UNCHANGED cond
  BY <1>1, LockTypeStep
<1>2. CASE AssertFails /\ UNCHANGED cond
  BY <1>2, AssertType
<1>3. ASSUME NEW t \in Threads, NEW c \in CVs, WaitStep(t, c) PROVE CvTypeOK'
  <2>1. /\ owner' \in [Locks -> Threads \cup {NULL} \cup FreshOwner]
        /\ held' \in [Threads -> SUBSET Locks]
    BY <1>3 DEF WaitStep, LockTypeOK
  <2>2. /\ t_sleepaddr' \in [Threads -> Addrs \cup {NULL}]
        /\ curthread' = NULL /\ panicked' = panicked /\ cond' = cond
    BY <1>3, WaitTable, Addresses DEF WaitStep, thread_sleep, LockTypeOK, SwitchTypeOK
  <2> QED
    BY <1>3, <2>1, <2>2, WaitTable DEF LockTypeOK, SwitchTypeOK
<1>4. ASSUME NEW t \in Threads, NEW c \in CVs, cv_wait_resume(t, c) PROVE CvTypeOK'
  <2>1. curthread = t /\ cond' = cond /\ lock_acquire_body(t, LockOf[c])
    BY <1>4 DEF cv_wait_resume, Resumed
  <2>2. CASE AssertFails
    BY <1>2, <2>1, <2>2
  <2>3. CASE lock_acquire_loop(t, LockOf[c])
    BY <2>1, <2>3, LoopType, Addresses
  <2> QED
    BY <2>1, <2>2, <2>3 DEF lock_acquire_body
<1>5. ASSUME NEW t \in Threads, NEW c \in CVs, cv_signal(t, c) PROVE CvTypeOK'
  <2>1. CASE /\ cond' = [cond EXCEPT ![c] = TRUE]
             /\ \E i \in SignalIndex : thread_wakeone(c, i)
             /\ UNCHANGED <<curthread, t_sleepaddr, lockVars>>
    <3>1. PICK i \in Int : thread_wakeone(c, i)
      BY <2>1, CvAssumption
    <3> QED
      BY <2>1, <3>1, WakeoneTable DEF LockTypeOK, SwitchTypeOK, lockVars
  <2> QED
    BY <1>2, <1>5, <2>1 DEF cv_signal
<1>6. ASSUME NEW t \in Threads, NEW c \in CVs, cv_broadcast(t, c) PROVE CvTypeOK'
  <2>1. CASE /\ cond' = [cond EXCEPT ![c] = TRUE]
             /\ thread_wakeup(c)
             /\ UNCHANGED <<curthread, t_sleepaddr, panicked, lockVars>>
    <3>1. sleepers' \in Seq(Threads) /\ runqueue' \in Seq(Threads)
      BY <2>1, WakeupType DEF thread_wakeup, LockTypeOK, SwitchTypeOK
    <3> QED
      BY <2>1, <3>1 DEF LockTypeOK, SwitchTypeOK, lockVars
  <2> QED
    BY <1>2, <1>6, <2>1 DEF cv_broadcast
<1>7. ASSUME NEW t \in Threads, NEW c \in CVs, consume(t, c) PROVE CvTypeOK'
  <2>1. LockTypeOK'
    BY <1>7, LockTypeStep DEF consume
  <2> QED
    BY <1>7, <2>1 DEF consume
<1>8. CASE UNCHANGED cvVars
  BY <1>1, <1>8 DEF cvVars
<1> QED
  BY <1>1, <1>2, <1>3, <1>4, <1>5, <1>6, <1>7, <1>8, CvNextCases, WaitCases DEF CvStep

(* Tables and lock fields keep their types whatever index thread_wakeone     *)
(* finds in its unassigned variable.                                         *)
THEOREM CvTypeCorrect == CvSpec => []CvTypeOK
<1>1. CvInit => CvTypeOK
  BY LockTypeInit DEF CvInit, CvTypeOK
<1> QED
  BY <1>1, CvTypeStep, PTL DEF CvSpec

-----------------------------------------------------------------------------
(* Broadcasts *)

\* Nobody sleeps on a cv that is only broadcast while its condition holds.
BroadcastAwake ==
  \A c \in CVs \ SignalCVs : cond[c] => NoneAsleep(sleepers, t_sleepaddr, c)

\* A table that loses entries, with the sleep addresses left alone.
LEMMA FewerAsleep ==
  ASSUME NEW addr, NoneAsleep(sleepers, t_sleepaddr, addr),
         Range(sleepers') \subseteq Range(sleepers), UNCHANGED t_sleepaddr
  PROVE  NoneAsleep(sleepers', t_sleepaddr', addr)
BY DEF NoneAsleep

\* Lock's loop lets nobody sleep on a cv.
LEMMA LoopElsewhere ==
  ASSUME LockTypeOK, NEW c \in CVs, NoneAsleep(sleepers, t_sleepaddr, c),
         NEW t \in Threads, NEW l \in Locks, curthread = t, lock_acquire_loop(t, l)
  PROVE  NoneAsleep(sleepers', t_sleepaddr', c)
<1>1. /\ sleepers \in Seq(Threads) /\ Range(sleepers) \subseteq Threads
      /\ t_sleepaddr \in [Threads -> Addrs \cup {NULL}] /\ c # l /\ c # NULL
  BY Addresses DEF LockTypeOK, SwitchTypeOK, Range
<1>2. CASE thread_sleep(l, sleepers)
  <2>1. /\ Range(sleepers') = Range(sleepers) \cup {t}
        /\ t_sleepaddr' = [t_sleepaddr EXCEPT ![t] = l]
    BY <1>1, <1>2, AppendFacts DEF thread_sleep
  <2> QED
    BY <1>1, <2>1 DEF NoneAsleep
<1>3. CASE ReturnFromSleep /\ UNCHANGED sleepers
  <2>1. t_sleepaddr' = [t_sleepaddr EXCEPT ![t] = NULL]
    BY <1>3 DEF ReturnFromSleep
  <2> QED
    BY <1>1, <1>3, <2>1 DEF NoneAsleep
<1> QED
  BY <1>2, <1>3 DEF lock_acquire_loop

\* A failed assertion empties the table.
LEMMA AssertEmpties ==
  ASSUME AssertFails, NEW addr
  PROVE  NoneAsleep(sleepers', t_sleepaddr', addr)
BY DEF AssertFails, thread_panic, NoneAsleep, Range

LEMMA LockElsewhere ==
  ASSUME LockTypeOK, NEW c \in CVs, NoneAsleep(sleepers, t_sleepaddr, c), [Next]_vars
  PROVE  NoneAsleep(sleepers', t_sleepaddr', c)
<1>1. CASE UNCHANGED <<sleepers, t_sleepaddr>>
  BY <1>1
<1>2. CASE AssertFails
  BY <1>2, AssertEmpties
<1>3. ASSUME NEW t \in Threads, NEW l \in Locks, curthread = t, lock_acquire_loop(t, l)
      PROVE  NoneAsleep(sleepers', t_sleepaddr', c)
  BY <1>3, LoopElsewhere
<1>4. ASSUME NEW l \in Locks, thread_wakeup(l), UNCHANGED t_sleepaddr
      PROVE  NoneAsleep(sleepers', t_sleepaddr', c)
  <2>1. Range(sleepers') = {u \in Range(sleepers) : t_sleepaddr[u] # l}
    BY <1>4, StillAsleepRange DEF thread_wakeup, LockTypeOK
  <2> QED
    BY <1>4, <2>1, FewerAsleep
<1> QED
  BY <1>1, <1>2, <1>3, <1>4
  DEF Next, lock_acquire, lock_acquire_resume, lock_acquire_body, lock_release,
      Running, Resumed, scheduler, thread_yield, vars, switchVars

LEMMA BroadcastStep ==
  ASSUME CvTypeOK, BroadcastAwake, [CvNext]_cvVars
  PROVE  BroadcastAwake'
<1> SUFFICES ASSUME NEW d \in CVs \ SignalCVs, cond'[d]
             PROVE  NoneAsleep(sleepers', t_sleepaddr', d)
  BY DEF BroadcastAwake, NoneAsleep
<1>1. LockTypeOK /\ cond \in [CVs -> BOOLEAN]
  BY DEF CvTypeOK
<1>2. cond[d] => NoneAsleep(sleepers, t_sleepaddr, d)
  BY DEF BroadcastAwake
<1>3. CASE [Next]_vars /\ UNCHANGED cond
  BY <1>1, <1>2, <1>3, LockElsewhere
<1>4. CASE AssertFails
  BY <1>4, AssertEmpties
<1>5. ASSUME NEW t \in Threads, NEW c \in CVs, WaitStep(t, c)
      PROVE  NoneAsleep(sleepers', t_sleepaddr', d)
  <2>1. c # d /\ NoneAsleep(sleepers, t_sleepaddr, d)
    BY <1>2, <1>5 DEF WaitStep
  <2>2. t_sleepaddr \in [Threads -> Addrs \cup {NULL}] /\ Range(sleepers) \subseteq Threads
    BY <1>1 DEF LockTypeOK, SwitchTypeOK, Range
  <2> QED
    BY <1>1, <1>5, <2>1, <2>2, WaitTable DEF NoneAsleep
<1>6. ASSUME NEW t \in Threads, NEW c \in CVs, curthread = t, UNCHANGED cond,
             lock_acquire_loop(t, LockOf[c])
      PROVE  NoneAsleep(sleepers', t_sleepaddr', d)
  BY <1>1, <1>2, <1>6, LoopElsewhere, Addresses
<1>7. ASSUME NEW c \in SignalCVs, cond' = [cond EXCEPT ![c] = TRUE], UNCHANGED t_sleepaddr,
             \E i \in SignalIndex : thread_wakeone(c, i)
      PROVE  NoneAsleep(sleepers', t_sleepaddr', d)
  <2>1. Range(sleepers') \subseteq Range(sleepers)
    BY <1>1, <1>7, CvAssumption, WakeoneTable
  <2>2. cond[d]
    BY <1>1, <1>7
  <2> QED
    BY <1>2, <1>7, <2>1, <2>2, FewerAsleep
<1>8. ASSUME NEW c \in CVs, cond' = [cond EXCEPT ![c] = TRUE], UNCHANGED t_sleepaddr,
             thread_wakeup(c)
      PROVE  NoneAsleep(sleepers', t_sleepaddr', d)
  <2>1. Range(sleepers') = {u \in Range(sleepers) : t_sleepaddr[u] # c}
    BY <1>1, <1>8, StillAsleepRange DEF thread_wakeup, LockTypeOK
  <2>2. d = c \/ NoneAsleep(sleepers, t_sleepaddr, d)
    BY <1>1, <1>2, <1>8
  <2> QED
    BY <1>8, <2>1, <2>2 DEF NoneAsleep
<1>9. ASSUME NEW t \in Threads, NEW c \in CVs, consume(t, c)
      PROVE  NoneAsleep(sleepers', t_sleepaddr', d)
  BY <1>1, <1>2, <1>9 DEF consume, vars, switchVars
<1>10. CASE UNCHANGED cvVars
  BY <1>3, <1>10 DEF cvVars
<1> QED
  BY <1>3, <1>4, <1>5, <1>6, <1>7, <1>8, <1>9, <1>10, CvNextCases, WaitCases
  DEF CvStep, cv_wait_resume, cv_signal, cv_broadcast, lock_acquire_body, Resumed

(* Nobody sleeps on a cv that is only broadcast while its condition holds:   *)
(* whoever saw it false was in the table before anybody could make it true.  *)
THEOREM BroadcastCorrect == CvSpec => []NoMissedBroadcast
<1>1. CvInit => BroadcastAwake
  BY DEF CvInit, BroadcastAwake
<1>2. CvTypeOK /\ BroadcastAwake /\ [CvNext]_cvVars => BroadcastAwake'
  BY BroadcastStep
<1>3. BroadcastAwake => NoMissedBroadcast
  BY HasSleepers DEF BroadcastAwake, NoneAsleep, NoMissedBroadcast
<1> QED
  BY <1>1, <1>2, <1>3, CvTypeCorrect, PTL DEF CvSpec

-----------------------------------------------------------------------------
(* Locks among condition variables *)

LEMMA CvOwnershipStep ==
  ASSUME [CvNext]_cvVars
  PROVE  OwnershipMoves
<1>1. CASE [Next]_vars
  BY <1>1, OwnershipStep
<1>2. CASE AssertFails
  BY <1>2 DEF AssertFails, OwnershipMoves
<1>3. ASSUME NEW t \in Threads, NEW c \in CVs, WaitStep(t, c) PROVE OwnershipMoves
  BY <1>3, Addresses DEF WaitStep, lock_do_i_hold, GivesUp, OwnershipMoves
<1>4. ASSUME NEW t \in Threads, NEW c \in CVs, curthread = t,
             lock_acquire_loop(t, LockOf[c])
      PROVE  OwnershipMoves
  BY <1>4, Addresses DEF lock_acquire_loop, Takes, ReturnFromSleep, OwnershipMoves
<1>5. ASSUME NEW t \in Threads, NEW c \in CVs,
             cv_signal(t, c) \/ cv_broadcast(t, c) \/ consume(t, c)
      PROVE  OwnershipMoves
  BY <1>5 DEF cv_signal, cv_broadcast, consume, AssertFails, vars, OwnershipMoves
<1> QED
  BY <1>1, <1>2, <1>3, <1>4, <1>5, CvNextCases, WaitCases
  DEF CvStep, cv_wait_resume, lock_acquire_body, Resumed, cvVars

\* The thread that holds a lock is its owner, and conversely.
LEMMA CvOwnersAlways ==
  ASSUME FreshOwner = {NULL}
  PROVE  CvSpec => [](HolderOwns /\ OwnerHolds)
<1>1. CvInit => HolderOwns /\ OwnerHolds
  BY DEF CvInit, Init, HolderOwns, OwnerHolds
<1>2. CvTypeOK /\ HolderOwns /\ OwnerHolds /\ [CvNext]_cvVars => HolderOwns' /\ OwnerHolds'
  BY CvOwnershipStep, HolderOwnsStep, OwnerHoldsStep DEF CvTypeOK
<1> QED
  BY <1>1, <1>2, CvTypeCorrect, PTL DEF CvSpec

(* cv_wait gives the lock up and takes it again without lock_do_i_hold ever  *)
(* answering wrongly.                                                        *)
THEOREM CvHoldCorrect ==
  ASSUME FreshOwner = {NULL}
  PROVE  CvSpec => []HoldIsTruth
<1>1. HolderOwns /\ OwnerHolds => HoldIsTruth
  BY ThreadAssumption DEF HolderOwns, OwnerHolds, HoldIsTruth, lock_do_i_hold
<1> QED
  BY <1>1, CvOwnersAlways, PTL

LEMMA CvUnownedStep ==
  ASSUME CvTypeOK, UnownedAwake, [CvNext]_cvVars
  PROVE  UnownedAwake'
<1>1. LockTypeOK
  BY DEF CvTypeOK
<1>2. CASE [Next]_vars
  BY <1>1, <1>2, UnownedAwakeStep
<1>3. CASE AssertFails
  BY <1>3, AssertEmpties DEF UnownedAwake, NoneAsleep
<1>4. ASSUME NEW t \in Threads, NEW c \in CVs, WaitStep(t, c) PROVE UnownedAwake'
  <2> SUFFICES ASSUME NEW m \in Locks, owner'[m] = NULL
               PROVE  NoneAsleep(sleepers', t_sleepaddr', m)
    BY DEF UnownedAwake, NoneAsleep
  <2>1. m = LockOf[c] \/ NoneAsleep(sleepers, t_sleepaddr, m)
    BY <1>1, <1>4 DEF WaitStep, UnownedAwake, LockTypeOK
  <2>2. t_sleepaddr \in [Threads -> Addrs \cup {NULL}] /\ Range(sleepers) \subseteq Threads
    BY <1>1 DEF LockTypeOK, SwitchTypeOK, Range
  <2>3. m # c
    BY Addresses
  <2> QED
    BY <1>1, <1>4, <2>1, <2>2, <2>3, WaitTable DEF NoneAsleep
<1>5. ASSUME NEW t \in Threads, NEW c \in CVs, curthread = t,
             lock_acquire_loop(t, LockOf[c])
      PROVE  UnownedAwake'
  BY <1>1, <1>5, LoopUnowned, Addresses
<1>6. ASSUME Range(sleepers') \subseteq Range(sleepers), UNCHANGED <<t_sleepaddr, lockVars>>
      PROVE  UnownedAwake'
  BY <1>6, FewerAsleep DEF UnownedAwake, NoneAsleep, lockVars
<1>7. ASSUME NEW c \in CVs, \E i \in SignalIndex : thread_wakeone(c, i),
             UNCHANGED <<t_sleepaddr, lockVars>>
      PROVE  UnownedAwake'
  BY <1>1, <1>6, <1>7, CvAssumption, WakeoneTable
<1>8. ASSUME NEW c \in CVs, thread_wakeup(c), UNCHANGED <<t_sleepaddr, lockVars>>
      PROVE  UnownedAwake'
  <2>1. Range(sleepers') \subseteq Range(sleepers)
    BY <1>1, <1>8, StillAsleepRange DEF thread_wakeup, LockTypeOK
  <2> QED
    BY <1>6, <1>8, <2>1
<1>9. ASSUME NEW t \in Threads, NEW c \in CVs, consume(t, c) PROVE UnownedAwake'
  BY <1>2, <1>9 DEF consume
<1> QED
  BY <1>2, <1>3, <1>4, <1>5, <1>7, <1>8, <1>9, CvNextCases, WaitCases
  DEF CvStep, cv_wait_resume, cv_signal, cv_broadcast, lock_acquire_body, Resumed, cvVars

(* Nobody sleeps on a lock that nobody holds, though cv_wait gives it up     *)
(* without lock_release's own code.                                          *)
THEOREM CvSleeperCorrect ==
  ASSUME FreshOwner = {NULL}
  PROVE  CvSpec => []NoSleeperOnFree
<1>1. CvInit => UnownedAwake
  BY DEF CvInit, Init, SwitchInit, UnownedAwake, NoneAsleep, Range
<1>2. CvTypeOK /\ UnownedAwake /\ [CvNext]_cvVars => UnownedAwake'
  BY CvUnownedStep
<1>3. OwnerHolds /\ UnownedAwake => NoSleeperOnFree
  <2> SUFFICES ASSUME OwnerHolds, UnownedAwake, NEW l \in Locks, Free(l)
               PROVE  ~thread_hassleepers(l)
    BY DEF NoSleeperOnFree
  <2>1. owner[l] = NULL
    BY DEF OwnerHolds, Free
  <2> QED
    BY <2>1, HasSleepers DEF UnownedAwake, NoneAsleep
<1> QED
  BY <1>1, <1>2, <1>3, CvTypeCorrect, CvOwnersAlways, PTL DEF CvSpec

-----------------------------------------------------------------------------
(* Placement *)

LEMMA WaitPlaced ==
  ASSUME LockTypeOK, Placed(runqueue, sleepers, curthread, t_sleepaddr),
         NEW t \in Threads, NEW c \in CVs, WaitStep(t, c)
  PROVE  Placed(runqueue', sleepers', curthread', t_sleepaddr')
<1> DEFINE l == LockOf[c]
<1>1. /\ sleepers \in Seq(Threads) /\ runqueue \in Seq(Threads) /\ curthread = t
      /\ t_sleepaddr \in [Threads -> Addrs \cup {NULL}] /\ c \in Addrs
  BY Addresses DEF LockTypeOK, SwitchTypeOK, WaitStep, Running
<1>2. SleepersOn(l) \in SUBSET (DOMAIN sleepers)
  BY DEF SleepersOn
<1>3. Placed(runqueue \o Awakened(l), StillAsleep(l), t, t_sleepaddr)
  BY <1>1, <1>2, WakeupPlaced DEF StillAsleep, Awakened
<1>4. runqueue' \in Seq(Threads) /\ StillAsleep(l) \in Seq(Threads)
  BY WaitTable, WakeupType DEF LockTypeOK
<1>5. /\ runqueue' = runqueue \o Awakened(l) /\ sleepers' = Append(StillAsleep(l), t)
      /\ t_sleepaddr' = [t_sleepaddr EXCEPT ![t] = c] /\ curthread' = NULL
  BY <1>1 DEF WaitStep, thread_sleep
<1> QED
  BY <1>1, <1>3, <1>4, <1>5, SleepPlaced

LEMMA CvPlacementStep ==
  ASSUME SignalCVs = {}
  PROVE  CvTypeOK /\ Placement /\ [CvNext]_cvVars => Placement'
<1> SUFFICES ASSUME CvTypeOK, Placement, [CvNext]_cvVars PROVE Placement'
  OBVIOUS
<1>1. /\ LockTypeOK /\ runqueue \in Seq(Threads) /\ sleepers \in Seq(Threads)
      /\ t_sleepaddr \in [Threads -> Addrs \cup {NULL}]
  BY DEF CvTypeOK, LockTypeOK, SwitchTypeOK
<1>2. CASE [Next]_vars
  BY <1>1, <1>2, PlacementStep
<1>3. CASE AssertFails
  BY <1>3 DEF AssertFails, thread_panic, Placement
<1>4. ASSUME NEW t \in Threads, NEW c \in CVs, WaitStep(t, c) PROVE Placement'
  BY <1>1, <1>4, WaitPlaced DEF Placement, Placed, WaitStep, Running
<1>5. ASSUME NEW t \in Threads, NEW c \in CVs, curthread = t, ~panicked,
             lock_acquire_loop(t, LockOf[c])
      PROVE  Placement'
  BY <1>1, <1>5, LoopPlaced, Addresses DEF Placement, Placed
<1>7. ASSUME NEW c \in CVs, ~panicked, thread_wakeup(c),
             UNCHANGED <<curthread, t_sleepaddr, panicked>>
      PROVE  Placement'
  <2>1. SleepersOn(c) \in SUBSET (DOMAIN sleepers)
    BY DEF SleepersOn
  <2>2. Placed(runqueue', sleepers', curthread, t_sleepaddr)
    BY <1>1, <1>7, <2>1, WakeupPlaced DEF thread_wakeup, StillAsleep, Awakened, Placement
  <2> QED
    BY <1>7, <2>2 DEF Placement, Placed
<1>8. ASSUME NEW t \in Threads, NEW c \in CVs, consume(t, c) PROVE Placement'
  BY <1>2, <1>8 DEF consume
<1> QED
  BY <1>2, <1>3, <1>4, <1>5, <1>7, <1>8, CvNextCases, WaitCases
  DEF CvStep, cv_wait_resume, cv_signal, cv_broadcast, lock_acquire_body, Resumed,
      Running, cvVars

(* Every thread is in exactly one place if nobody calls cv_signal: cv_wait   *)
(* and cv_broadcast neither lose a thread nor let it run twice.  With        *)
(* cv_signal it is false, unless its index happens to be 0.                  *)
THEOREM CvPlacementCorrect ==
  ASSUME SignalCVs = {}
  PROVE  CvSpec => []Placement
<1>1. CvInit => Placement
  BY InitPlaced DEF CvInit, Init
<1> QED
  BY <1>1, CvPlacementStep, CvTypeCorrect, PTL DEF CvSpec

-----------------------------------------------------------------------------
(* Monitors *)

\* Threads sleep on locks and cvs only.
SleepAddresses == \A t \in Threads : t_sleepaddr[t] \in Locks \cup CVs \cup {NULL}

LEMMA SleepAddressesStep == CvTypeOK /\ SleepAddresses /\ [CvNext]_cvVars => SleepAddresses'
<1> SUFFICES ASSUME CvTypeOK, SleepAddresses, [CvNext]_cvVars PROVE SleepAddresses'
  OBVIOUS
<1>1. t_sleepaddr \in [Threads -> Addrs \cup {NULL}]
  BY DEF CvTypeOK, LockTypeOK, SwitchTypeOK
<1>2. CASE UNCHANGED t_sleepaddr
  BY <1>2 DEF SleepAddresses
<1>3. ASSUME NEW t \in Threads, NEW a \in Locks \cup CVs \cup {NULL},
             t_sleepaddr' = [t_sleepaddr EXCEPT ![t] = a]
      PROVE  SleepAddresses'
  BY <1>1, <1>3 DEF SleepAddresses
<1>4. ASSUME NEW t \in Threads, NEW l \in Locks, curthread = t, lock_acquire_loop(t, l)
      PROVE  SleepAddresses'
  BY <1>3, <1>4 DEF lock_acquire_loop, thread_sleep, ReturnFromSleep
<1>5. CASE [Next]_vars
  BY <1>2, <1>4, <1>5
  DEF Next, lock_acquire, lock_acquire_resume, lock_acquire_body, lock_release, AssertFails,
      Running, Resumed, scheduler, thread_yield, vars, switchVars
<1>6. ASSUME NEW t \in Threads, NEW c \in CVs, WaitStep(t, c) PROVE SleepAddresses'
  BY <1>3, <1>6 DEF WaitStep, Running, thread_sleep
<1>7. ASSUME NEW t \in Threads, NEW c \in CVs, curthread = t, lock_acquire_loop(t, LockOf[c])
      PROVE  SleepAddresses'
  BY <1>4, <1>7, Addresses
<1> QED
  BY <1>2, <1>5, <1>6, <1>7, CvNextCases, WaitCases
  DEF CvStep, cv_wait_resume, cv_signal, cv_broadcast, consume, lock_acquire_body,
      AssertFails, Resumed, cvVars, vars, switchVars

\* A thread inside cv_wait, asleep or woken, has let go of the lock.
LetGo ==
  \A t \in Threads : t_sleepaddr[t] \in CVs => LockOf[t_sleepaddr[t]] \notin held[t]

LEMMA LetGoStep == CvTypeOK /\ LetGo /\ [CvNext]_cvVars => LetGo'
<1> SUFFICES ASSUME CvTypeOK, LetGo, [CvNext]_cvVars PROVE LetGo'
  OBVIOUS
<1>1. /\ t_sleepaddr \in [Threads -> Addrs \cup {NULL}] /\ held \in [Threads -> SUBSET Locks]
      /\ NULL \notin CVs /\ CVs \cap Locks = {}
  BY CvAssumption, ThreadAssumption DEF CvTypeOK, LockTypeOK, SwitchTypeOK
<1>2. ASSUME \A u \in Threads : held'[u] \subseteq held[u], UNCHANGED t_sleepaddr
      PROVE  LetGo'
  BY <1>2 DEF LetGo
<1>3. CASE UNCHANGED <<held, t_sleepaddr>>
  BY <1>2, <1>3
<1>4. ASSUME NEW t \in Threads, NEW l \in Locks, curthread = t, lock_acquire_loop(t, l)
      PROVE  LetGo'
  <2>1. CASE UNCHANGED held /\ t_sleepaddr' = [t_sleepaddr EXCEPT ![t] = l]
    BY <1>1, <2>1 DEF LetGo
  <2>2. CASE /\ held' = [held EXCEPT ![t] = @ \cup {l}]
             /\ t_sleepaddr' = [t_sleepaddr EXCEPT ![t] = NULL]
    BY <1>1, <2>2 DEF LetGo
  <2> QED
    BY <1>4, <2>1, <2>2 DEF lock_acquire_loop, thread_sleep, ReturnFromSleep, lockVars
<1>5. ASSUME NEW t \in Threads, NEW l \in Locks,
             held' = [held EXCEPT ![t] = @ \ {l}], UNCHANGED t_sleepaddr
      PROVE  LetGo'
  BY <1>1, <1>2, <1>5
<1>6. ASSUME NEW t \in Threads, NEW c \in CVs, WaitStep(t, c) PROVE LetGo'
  <2>1. /\ t_sleepaddr' = [t_sleepaddr EXCEPT ![t] = c]
        /\ held' = [held EXCEPT ![t] = @ \ {LockOf[c]}]
    BY <1>6 DEF WaitStep, thread_sleep, Running
  <2> QED
    BY <1>1, <2>1 DEF LetGo
<1>7. CASE [Next]_vars
  BY <1>3, <1>4, <1>5, <1>7
  DEF Next, lock_acquire, lock_acquire_resume, lock_acquire_body, lock_release, AssertFails,
      Running, Resumed, scheduler, thread_yield, vars, switchVars, lockVars
<1>8. ASSUME NEW t \in Threads, NEW c \in CVs, curthread = t, lock_acquire_loop(t, LockOf[c])
      PROVE  LetGo'
  BY <1>4, <1>8, Addresses
<1> QED
  BY <1>3, <1>6, <1>7, <1>8, CvNextCases, WaitCases
  DEF CvStep, cv_wait_resume, cv_signal, cv_broadcast, consume, lock_acquire_body,
      AssertFails, Resumed, cvVars, vars, switchVars, lockVars

LEMMA LetGoAlways == CvSpec => []LetGo
<1>1. CvInit => LetGo
  BY CvAssumption, ThreadAssumption DEF CvInit, Init, SwitchInit, LetGo
<1> QED
  BY <1>1, LetGoStep, CvTypeCorrect, PTL DEF CvSpec

(* The kernel stops at a call that breaks the rules or in cv_signal, and     *)
(* nowhere else: no lock_acquire or lock_release, alone or inside cv_wait,   *)
(* is surprised by who owns the lock, if locks start without owner.          *)
THEOREM StopsCorrect ==
  ASSUME FreshOwner = {NULL}
  PROVE  CvSpec => []StopsInSignal
<1> DEFINE Inv == CvTypeOK /\ LetGo /\ HolderOwns /\ OwnerHolds
<1>1. CvInit => StopsInSignal
  BY DEF CvInit, Init, SwitchInit, StopsInSignal
<1>2. Inv /\ StopsInSignal /\ [CvNext]_cvVars => StopsInSignal'
  <2> SUFFICES ASSUME Inv, StopsInSignal, [CvNext]_cvVars PROVE StopsInSignal'
    OBVIOUS
  <2>1. \A t \in Threads, l \in Locks : lock_do_i_hold(t, l) <=> l \in held[t]
    BY ThreadAssumption DEF HolderOwns, OwnerHolds, lock_do_i_hold
  <2>2. panicked \in BOOLEAN /\ misused \in BOOLEAN
    BY DEF CvTypeOK, LockTypeOK, SwitchTypeOK
  <2>3. CASE UNCHANGED <<curthread, panicked, misused, held>>
    BY <2>3 DEF StopsInSignal
  <2>4. CASE ~panicked /\ UNCHANGED panicked
    BY <2>4 DEF StopsInSignal
  <2>5. CASE misused' = TRUE
    BY <2>5 DEF StopsInSignal
  <2>6. ASSUME NEW t \in Threads, NEW l \in Locks, ~panicked, lock_acquire_loop(t, l)
        PROVE  StopsInSignal'
    BY <2>4, <2>6 DEF lock_acquire_loop
  <2>7. CASE [Next]_vars
    <3>1. ASSUME NEW t \in Threads, NEW l \in Locks, lock_acquire(t, l)
          PROVE  StopsInSignal'
      BY <2>1, <2>5, <2>6, <3>1 DEF lock_acquire, lock_acquire_body, Running
    <3>2. ASSUME NEW t \in Threads, NEW l \in Locks, lock_release(t, l)
          PROVE  StopsInSignal'
      BY <2>1, <2>4, <2>5, <3>2 DEF lock_release, Running
    <3>3. ASSUME NEW t \in Threads, NEW l \in Locks, lock_acquire_resume(t, l)
          PROVE  StopsInSignal'
      BY <2>6, <3>3 DEF lock_acquire_resume, Resumed
    <3> QED
      BY <2>3, <2>4, <2>7, <3>1, <3>2, <3>3
      DEF Next, scheduler, thread_yield, Running, vars, switchVars, lockVars
  <2>8. ASSUME NEW t \in Threads, NEW c \in CVs, cv_wait(t, c) PROVE StopsInSignal'
    <3>1. Running(t) /\ Checked(t, c) /\ LockOf[c] \in Locks
      BY <2>8, WaitCases, Addresses
    <3>2. CASE WaitStep(t, c)
      BY <2>4, <3>1, <3>2 DEF WaitStep, Running
    <3>3. CASE ~lock_do_i_hold(t, LockOf[c])
      BY <2>1, <2>5, <3>1, <3>3 DEF Checked
    <3> QED
      BY <2>8, <3>2, <3>3, WaitCases
  <2>9. ASSUME NEW t \in Threads, NEW c \in CVs, cv_wait_resume(t, c)
        PROVE  StopsInSignal'
    <3>1. /\ ~panicked /\ t_sleepaddr[t] = c /\ LockOf[c] \in Locks
          /\ lock_acquire_body(t, LockOf[c])
      BY <2>9, Addresses DEF cv_wait_resume, Resumed
    <3>2. ~lock_do_i_hold(t, LockOf[c])
      BY <2>1, <3>1 DEF LetGo
    <3> QED
      BY <2>6, <3>1, <3>2 DEF lock_acquire_body
  <2>10. ASSUME NEW t \in Threads, NEW c \in CVs, cv_signal(t, c) PROVE StopsInSignal'
    <3>1. Running(t) /\ Checked(t, c) /\ LockOf[c] \in Locks /\ c \in SignalCVs
      BY <2>10, Addresses DEF cv_signal
    <3>2. CASE lock_do_i_hold(t, LockOf[c]) /\ UNCHANGED <<curthread, t_sleepaddr, lockVars>>
      <4>1. curthread' = t /\ LockOf[c] \in held'[t]
        BY <2>1, <3>1, <3>2 DEF lockVars, Running
      <4> QED BY <3>1, <4>1 DEF StopsInSignal
    <3>3. CASE ~lock_do_i_hold(t, LockOf[c])
      BY <2>1, <2>5, <3>1, <3>3 DEF Checked
    <3> QED
      BY <2>10, <3>2, <3>3 DEF cv_signal
  <2>11. ASSUME NEW t \in Threads, NEW c \in CVs, cv_broadcast(t, c)
         PROVE  StopsInSignal'
    <3>1. Running(t) /\ Checked(t, c) /\ LockOf[c] \in Locks
      BY <2>11, Addresses DEF cv_broadcast
    <3>2. CASE UNCHANGED panicked
      BY <2>4, <3>1, <3>2 DEF Running
    <3>3. CASE ~lock_do_i_hold(t, LockOf[c])
      BY <2>1, <2>5, <3>1, <3>3 DEF Checked
    <3> QED
      BY <2>11, <3>2, <3>3 DEF cv_broadcast
  <2>12. ASSUME NEW t \in Threads, NEW c \in CVs, consume(t, c) PROVE StopsInSignal'
    BY <2>3, <2>12 DEF consume, vars, switchVars, lockVars
  <2> QED
    BY <2>3, <2>7, <2>8, <2>9, <2>10, <2>11, <2>12, CvNextCases
    DEF CvStep, cvVars, vars, switchVars, lockVars
<1> QED
  BY <1>1, <1>2, CvTypeCorrect, LetGoAlways, CvOwnersAlways, PTL DEF CvSpec

\* What the refinement rests on.
MonitorInv ==
  CvTypeOK /\ Placement /\ SleepAddresses /\ LetGo /\ HolderOwns /\ OwnerHolds

LEMMA MonitorTypes ==
  ASSUME MonitorInv
  PROVE  /\ LockTypeOK /\ sleepers \in Seq(Threads) /\ Range(sleepers) \subseteq Threads
         /\ t_sleepaddr \in [Threads -> Locks \cup CVs \cup {NULL}]
         /\ misused \in BOOLEAN
         /\ \A c \in CVs : LockOf[c] \in Locks
BY Addresses DEF MonitorInv, CvTypeOK, LockTypeOK, SwitchTypeOK, SleepAddresses, Range

\* A step that neither moves a sleeper of a cv nor changes an address.
LEMMA SameWaiting ==
  ASSUME UNCHANGED t_sleepaddr,
         \A u \in Threads : t_sleepaddr[u] \in CVs =>
           (u \in Range(sleepers') <=> u \in Range(sleepers))
  PROVE  WaitingFor' = WaitingFor
BY DEF WaitingFor

\* lock_do_i_hold is right about every thread and lock.
LEMMA HoldsTrue ==
  ASSUME MonitorInv, NEW t \in Threads, NEW l \in Locks
  PROVE  lock_do_i_hold(t, l) <=> l \in held[t]
BY ThreadAssumption DEF MonitorInv, HolderOwns, OwnerHolds, lock_do_i_hold

\* A call that breaks the rules stops the kernel.
LEMMA MisuseStops ==
  ASSUME MonitorInv, NEW t \in Threads, Running(t), AssertFails, misused' = TRUE
  PROVE  AbstractMonitor!Stop
<1>1. ~panicked /\ panicked' = TRUE /\ UNCHANGED <<t_sleepaddr, held>>
  BY DEF Running, AssertFails, thread_panic, lockVars
<1>2. WaitingFor' \in [Threads -> Locks \cup CVs \cup {NULL}]
  BY <1>1, MonitorTypes DEF WaitingFor
<1>3. WaitingFor[t] = NULL
  BY CvAssumption, ThreadAssumption DEF Running, WaitingFor
<1> QED
  BY <1>1, <1>2, <1>3 DEF AbstractMonitor!Stop

\* lock_acquire's loop, from the call or after a sleep on the lock or on a cv.
LEMMA LoopImplements ==
  ASSUME MonitorInv, NEW t \in Threads, NEW l \in Locks, ~panicked, curthread = t,
         \/ t_sleepaddr[t] = NULL /\ owner[l] # t
         \/ t_sleepaddr[t] = l
         \/ t_sleepaddr[t] \in CVs /\ LockOf[t_sleepaddr[t]] = l,
         lock_acquire_loop(t, l), UNCHANGED misused
  PROVE  AbstractMonitor!Next \/ UNCHANGED AbstractMonitor!vars
<1>1. /\ sleepers \in Seq(Threads) /\ Range(sleepers) \subseteq Threads
      /\ t_sleepaddr \in [Threads -> Locks \cup CVs \cup {NULL}]
      /\ l \notin CVs /\ l # NULL /\ NULL \notin CVs
  BY MonitorTypes, Addresses, LockAssumption, ThreadAssumption, CvAssumption
<1>2. t \notin Range(sleepers)
  BY DEF MonitorInv, Placement, Placed
<1>3. WaitingFor[t] = IF t_sleepaddr[t] = NULL THEN NULL ELSE l
  BY <1>1, <1>2 DEF WaitingFor
<1>4. CASE owner[l] # NULL /\ thread_sleep(l, sleepers) /\ UNCHANGED <<panicked, lockVars>>
  <2>1. /\ Range(sleepers') = Range(sleepers) \cup {t}
        /\ t_sleepaddr' = [t_sleepaddr EXCEPT ![t] = l]
    BY <1>1, <1>4, AppendFacts DEF thread_sleep
  <2>2. WaitingFor' = [WaitingFor EXCEPT ![t] = l]
    BY <1>1, <2>1 DEF WaitingFor
  <2>3. UNCHANGED <<held, panicked>>
    BY <1>4 DEF lockVars
  <2>4. CASE t_sleepaddr[t] = NULL
    <3>1. ~AbstractMonitor!Free(l)
      BY <1>4 DEF MonitorInv, OwnerHolds, AbstractMonitor!Free
    <3>2. l \notin held[t]
      BY <1>1, <2>4 DEF MonitorInv, HolderOwns
    <3>3. AbstractMonitor!Block(t, l)
      BY <1>3, <2>2, <2>3, <2>4, <3>1, <3>2 DEF AbstractMonitor!Block
    <3> QED
      BY <3>3 DEF AbstractMonitor!Next
  <2>5. CASE t_sleepaddr[t] # NULL
    <3>1. WaitingFor' = WaitingFor
      BY <1>3, <2>2, <2>5 DEF WaitingFor
    <3> QED
      BY <2>3, <3>1 DEF AbstractMonitor!vars
  <2> QED
    BY <2>4, <2>5
<1>5. CASE /\ owner[l] = NULL
           /\ held' = [held EXCEPT ![t] = @ \cup {l}]
           /\ ReturnFromSleep /\ UNCHANGED <<sleepers, panicked>>
  <2>1. t_sleepaddr' = [t_sleepaddr EXCEPT ![t] = NULL]
    BY <1>5 DEF ReturnFromSleep
  <2>2. WaitingFor' = [WaitingFor EXCEPT ![t] = NULL]
    BY <1>1, <1>5, <2>1 DEF WaitingFor
  <2>3. AbstractMonitor!Free(l)
    BY <1>5, ThreadAssumption DEF MonitorInv, HolderOwns, AbstractMonitor!Free
  <2>4. AbstractMonitor!Acquire(t, l)
    BY <1>3, <1>5, <2>2, <2>3 DEF AbstractMonitor!Acquire
  <2> QED
    BY <2>4 DEF AbstractMonitor!Next
<1> QED
  BY <1>4, <1>5 DEF lock_acquire_loop

\* The other steps of Lock.
LEMMA LockImplements ==
  ASSUME MonitorInv, [Next]_vars
  PROVE  AbstractMonitor!MonitorNext \/ UNCHANGED AbstractMonitor!vars
<1>1. CASE UNCHANGED <<held, sleepers, t_sleepaddr, misused, panicked>>
  BY <1>1 DEF WaitingFor, AbstractMonitor!vars
<1>2. ASSUME NEW t \in Threads, NEW l \in Locks, lock_acquire(t, l)
      PROVE  AbstractMonitor!MonitorNext \/ UNCHANGED AbstractMonitor!vars
  <2>1. Running(t) /\ misused' = (misused \/ l \in held[t])
    BY <1>2 DEF lock_acquire
  <2>2. CASE lock_do_i_hold(t, l) /\ AssertFails
    BY <2>1, <2>2, HoldsTrue, MisuseStops DEF AbstractMonitor!MonitorNext
  <2>3. CASE ~lock_do_i_hold(t, l) /\ lock_acquire_loop(t, l)
    <3>1. UNCHANGED misused
      BY <2>1, <2>3, HoldsTrue, MonitorTypes
    <3> QED
      BY <2>1, <2>3, <3>1, LoopImplements
      DEF Running, lock_do_i_hold, AbstractMonitor!MonitorNext
  <2> QED
    BY <1>2, <2>2, <2>3 DEF lock_acquire, lock_acquire_body
<1>3. ASSUME NEW t \in Threads, NEW l \in Locks, lock_acquire_resume(t, l)
      PROVE  AbstractMonitor!MonitorNext \/ UNCHANGED AbstractMonitor!vars
  BY <1>3, LoopImplements DEF lock_acquire_resume, Resumed, AbstractMonitor!MonitorNext
<1>4. ASSUME NEW t \in Threads, NEW l \in Locks, lock_release(t, l)
      PROVE  AbstractMonitor!MonitorNext \/ UNCHANGED AbstractMonitor!vars
  <2>1. /\ Running(t) /\ ~panicked /\ t_sleepaddr[t] = NULL
        /\ misused' = (misused \/ l \notin held[t])
    BY <1>4 DEF lock_release, Running
  <2>2. CASE ~lock_do_i_hold(t, l) /\ AssertFails
    BY <2>1, <2>2, HoldsTrue, MisuseStops DEF AbstractMonitor!MonitorNext
  <2>3. CASE /\ lock_do_i_hold(t, l)
             /\ held' = [held EXCEPT ![t] = @ \ {l}]
             /\ thread_wakeup(l)
             /\ UNCHANGED <<curthread, t_sleepaddr, panicked>>
    <3>1. Range(sleepers') = {u \in Range(sleepers) : t_sleepaddr[u] # l}
      BY <2>3, MonitorTypes, StillAsleepRange DEF thread_wakeup, LockTypeOK
    <3>2. WaitingFor' = WaitingFor
      BY <2>3, <3>1, SameWaiting, CvAssumption
    <3>3. l \in held[t] /\ WaitingFor[t] = NULL
      BY <2>1, <2>3, HoldsTrue, CvAssumption, ThreadAssumption DEF WaitingFor
    <3>4. UNCHANGED misused
      BY <2>1, <3>3, MonitorTypes
    <3>5. AbstractMonitor!Release(t, l)
      BY <2>1, <2>3, <3>2, <3>3, <3>4 DEF AbstractMonitor!Release
    <3> QED
      BY <3>5 DEF AbstractMonitor!Next, AbstractMonitor!MonitorNext
  <2> QED
    BY <1>4, <2>2, <2>3 DEF lock_release
<1> QED
  BY <1>1, <1>2, <1>3, <1>4 DEF Next, scheduler, thread_yield, vars, switchVars, lockVars

LEMMA WaitImplements ==
  ASSUME MonitorInv, NEW t \in Threads, NEW c \in CVs, WaitStep(t, c), UNCHANGED misused
  PROVE  AbstractMonitor!Wait(t, c)
<1> DEFINE l == LockOf[c]
<1>1. /\ Range(sleepers) \subseteq Threads
      /\ t_sleepaddr \in [Threads -> Locks \cup CVs \cup {NULL}]
      /\ l \in Locks /\ l \notin CVs /\ NULL \notin CVs
  BY MonitorTypes, Addresses, CvAssumption
<1>2. ~panicked /\ owner[l] = t /\ t_sleepaddr[t] = NULL
      /\ held' = [held EXCEPT ![t] = @ \ {l}] /\ panicked' = panicked
  BY DEF WaitStep, Running, lock_do_i_hold
<1>3. /\ Range(sleepers') = {u \in Range(sleepers) : t_sleepaddr[u] # l} \cup {t}
      /\ t_sleepaddr' = [t_sleepaddr EXCEPT ![t] = c]
  BY MonitorTypes, WaitTable
<1>4. WaitingFor' = [WaitingFor EXCEPT ![t] = c]
  BY <1>1, <1>3 DEF WaitingFor
<1>5. l \in held[t] /\ WaitingFor[t] = NULL
  BY <1>1, <1>2, ThreadAssumption DEF MonitorInv, OwnerHolds, WaitingFor
<1> QED
  BY <1>2, <1>4, <1>5 DEF AbstractMonitor!Wait

\* Who signals or broadcasts holds the lock.
LEMMA HolderMayWake ==
  ASSUME MonitorInv, NEW t \in Threads, NEW c \in CVs, Running(t),
         lock_do_i_hold(t, LockOf[c])
  PROVE  AbstractMonitor!MayWake(c)
<1>1. LockOf[c] \in held[t] /\ WaitingFor[t] = NULL
  BY Addresses, ThreadAssumption
  DEF MonitorInv, OwnerHolds, lock_do_i_hold, Running, WaitingFor
<1> QED
  BY <1>1 DEF AbstractMonitor!MayWake, Running

LEMMA BroadcastImplements ==
  ASSUME MonitorInv, NEW t \in Threads, NEW c \in CVs, Running(t),
         lock_do_i_hold(t, LockOf[c]), thread_wakeup(c),
         UNCHANGED <<t_sleepaddr, panicked, misused, lockVars>>
  PROVE  AbstractMonitor!Broadcast(c)
<1>1. /\ Range(sleepers) \subseteq Threads /\ LockOf[c] \notin CVs
      /\ t_sleepaddr \in [Threads -> Locks \cup CVs \cup {NULL}]
  BY MonitorTypes, CvAssumption
<1>2. Range(sleepers') = {u \in Range(sleepers) : t_sleepaddr[u] # c}
  BY MonitorTypes, StillAsleepRange DEF thread_wakeup, LockTypeOK
<1>3. \A u \in Threads : WaitingFor[u] = c => t_sleepaddr[u] = c
  BY <1>1, CvAssumption DEF WaitingFor
<1>4. WaitingFor' = [u \in Threads |-> IF WaitingFor[u] = c THEN LockOf[c] ELSE WaitingFor[u]]
  BY <1>1, <1>2, <1>3 DEF WaitingFor
<1> QED
  BY <1>4, HolderMayWake DEF AbstractMonitor!Broadcast, lockVars

(* Condition variables that are only broadcast implement a Mesa monitor:    *)
(* every step of the code is one of its steps or invisible to it, and the    *)
(* kernel stops only at a call without the lock, if locks start without      *)
(* owner.  cv_signal is left out: it stops the kernel when the table is      *)
(* empty, and wakes the wrong thread or none.                                *)
THEOREM MonitorCorrect ==
  ASSUME FreshOwner = {NULL}, SignalCVs = {}
  PROVE  CvSpec => ImplementsMonitorSafety
<1>1. CvInit => AbstractMonitor!Init
  <2>1. CvInit => WaitingFor = [t \in Threads |-> NULL]
    BY Addresses DEF CvInit, Init, SwitchInit, WaitingFor
  <2> QED
    BY <2>1 DEF CvInit, Init, SwitchInit, AbstractMonitor!Init
<1>2. MonitorInv /\ [CvNext]_cvVars => [AbstractMonitor!MonitorNext]_(AbstractMonitor!vars)
  <2> SUFFICES ASSUME MonitorInv, [CvNext]_cvVars
               PROVE  AbstractMonitor!MonitorNext \/ UNCHANGED AbstractMonitor!vars
    OBVIOUS
  <2>1. CASE [Next]_vars
    BY <2>1, LockImplements
  <2>2. ASSUME NEW t \in Threads, NEW c \in CVs, Running(t), Checked(t, c),
               ~lock_do_i_hold(t, LockOf[c]), AssertFails
        PROVE  AbstractMonitor!MonitorNext
    <3>1. misused' = TRUE
      BY <2>2, HoldsTrue, Addresses DEF Checked
    <3> QED
      BY <2>2, <3>1, MisuseStops DEF AbstractMonitor!MonitorNext
  <2>3. ASSUME NEW t \in Threads, NEW c \in CVs, Checked(t, c),
               lock_do_i_hold(t, LockOf[c])
        PROVE  UNCHANGED misused
    BY <2>3, HoldsTrue, Addresses, MonitorTypes DEF Checked
  <2>4. ASSUME NEW t \in Threads, NEW c \in CVs, cv_wait(t, c)
        PROVE  AbstractMonitor!MonitorNext
    <3>1. CASE lock_do_i_hold(t, LockOf[c]) /\ WaitStep(t, c)
      BY <2>3, <2>4, <3>1, WaitCases, WaitImplements DEF AbstractMonitor!MonitorNext
    <3> QED
      BY <2>2, <2>4, <3>1, WaitCases
  <2>5. ASSUME NEW t \in Threads, NEW c \in CVs, cv_wait_resume(t, c)
        PROVE  AbstractMonitor!MonitorNext \/ UNCHANGED AbstractMonitor!vars
    <3>1. /\ ~panicked /\ curthread = t /\ t_sleepaddr[t] = c /\ LockOf[c] \in Locks
          /\ UNCHANGED misused
      BY <2>5, Addresses DEF cv_wait_resume, Resumed
    <3>2. ~lock_do_i_hold(t, LockOf[c])
      BY <3>1, HoldsTrue DEF MonitorInv, LetGo
    <3>3. lock_acquire_loop(t, LockOf[c])
      BY <2>5, <3>2 DEF cv_wait_resume, lock_acquire_body
    <3> QED
      BY <3>1, <3>3, LoopImplements DEF AbstractMonitor!MonitorNext
  <2>6. ASSUME NEW t \in Threads, NEW c \in CVs, cv_broadcast(t, c)
        PROVE  AbstractMonitor!MonitorNext
    <3>1. Running(t) /\ Checked(t, c)
      BY <2>6 DEF cv_broadcast
    <3>2. CASE lock_do_i_hold(t, LockOf[c]) /\ thread_wakeup(c)
               /\ UNCHANGED <<curthread, t_sleepaddr, panicked, lockVars>>
      BY <2>3, <3>1, <3>2, BroadcastImplements DEF AbstractMonitor!MonitorNext
    <3> QED
      BY <2>2, <2>6, <3>1, <3>2 DEF cv_broadcast
  <2>7. ASSUME NEW t \in Threads, NEW c \in CVs, consume(t, c)
        PROVE  AbstractMonitor!MonitorNext \/ UNCHANGED AbstractMonitor!vars
    BY <2>1, <2>7 DEF consume
  <2>8. ASSUME NEW t \in Threads, NEW c \in CVs, cv_signal(t, c)
        PROVE  FALSE
    BY <2>8 DEF cv_signal
  <2> QED
    BY <2>1, <2>4, <2>5, <2>6, <2>7, <2>8, CvNextCases DEF CvStep, cvVars
<1>3. CvSpec => []SleepAddresses
  <2>1. CvInit => SleepAddresses
    BY DEF CvInit, Init, SwitchInit, SleepAddresses
  <2> QED
    BY <2>1, SleepAddressesStep, CvTypeCorrect, PTL DEF CvSpec
<1>4. CvSpec => []MonitorInv
  BY <1>3, LetGoAlways, CvTypeCorrect, CvPlacementCorrect, CvOwnersAlways, PTL DEF MonitorInv
<1> QED
  BY <1>1, <1>2, <1>4, PTL DEF CvSpec, ImplementsMonitorSafety

=============================================================================
