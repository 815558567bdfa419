----------------------------- MODULE LockProofs -----------------------------
(***************************************************************************)
(* Proofs about Lock, for any finite set of threads and any set of locks.  *)
(* Types, placement and mutual exclusion hold whatever lock_create leaves  *)
(* in the owner field; that the owner field tells the truth, that no free  *)
(* lock has sleepers and that locks implement Mutex is proved for locks    *)
(* whose owner starts out NULL.                                            *)
(***************************************************************************)
EXTENDS Lock, ThreadSwitchProofs

LEMMA LockTypeInit == Init => LockTypeOK
<1> SUFFICES ASSUME Init PROVE LockTypeOK
  OBVIOUS
<1>1. SwitchTypeOK
  BY InitPlaced DEF Init
<1>2. owner \in [Locks -> Threads \cup {NULL} \cup FreshOwner]
  BY DEF Init
<1>3. held \in [Threads -> SUBSET Locks] /\ misused \in BOOLEAN
  BY DEF Init
<1> QED BY <1>1, <1>2, <1>3 DEF LockTypeOK

LEMMA AssertType ==
  LockTypeOK /\ AssertFails /\ misused' \in BOOLEAN => LockTypeOK'
BY DEF LockTypeOK, SwitchTypeOK, AssertFails, thread_panic, lockVars

\* The loop of lock_acquire, from wherever it is entered.
LEMMA LoopType ==
  ASSUME LockTypeOK, NEW t \in Threads, NEW l \in Locks, curthread = t,
         lock_acquire_loop(t, l), misused' \in BOOLEAN
  PROVE  LockTypeOK'
<1> USE LockAssumption DEF LockTypeOK, SwitchTypeOK
<1>2. CASE thread_sleep(l, sleepers) /\ UNCHANGED <<runqueue, panicked, lockVars>>
  <2>1. sleepers' \in Seq(Threads) /\ curthread' \in Threads \cup {NULL}
    BY <1>2, AppendFacts DEF thread_sleep
  <2>2. t_sleepaddr' \in [Threads -> Addrs \cup {NULL}]
    BY <1>2 DEF thread_sleep
  <2> QED BY <1>2, <2>1, <2>2 DEF lockVars
<1>3. CASE /\ owner' = [owner EXCEPT ![l] = t]
           /\ held' = [held EXCEPT ![t] = @ \cup {l}]
           /\ ReturnFromSleep
           /\ UNCHANGED <<curthread, runqueue, sleepers, panicked>>
  <2>1. owner' \in [Locks -> Threads \cup {NULL} \cup FreshOwner]
    BY <1>3
  <2>2. held' \in [Threads -> SUBSET Locks]
    BY <1>3
  <2>3. t_sleepaddr' \in [Threads -> Addrs \cup {NULL}]
    BY <1>3 DEF ReturnFromSleep
  <2> QED BY <1>3, <2>1, <2>2, <2>3
<1> QED BY <1>2, <1>3 DEF lock_acquire_loop

LEMMA LockTypeStep == LockTypeOK /\ [Next]_vars => LockTypeOK'
<1> SUFFICES ASSUME LockTypeOK, [Next]_vars PROVE LockTypeOK'
  OBVIOUS
<1> USE DEF LockTypeOK, SwitchTypeOK
<1>1. CASE scheduler /\ UNCHANGED <<lockVars, misused>>
  BY <1>1, HeadTailFacts DEF scheduler, lockVars
<1>2. ASSUME NEW t \in Threads, thread_yield(t), UNCHANGED <<lockVars, misused>>
      PROVE  LockTypeOK'
  BY <1>2, AppendFacts DEF thread_yield, lockVars
<1>3. ASSUME NEW t \in Threads, NEW l \in Locks, curthread = t,
             lock_acquire_loop(t, l), misused' \in BOOLEAN
      PROVE  LockTypeOK'
  BY <1>3, LoopType
<1>4. ASSUME NEW t \in Threads, NEW l \in Locks, lock_release(t, l)
      PROVE  LockTypeOK'
  <2> misused' \in BOOLEAN
    BY <1>4 DEF lock_release
  <2>1. CASE AssertFails
    BY <2>1, AssertType
  <2>2. CASE /\ owner' = [owner EXCEPT ![l] = NULL]
             /\ held' = [held EXCEPT ![t] = @ \ {l}]
             /\ thread_wakeup(l)
             /\ UNCHANGED <<curthread, t_sleepaddr, panicked>>
    <3>1. StillAsleep(l) \in Seq(Threads) /\ Awakened(l) \in Seq(Threads)
      BY WakeupType
    <3>2. sleepers' \in Seq(Threads) /\ runqueue' \in Seq(Threads)
      BY <2>2, <3>1 DEF thread_wakeup
    <3>3. owner' \in [Locks -> Threads \cup {NULL} \cup FreshOwner]
      BY <2>2
    <3>4. held' \in [Threads -> SUBSET Locks]
      BY <2>2
    <3> QED BY <2>2, <3>2, <3>3, <3>4
  <2> QED BY <1>4, <2>1, <2>2 DEF lock_release
<1>5. CASE UNCHANGED vars
  BY <1>5 DEF vars, switchVars, lockVars
<1> QED BY <1>1, <1>2, <1>3, <1>4, <1>5, AssertType
        DEF Next, lock_acquire, lock_acquire_resume, lock_acquire_body, Running, Resumed

(* Every variable keeps its type: the queues hold threads and nothing else. *)
THEOREM TypeCorrect == Spec => []LockTypeOK
BY LockTypeInit, LockTypeStep, PTL DEF Spec

-----------------------------------------------------------------------------

\* How a step of Next changes who holds what: not at all, a thread takes a
\* lock without owner, or the owner gives it up.
Takes(t, l) ==
  /\ owner[l] = NULL
  /\ owner' = [owner EXCEPT ![l] = t]
  /\ held' = [held EXCEPT ![t] = @ \cup {l}]
  /\ UNCHANGED sleepers
  /\ t_sleepaddr' = [t_sleepaddr EXCEPT ![t] = NULL]

GivesUp(t, l) ==
  /\ owner[l] = t
  /\ owner' = [owner EXCEPT ![l] = NULL]
  /\ held' = [held EXCEPT ![t] = @ \ {l}]

OwnershipMoves ==
  \/ UNCHANGED lockVars
  \/ \E t \in Threads, l \in Locks : Takes(t, l) \/ GivesUp(t, l)

LEMMA OwnershipStep == [Next]_vars => OwnershipMoves
<1>1. ASSUME NEW t \in Threads, NEW l \in Locks, curthread = t, lock_acquire_loop(t, l)
      PROVE  UNCHANGED lockVars \/ Takes(t, l)
  BY <1>1 DEF lock_acquire_loop, Takes, ReturnFromSleep
<1>2. ASSUME NEW t \in Threads, NEW l \in Locks, lock_release(t, l)
      PROVE  UNCHANGED lockVars \/ GivesUp(t, l)
  BY <1>2 DEF lock_release, lock_do_i_hold, AssertFails, GivesUp
<1> QED BY <1>1, <1>2
        DEF Next, lock_acquire, lock_acquire_resume, lock_acquire_body, AssertFails,
            Running, Resumed, vars, lockVars, OwnershipMoves

\* A thread that holds a lock is its owner.
HolderOwns == \A t \in Threads, l \in Locks : l \in held[t] => owner[l] = t

LEMMA HolderOwnsStep ==
  ASSUME LockTypeOK, HolderOwns, OwnershipMoves
  PROVE  HolderOwns'
<1> USE ThreadAssumption
<1>1. CASE UNCHANGED lockVars
  BY <1>1 DEF HolderOwns, lockVars
<1>2. ASSUME NEW t \in Threads, NEW l \in Locks, Takes(t, l) PROVE HolderOwns'
  BY <1>2 DEF LockTypeOK, HolderOwns, Takes
<1>3. ASSUME NEW t \in Threads, NEW l \in Locks, GivesUp(t, l) PROVE HolderOwns'
  BY <1>3 DEF LockTypeOK, HolderOwns, GivesUp
<1> QED BY <1>1, <1>2, <1>3 DEF OwnershipMoves

LEMMA HolderOwnsAlways == Spec => []HolderOwns
<1>1. Init => HolderOwns
  BY DEF Init, HolderOwns
<1>2. LockTypeOK /\ HolderOwns /\ [Next]_vars => HolderOwns'
  BY HolderOwnsStep, OwnershipStep
<1> QED BY <1>1, <1>2, TypeCorrect, PTL DEF Spec

(* No two threads are between lock_acquire and lock_release of one lock,    *)
(* even if the owner field of a fresh lock holds garbage.                   *)
THEOREM ExclusionCorrect == Spec => []MutualExclusion
<1>1. HolderOwns => MutualExclusion
  BY DEF HolderOwns, MutualExclusion
<1> QED BY <1>1, HolderOwnsAlways, PTL

-----------------------------------------------------------------------------

\* An owner is a thread, and it holds the lock.
OwnerHolds ==
  \A l \in Locks : owner[l] # NULL => owner[l] \in Threads /\ l \in held[owner[l]]

LEMMA OwnerHoldsStep ==
  ASSUME LockTypeOK, OwnerHolds, OwnershipMoves
  PROVE  OwnerHolds'
<1>1. CASE UNCHANGED lockVars
  BY <1>1 DEF OwnerHolds, lockVars
<1>2. ASSUME NEW t \in Threads, NEW l \in Locks, Takes(t, l) PROVE OwnerHolds'
  BY <1>2 DEF LockTypeOK, OwnerHolds, Takes
<1>3. ASSUME NEW t \in Threads, NEW l \in Locks, GivesUp(t, l) PROVE OwnerHolds'
  BY <1>3 DEF LockTypeOK, OwnerHolds, GivesUp
<1> QED BY <1>1, <1>2, <1>3 DEF OwnershipMoves

LEMMA OwnerHoldsAlways ==
  ASSUME FreshOwner = {NULL}
  PROVE  Spec => []OwnerHolds
<1>1. Init => OwnerHolds
  BY DEF Init, OwnerHolds
<1>2. LockTypeOK /\ OwnerHolds /\ [Next]_vars => OwnerHolds'
  BY OwnerHoldsStep, OwnershipStep
<1> QED BY <1>1, <1>2, TypeCorrect, PTL DEF Spec

(* lock_do_i_hold answers yes exactly to the thread that holds the lock.    *)
THEOREM HoldCorrect ==
  ASSUME FreshOwner = {NULL}
  PROVE  Spec => []HoldIsTruth
<1>1. HolderOwns /\ OwnerHolds => HoldIsTruth
  BY ThreadAssumption DEF HolderOwns, OwnerHolds, HoldIsTruth, lock_do_i_hold
<1> QED BY <1>1, HolderOwnsAlways, OwnerHoldsAlways, PTL

-----------------------------------------------------------------------------

\* No thread of the table sleeps on addr.
NoneAsleep(table, sleepaddr, addr) == \A t \in Range(table) : sleepaddr[t] # addr

\* Nobody sleeps on a lock without owner.
UnownedAwake == \A l \in Locks : owner[l] = NULL => NoneAsleep(sleepers, t_sleepaddr, l)

\* The loop of lock_acquire sleeps only while the lock has an owner.
LEMMA LoopUnowned ==
  ASSUME LockTypeOK, UnownedAwake, NEW t \in Threads, NEW l \in Locks, curthread = t,
         lock_acquire_loop(t, l)
  PROVE  UnownedAwake'
<1> SUFFICES ASSUME NEW m \in Locks, owner'[m] = NULL
             PROVE  NoneAsleep(sleepers', t_sleepaddr', m)
  BY DEF UnownedAwake, NoneAsleep
<1>1. /\ owner \in [Locks -> Threads \cup {NULL} \cup FreshOwner]
      /\ sleepers \in Seq(Threads) /\ Range(sleepers) \subseteq Threads
      /\ t_sleepaddr \in [Threads -> Addrs \cup {NULL}]
      /\ m \in Addrs /\ m # NULL
  BY LockAssumption, ThreadAssumption DEF LockTypeOK, SwitchTypeOK, Range
<1>2. owner[m] = NULL => NoneAsleep(sleepers, t_sleepaddr, m)
  BY DEF UnownedAwake
<1>3. CASE owner[l] # NULL /\ thread_sleep(l, sleepers) /\ UNCHANGED owner
  <2>1. m # l /\ NoneAsleep(sleepers, t_sleepaddr, m)
    BY <1>2, <1>3
  <2>2. /\ Range(sleepers') = Range(sleepers) \cup {t}
        /\ t_sleepaddr' = [t_sleepaddr EXCEPT ![t] = l]
    BY <1>1, <1>3, AppendFacts DEF thread_sleep
  <2> QED BY <1>1, <2>1, <2>2 DEF NoneAsleep
<1>4. CASE /\ owner[l] = NULL /\ owner' = [owner EXCEPT ![l] = t]
           /\ ReturnFromSleep /\ UNCHANGED sleepers
  <2>1. m # l /\ owner[m] = NULL
    BY <1>1, <1>4, ThreadAssumption
  <2>2. t_sleepaddr' = [t_sleepaddr EXCEPT ![t] = NULL]
    BY <1>4 DEF ReturnFromSleep
  <2> QED BY <1>1, <1>2, <1>4, <2>1, <2>2 DEF NoneAsleep
<1> QED BY <1>3, <1>4 DEF lock_acquire_loop, lockVars

LEMMA UnownedAwakeStep ==
  ASSUME LockTypeOK, UnownedAwake, [Next]_vars
  PROVE  UnownedAwake'
<1> SUFFICES ASSUME NEW m \in Locks, owner'[m] = NULL
             PROVE  NoneAsleep(sleepers', t_sleepaddr', m)
  BY DEF UnownedAwake, NoneAsleep
<1>1. /\ owner \in [Locks -> Threads \cup {NULL} \cup FreshOwner]
      /\ sleepers \in Seq(Threads) /\ Range(sleepers) \subseteq Threads
      /\ t_sleepaddr \in [Threads -> Addrs \cup {NULL}]
      /\ m \in Addrs /\ m # NULL
  BY LockAssumption, ThreadAssumption DEF LockTypeOK, SwitchTypeOK, Range
<1>2. owner[m] = NULL => NoneAsleep(sleepers, t_sleepaddr, m)
  BY DEF UnownedAwake
<1>3. CASE UNCHANGED <<owner, sleepers, t_sleepaddr>>
  BY <1>2, <1>3
<1>4. CASE sleepers' = <<>>
  BY <1>4 DEF NoneAsleep, Range
<1>5. ASSUME NEW t \in Threads, NEW l \in Locks, curthread = t, lock_acquire_loop(t, l)
      PROVE  NoneAsleep(sleepers', t_sleepaddr', m)
  BY <1>5, LoopUnowned DEF UnownedAwake, NoneAsleep
<1>6. ASSUME NEW t \in Threads, NEW l \in Locks, thread_wakeup(l),
             owner' = [owner EXCEPT ![l] = NULL], UNCHANGED t_sleepaddr
      PROVE  NoneAsleep(sleepers', t_sleepaddr', m)
  <2>1. Range(sleepers') = {u \in Range(sleepers) : t_sleepaddr[u] # l}
    BY <1>6, StillAsleepRange DEF thread_wakeup, LockTypeOK
  <2>2. m = l \/ NoneAsleep(sleepers, t_sleepaddr, m)
    BY <1>1, <1>2, <1>6
  <2> QED BY <1>6, <2>1, <2>2 DEF NoneAsleep
<1> QED BY <1>3, <1>4, <1>5, <1>6
        DEF Next, lock_acquire, lock_acquire_resume, lock_acquire_body, lock_release,
            Running, Resumed, AssertFails, thread_panic, scheduler, thread_yield,
            vars, switchVars, lockVars

(* Nobody sleeps on a lock that nobody holds, so that no thread waits for a *)
(* lock_release that will not come.                                         *)
THEOREM SleeperCorrect ==
  ASSUME FreshOwner = {NULL}
  PROVE  Spec => []NoSleeperOnFree
<1>1. Init => UnownedAwake
  BY DEF Init, SwitchInit, UnownedAwake, NoneAsleep, Range
<1>2. LockTypeOK /\ UnownedAwake /\ [Next]_vars => UnownedAwake'
  BY UnownedAwakeStep
<1>3. OwnerHolds /\ UnownedAwake => NoSleeperOnFree
  <2> SUFFICES ASSUME OwnerHolds, UnownedAwake, NEW l \in Locks, Free(l)
               PROVE  ~thread_hassleepers(l)
    BY DEF NoSleeperOnFree
  <2>1. owner[l] = NULL
    BY DEF OwnerHolds, Free
  <2> QED BY <2>1, HasSleepers DEF UnownedAwake, NoneAsleep
<1> QED BY <1>1, <1>2, <1>3, TypeCorrect, OwnerHoldsAlways, PTL DEF Spec

-----------------------------------------------------------------------------

\* The body of lock_acquire keeps every thread in one place.
LEMMA LoopPlaced ==
  ASSUME LockTypeOK, NEW t \in Threads, NEW l \in Locks, curthread = t,
         Placed(runqueue, sleepers, curthread, t_sleepaddr), lock_acquire_loop(t, l)
  PROVE  Placed(runqueue', sleepers', curthread', t_sleepaddr')
<1>1. /\ runqueue \in Seq(Threads) /\ sleepers \in Seq(Threads)
      /\ t_sleepaddr \in [Threads -> Addrs \cup {NULL}]
      /\ l \in Addrs
  BY LockAssumption DEF LockTypeOK, SwitchTypeOK
<1>2. CASE thread_sleep(l, sleepers) /\ UNCHANGED runqueue
  BY <1>1, <1>2, SleepPlaced DEF thread_sleep
<1>3. CASE ReturnFromSleep /\ UNCHANGED <<curthread, runqueue, sleepers>>
  BY <1>1, <1>3, ReturnPlaced DEF ReturnFromSleep
<1> QED BY <1>2, <1>3 DEF lock_acquire_loop

LEMMA PlacementStep == LockTypeOK /\ Placement /\ [Next]_vars => Placement'
<1> SUFFICES ASSUME LockTypeOK, Placement, [Next]_vars, ~panicked'
             PROVE  Placed(runqueue', sleepers', curthread', t_sleepaddr')
  BY DEF Placement, Placed
<1>1. /\ runqueue \in Seq(Threads) /\ sleepers \in Seq(Threads)
      /\ t_sleepaddr \in [Threads -> Addrs \cup {NULL}]
  BY DEF LockTypeOK, SwitchTypeOK
<1>2. ~panicked => Placed(runqueue, sleepers, curthread, t_sleepaddr)
  BY DEF Placement
<1>3. CASE scheduler
  BY <1>1, <1>2, <1>3, RunPlaced DEF scheduler
<1>4. ASSUME NEW t \in Threads, thread_yield(t)
      PROVE  Placed(runqueue', sleepers', curthread', t_sleepaddr')
  BY <1>1, <1>2, <1>4, YieldPlaced DEF thread_yield, Running
<1>5. ASSUME NEW t \in Threads, NEW l \in Locks, curthread = t, ~panicked,
             lock_acquire_loop(t, l)
      PROVE  Placed(runqueue', sleepers', curthread', t_sleepaddr')
  BY <1>2, <1>5, LoopPlaced
<1>6. ASSUME NEW t \in Threads, NEW l \in Locks, lock_release(t, l)
      PROVE  Placed(runqueue', sleepers', curthread', t_sleepaddr')
  <2>1. ~panicked /\ thread_wakeup(l) /\ UNCHANGED <<curthread, t_sleepaddr>>
    BY <1>6 DEF lock_release, Running, AssertFails, thread_panic
  <2>2. SleepersOn(l) \in SUBSET (DOMAIN sleepers)
    BY DEF SleepersOn
  <2> QED BY <1>1, <1>2, <2>1, <2>2, WakeupPlaced
          DEF thread_wakeup, StillAsleep, Awakened
<1>7. CASE UNCHANGED vars
  BY <1>2, <1>7 DEF vars, switchVars
<1> QED BY <1>3, <1>4, <1>5, <1>6, <1>7
        DEF Next, lock_acquire, lock_acquire_resume, lock_acquire_body, AssertFails,
            thread_panic, Running, Resumed

(* Every thread is in exactly one place, whatever the threads call.         *)
THEOREM PlacementCorrect == Spec => []Placement
<1>1. Init => Placement
  BY InitPlaced DEF Init
<1> QED BY <1>1, PlacementStep, TypeCorrect, PTL DEF Spec

-----------------------------------------------------------------------------

(* Locks implement Mutex: taking and giving up a lock are single steps, a   *)
(* thread blocks only while another one holds the lock, and an assertion    *)
(* fails exactly when a call breaks the rules.                              *)
THEOREM MutexCorrect ==
  ASSUME FreshOwner = {NULL}
  PROVE  Spec => ImplementsMutexSafety
<1>1. Init => Abstract!Init
  BY DEF Init, SwitchInit, Abstract!Init
<1>2. LockTypeOK /\ HolderOwns /\ OwnerHolds /\ [Next]_vars
        => [Abstract!Next]_(Abstract!vars)
  <2> SUFFICES ASSUME LockTypeOK, HolderOwns, OwnerHolds, [Next]_vars
               PROVE  Abstract!Next \/ UNCHANGED Abstract!vars
    OBVIOUS
  <2>1. t_sleepaddr \in [Threads -> Addrs \cup {NULL}] /\ misused \in BOOLEAN
    BY DEF LockTypeOK, SwitchTypeOK
  <2>2. \A t \in Threads, l \in Locks : lock_do_i_hold(t, l) <=> l \in held[t]
    BY ThreadAssumption DEF HolderOwns, OwnerHolds, lock_do_i_hold
  <2>3. CASE UNCHANGED <<held, t_sleepaddr, misused, panicked>>
    BY <2>3 DEF Abstract!vars
  <2>4. ASSUME NEW t \in Threads, Running(t), AssertFails, misused' = TRUE
        PROVE  Abstract!Next
    BY <2>4 DEF Running, AssertFails, thread_panic, lockVars, Abstract!Misuse, Abstract!Next
  <2>5. ASSUME NEW t \in Threads, NEW l \in Locks, ~panicked, curthread = t,
               t_sleepaddr[t] = l \/ (t_sleepaddr[t] = NULL /\ l \notin held[t]),
               lock_acquire_loop(t, l), UNCHANGED misused
        PROVE  Abstract!Next \/ UNCHANGED Abstract!vars
    <3>1. CASE owner[l] # NULL /\ thread_sleep(l, sleepers)
               /\ UNCHANGED <<runqueue, panicked, lockVars>>
      <4>1. t_sleepaddr' = [t_sleepaddr EXCEPT ![t] = l] /\ UNCHANGED <<held, panicked>>
        BY <2>5, <3>1 DEF thread_sleep, lockVars
      <4>2. CASE t_sleepaddr[t] = l
        BY <2>1, <2>5, <4>1, <4>2 DEF Abstract!vars
      <4>3. CASE t_sleepaddr[t] = NULL /\ l \notin held[t]
        <5>1. ~Abstract!Free(l)
          BY <3>1 DEF OwnerHolds, Abstract!Free
        <5>2. Abstract!Block(t, l)
          BY <2>5, <4>1, <4>3, <5>1 DEF Abstract!Block
        <5> QED BY <5>2 DEF Abstract!Next
      <4> QED BY <2>5, <4>2, <4>3
    <3>2. CASE /\ owner[l] = NULL
               /\ held' = [held EXCEPT ![t] = @ \cup {l}]
               /\ ReturnFromSleep /\ UNCHANGED panicked
      <4>1. Abstract!Free(l)
        BY <3>2, ThreadAssumption DEF HolderOwns, Abstract!Free
      <4>2. Abstract!Acquire(t, l)
        BY <2>5, <3>2, <4>1 DEF ReturnFromSleep, Abstract!Acquire
      <4> QED BY <4>2 DEF Abstract!Next
    <3> QED BY <2>5, <3>1, <3>2 DEF lock_acquire_loop
  <2>6. ASSUME NEW t \in Threads, NEW l \in Locks, lock_acquire(t, l)
        PROVE  Abstract!Next \/ UNCHANGED Abstract!vars
    <3>1. Running(t) /\ misused' = (misused \/ l \in held[t])
      BY <2>6 DEF lock_acquire
    <3>2. CASE lock_do_i_hold(t, l) /\ AssertFails
      BY <2>2, <2>4, <3>1, <3>2
    <3>3. CASE ~lock_do_i_hold(t, l) /\ lock_acquire_loop(t, l)
      BY <2>1, <2>2, <2>5, <3>1, <3>3 DEF Running
    <3> QED BY <2>6, <3>2, <3>3 DEF lock_acquire, lock_acquire_body
  <2>7. ASSUME NEW t \in Threads, NEW l \in Locks, lock_acquire_resume(t, l)
        PROVE  Abstract!Next \/ UNCHANGED Abstract!vars
    BY <2>5, <2>7 DEF lock_acquire_resume, Resumed
  <2>8. ASSUME NEW t \in Threads, NEW l \in Locks, lock_release(t, l)
        PROVE  Abstract!Next \/ UNCHANGED Abstract!vars
    <3>1. Running(t) /\ misused' = (misused \/ l \notin held[t])
      BY <2>8 DEF lock_release
    <3>2. CASE ~lock_do_i_hold(t, l) /\ AssertFails
      BY <2>2, <2>4, <3>1, <3>2
    <3>3. CASE /\ lock_do_i_hold(t, l)
               /\ held' = [held EXCEPT ![t] = @ \ {l}]
               /\ UNCHANGED <<t_sleepaddr, panicked>>
      <4>1. l \in held[t] /\ UNCHANGED misused
        BY <2>1, <2>2, <3>1, <3>3
      <4>2. Abstract!Release(t, l)
        BY <3>1, <3>3, <4>1 DEF Running, Abstract!Release
      <4> QED BY <4>2 DEF Abstract!Next
    <3> QED BY <2>8, <3>2, <3>3 DEF lock_release
  <2> QED BY <2>3, <2>6, <2>7, <2>8
          DEF Next, scheduler, thread_yield, vars, switchVars, lockVars
<1> QED BY <1>1, <1>2, TypeCorrect, HolderOwnsAlways, OwnerHoldsAlways, PTL
        DEF Spec, ImplementsMutexSafety

=============================================================================
