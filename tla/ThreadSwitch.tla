---------------------------- MODULE ThreadSwitch ----------------------------
(***************************************************************************)
(* The context-switching core of project_5_6/thread.c: mi_switch,          *)
(* thread_yield, thread_sleep, thread_wakeup, thread_wakeone and           *)
(* thread_panic, with the scheduler's run queue (kern/thread/scheduler.c,  *)
(* external) behind make_runnable and scheduler().                         *)
(*                                                                         *)
(* OS/161 runs one CPU.  Code between splhigh() and splx() is never        *)
(* preempted, so it is one step up to the next mi_switch.  A thread leaves *)
(* the CPU in one step, and the scheduler picks the next one in another;   *)
(* in between curthread is NULL, as in the code.                           *)
(*                                                                         *)
(* The module declares the state and the building blocks; Semaphore, Lock  *)
(* and CondVar extend it with the operations that call them.               *)
(***************************************************************************)
EXTENDS Arrays

CONSTANTS Threads,  \* the threads of the kernel
          Addrs,    \* sleep addresses: the objects a thread may wait for
          NULL      \* the null pointer

ASSUME ThreadAssumption ==
  /\ IsFiniteSet(Threads)
  /\ NULL \notin Threads /\ NULL \notin Addrs

VARIABLES
  curthread,    \* the running thread; NULL while the scheduler runs
  runqueue,     \* the scheduler's queue of runnable threads
  sleepers,     \* table of sleeping threads
  t_sleepaddr,  \* per thread: the address thread_sleep was called with,
                \* reset only after the thread is back on the CPU
  panicked      \* an assertion failed: the kernel has stopped

switchVars == <<curthread, runqueue, sleepers, t_sleepaddr, panicked>>

SwitchTypeOK ==
  /\ curthread \in Threads \cup {NULL}
  /\ runqueue \in Seq(Threads)
  /\ sleepers \in Seq(Threads)
  /\ t_sleepaddr \in [Threads -> Addrs \cup {NULL}]
  /\ panicked \in BOOLEAN

-----------------------------------------------------------------------------
(* Where a thread is *)

\* Thread t is on the CPU in ordinary code, at spl 0.
Running(t) == ~panicked /\ curthread = t /\ t_sleepaddr[t] = NULL

\* Thread t is back on the CPU inside thread_sleep(addr), still at splhigh.
Resumed(t, addr) ==
  ~panicked /\ addr # NULL /\ curthread = t /\ t_sleepaddr[t] = addr

\* A device or timer interrupt can be taken: from ordinary code, or from the
\* scheduler's idle loop, which runs only while nobody is runnable.
InterruptsOn ==
  /\ ~panicked
  /\ IF curthread = NULL THEN runqueue = <<>>
                         ELSE t_sleepaddr[curthread] = NULL

\* The positions of the sleepers table whose thread sleeps on addr.
SleepersOn(addr) == {i \in DOMAIN sleepers : t_sleepaddr[sleepers[i]] = addr}

\* thread_hassleepers(addr)
thread_hassleepers(addr) == SleepersOn(addr) # {}

-----------------------------------------------------------------------------
(* Building blocks *)

\* The sleepers table after thread_wakeup(addr), and those it makes runnable.
StillAsleep(addr) == Entries(sleepers, DOMAIN sleepers \ SleepersOn(addr))
Awakened(addr)    == Entries(sleepers, SleepersOn(addr))

\* Mutated: the entries woken are not removed from the table.
thread_wakeup_keeping(addr) ==
  sleepers' = sleepers /\ runqueue' = runqueue \o Awakened(addr)

\* Mutated: the loop ends at the first match.
thread_wakeup_first(addr) ==
  IF SleepersOn(addr) = {} THEN UNCHANGED <<sleepers, runqueue>>
  ELSE LET i == CHOOSE i \in SleepersOn(addr) : \A k \in SleepersOn(addr) : i <= k IN
       /\ sleepers' = array_remove(sleepers, i)
       /\ runqueue' = Append(runqueue, sleepers[i])

\* thread_wakeup(addr): every sleeper on addr moves to the run queue, in
\* table order.
thread_wakeup(addr) ==
  /\ sleepers' = StillAsleep(addr)
  /\ runqueue' = runqueue \o Awakened(addr)

\* A failed assertion: panic() calls thread_panic, which empties the table of
\* sleepers and the run queue so that no other thread runs again.
thread_panic ==
  /\ panicked' = TRUE
  /\ sleepers' = <<>>
  /\ runqueue' = <<>>

\* thread_wakeone(addr): reads the sleeper at C index i, a local variable that
\* is never assigned; if that one sleeps on addr it becomes runnable, but the
\* entry removed is the first.  array_getguy asserts that i is in range.
thread_wakeone(addr, i) ==
  \/ /\ i + 1 \notin DOMAIN sleepers
     /\ thread_panic
  \/ /\ i + 1 \in SleepersOn(addr)
     /\ sleepers' = array_remove(sleepers, 1)
     /\ runqueue' = Append(runqueue, sleepers[i + 1])
     /\ UNCHANGED panicked
  \/ /\ i + 1 \in DOMAIN sleepers \ SleepersOn(addr)
     /\ UNCHANGED <<sleepers, runqueue, panicked>>

\* Mutated: curthread is stashed after it was set to NULL.
thread_sleep_late(addr, table) ==
  /\ sleepers' = Append(table, NULL)
  /\ t_sleepaddr' = [t_sleepaddr EXCEPT ![curthread] = addr]
  /\ curthread' = NULL

\* thread_sleep(addr) up to the switch; table is what the caller has made of
\* the sleepers table so far in the same interrupts-off region.
thread_sleep(addr, table) ==
  /\ sleepers' = Append(table, curthread)
  /\ t_sleepaddr' = [t_sleepaddr EXCEPT ![curthread] = addr]
  /\ curthread' = NULL

\* thread_sleep returns: curthread->t_sleepaddr = NULL.
ReturnFromSleep == t_sleepaddr' = [t_sleepaddr EXCEPT ![curthread] = NULL]

-----------------------------------------------------------------------------
(* The steps of the scheduler *)

\* thread_yield, called by the thread itself or by the timer interrupt:
\* mi_switch(S_READY) puts it at the tail of the run queue.
thread_yield(t) ==
  /\ Running(t)
  /\ runqueue' = Append(runqueue, t)
  /\ curthread' = NULL
  /\ UNCHANGED <<sleepers, t_sleepaddr, panicked>>

\* The second half of mi_switch: scheduler() returns the head of the run
\* queue and it becomes curthread.
scheduler ==
  /\ ~panicked
  /\ curthread = NULL
  /\ runqueue # <<>>
  /\ curthread' = Head(runqueue)
  /\ runqueue' = Tail(runqueue)
  /\ UNCHANGED <<sleepers, t_sleepaddr, panicked>>

-----------------------------------------------------------------------------

\* The boot thread runs; the others wait in the run queue in some order.
SwitchInit ==
  /\ \E t \in Threads :
       /\ curthread = t
       /\ runqueue \in Bijection(1..Cardinality(Threads \ {t}), Threads \ {t})
  /\ sleepers = <<>>
  /\ t_sleepaddr = [t \in Threads |-> NULL]
  /\ panicked = FALSE

\* Every thread is in exactly one place: run queue q, sleepers table s or, as
\* cur, on the CPU; and those in the table have a sleep address.
Placed(q, s, cur, sleepaddr) ==
  /\ IsInjective(q) /\ IsInjective(s)
  /\ Range(q) \cap Range(s) = {}
  /\ cur \notin Range(q) \cup Range(s)
  /\ Threads \subseteq Range(q) \cup Range(s) \cup {cur}
  /\ \A t \in Range(s) : sleepaddr[t] # NULL

(* Every thread is in exactly one place, once: on the CPU, in the run queue *)
(* or in the table of sleepers.  A thread in two places would be run twice, *)
(* one in none never again.  Concerns mi_switch, thread_wakeup and every    *)
(* caller of them.                                                          *)
Placement == ~panicked => Placed(runqueue, sleepers, curthread, t_sleepaddr)

=============================================================================
