----------------------------- MODULE ThreadLife -----------------------------
(***************************************************************************)
(* The life of a thread in project_5_6/thread.c: thread_fork, thread_exit, *)
(* thread_join, thread_detach and exorcise, on top of the context switch.  *)
(*                                                                         *)
(* A thread is named by its struct thread.  Freed structures are not       *)
(* handed out again, so that a dangling pointer stays recognisable; the    *)
(* number of structures bounds the number of forks.  What the code reads   *)
(* from a freed structure may stop the kernel, or be what was there.       *)
(***************************************************************************)
EXTENDS ThreadSwitch

CONSTANTS Boot,        \* the thread that thread_bootstrap makes
          FreshStruct  \* the structures that thread_create may return: it
                       \* assigns none of these words, which hold what kmalloc
                       \* found there

ASSUME LifeAssumption ==
  /\ Boot \in Threads
  /\ FreshStruct \subseteq
       [t_pid : Nat, parent : Nat, is_detached : Nat, has_exited : Nat, children : {<<>>}]

VARIABLES
  zombies,     \* exited threads that exorcise will destroy
  joinable,    \* threads that exited without being detached
  numthreads,  \* threads that have not called thread_exit
  struct,      \* the fields of struct thread
  stage,       \* where in its life a thread is
  t_cwd,       \* the threads whose t_cwd is set, all to the same vnode
  vn_refs,     \* the references that vnode counts for them
  newguy,      \* per thread: what the thread_fork it is in has made, or NULL
  search,      \* per thread: the local variables of its thread_join or
               \* thread_detach
  joined,      \* history: the threads that a thread_join has made runnable
  hasty        \* history: the threads that took the exit of a detached thread
               \* while the thread_fork that made them had not yet assigned
               \* is_detached

cwdVars == <<t_cwd, vn_refs>>
history == <<joined, hasty>>
tableVars == <<zombies, joinable, numthreads>>
lifeVars == <<tableVars, struct, stage, cwdVars, newguy, search, history>>
vars == <<switchVars, lifeVars>>

Words == 0..(2 ^ Cardinality(Threads) + 1)  \* pids at most double per fork

\* The child found at index j of children; the index i into table k of the
\* search, and the entry found there.
Search == [call : {"none", "join", "detach"}, j : Nat, k : 1..4, i : Nat,
           guy : Threads \cup {NULL}]

NoSearch == [call |-> "none", j |-> 0, k |-> 1, i |-> 0, guy |-> NULL]

Struct == [t_pid : Nat, parent : Nat, is_detached : Nat, has_exited : Nat,
           children : Seq(Threads)]

Stages == {"unborn",   \* not allocated
           "created",  \* allocated, in no table yet
           "new",      \* runnable, has not run yet
           "active",   \* running the code it was forked for
           "creating", \* inside thread_fork, before it turns interrupts off
           "forking",  \* inside thread_fork, interrupts back on
           "testing",  \* inside thread_join or thread_detach, about to compare
                       \* the index with the size of a table
           "getting",  \* about to take the entry at the index
           "reading",  \* about to read the structure of that entry
           "found",    \* past the search
           "joining",  \* inside thread_join, interrupts back on
           "exited",   \* switched away with S_JOIN, has more of thread_exit to run
           "zombie",   \* switched away with S_ZOMB
           "freed"}    \* destroyed, by exorcise or by a thread_fork that failed

LifeTypeOK ==
  /\ SwitchTypeOK
  /\ zombies \in Seq(Threads) /\ joinable \in Seq(Threads)
  /\ numthreads \in Nat
  /\ struct \in [Threads -> Struct]
  /\ stage \in [Threads -> Stages]
  /\ t_cwd \subseteq Threads /\ vn_refs \in Nat
  /\ newguy \in [Threads -> Threads \cup {NULL}]
  /\ search \in [Threads -> Search]
  /\ joined \subseteq Threads /\ hasty \subseteq Threads

-----------------------------------------------------------------------------

\* thread_bootstrap
Init ==
  /\ curthread = Boot
  /\ runqueue = <<>> /\ sleepers = <<>>
  /\ t_sleepaddr = [t \in Threads |-> NULL]
  /\ panicked = FALSE
  /\ zombies = <<>> /\ joinable = <<>>
  /\ numthreads = 1
  /\ \E s \in FreshStruct :
       struct = [t \in Threads |-> [s EXCEPT !.t_pid = 1, !.parent = 0]]
  /\ stage = [t \in Threads |-> IF t = Boot THEN "active" ELSE "unborn"]
  /\ t_cwd \in {{}, {Boot}} /\ vn_refs = Cardinality(t_cwd)
  /\ newguy = [t \in Threads |-> NULL]
  /\ search = [t \in Threads |-> NoSearch]
  /\ joined = {} /\ hasty = {}

\* Thread t is on the CPU in ordinary code or in an interruptible part of
\* thread_fork.
OnCpu(t, where) == Running(t) /\ stage[t] \in where

\* A read or write of one of these structures is one of freed memory.
Freed == {t \in Threads : stage[t] = "freed"}

\* An address error or a failed assertion: the kernel stops.  What the call
\* had done before is left out, for nothing runs after it.
Fault == thread_panic /\ UNCHANGED <<curthread, t_sleepaddr, lifeVars>>

-----------------------------------------------------------------------------
(* thread_fork *)

\* Up to splhigh: the structure is made, and the directory inherited.
thread_fork(t, n) ==
  /\ OnCpu(t, {"active"})
  /\ stage[n] = "unborn"
  /\ struct' \in {[struct EXCEPT ![n] = s] : s \in FreshStruct}
  /\ stage' = [stage EXCEPT ![n] = "created", ![t] = "creating"]
  /\ IF t \in t_cwd THEN t_cwd' = t_cwd \cup {n} /\ vn_refs' = vn_refs + 1
                    ELSE UNCHANGED cwdVars
  /\ newguy' = [newguy EXCEPT ![t] = n]
  /\ UNCHANGED <<switchVars, tableVars, search, history>>

\* Mutated: the new thread is not counted.
fork_enqueue_uncounted(t) ==
  LET n == newguy[t] IN
  /\ OnCpu(t, {"creating"})
  /\ runqueue' = Append(runqueue, n)
  /\ stage' = [stage EXCEPT ![n] = "new", ![t] = "forking"]
  /\ UNCHANGED <<curthread, sleepers, t_sleepaddr, panicked, tableVars,
                 struct, cwdVars, newguy, search, history>>

\* From splhigh to splx: the new thread is runnable and counted.  The room
\* that the tables reserve is not modelled: a table takes every entry.
fork_enqueue(t) ==
  LET n == newguy[t] IN
  /\ OnCpu(t, {"creating"})
  /\ runqueue' = Append(runqueue, n)
  /\ numthreads' = numthreads + 1
  /\ stage' = [stage EXCEPT ![n] = "new", ![t] = "forking"]
  /\ UNCHANGED <<curthread, sleepers, t_sleepaddr, panicked, zombies, joinable,
                 struct, cwdVars, newguy, search, history>>

\* Mutated: the reference to the directory is not given back.
fork_fail_holding(t) ==
  LET n == newguy[t] IN
  /\ OnCpu(t, {"creating"})
  /\ t_cwd' = t_cwd \ {n}
  /\ stage' = [stage EXCEPT ![n] = "freed", ![t] = "active"]
  /\ newguy' = [newguy EXCEPT ![t] = NULL]
  /\ UNCHANGED <<switchVars, tableVars, struct, vn_refs, search, history>>

\* The same region when a table has no room and no memory for more: the
\* failure path undoes what was done.  (A thread_fork that already fails to
\* allocate the structure or its stack changes nothing.)
fork_fail(t) ==
  LET n == newguy[t] IN
  /\ OnCpu(t, {"creating"})
  /\ IF n \in t_cwd THEN t_cwd' = t_cwd \ {n} /\ vn_refs' = vn_refs - 1
                    ELSE UNCHANGED cwdVars
  /\ stage' = [stage EXCEPT ![n] = "freed", ![t] = "active"]
  /\ newguy' = [newguy EXCEPT ![t] = NULL]
  /\ UNCHANGED <<switchVars, tableVars, struct, search, history>>

\* The rest of a thread_fork that succeeds, with interrupts on.  No entry of
\* children is ever NULL, so next_child is 0 and all children of a thread get
\* the same pid.  The new thread may have ended and be freed by now.
fork_return(t, wantpid) ==
  LET n == newguy[t]
      reset == [struct EXCEPT ![n].is_detached = 0, ![n].has_exited = 0]
      named == [reset EXCEPT ![n].t_pid = 2 * struct[t].t_pid,
                             ![n].parent = struct[t].t_pid]
  IN
  /\ OnCpu(t, {"forking"})
  /\ \/ n \in Freed /\ Fault
     \/ /\ struct' = IF wantpid THEN [named EXCEPT ![t].children = Append(@, n)]
                     ELSE reset
        /\ stage' = [stage EXCEPT ![t] = "active"]
        /\ newguy' = [newguy EXCEPT ![t] = NULL]
        /\ UNCHANGED <<switchVars, tableVars, cwdVars, search, history>>

-----------------------------------------------------------------------------
(* thread_join and thread_detach *)

\* The positions in the children of t that a search for pid matches.
Matches(s, t, pid) ==
  {i \in DOMAIN s[t].children : LET c == s[t].children[i] IN
     s[c].t_pid = pid /\ s[c].parent = s[t].t_pid}

\* The search goes on after a match: the last one counts.
LastMatch(s, t, pid) ==
  CHOOSE i \in Matches(s, t, pid) : \A k \in Matches(s, t, pid) : k <= i

Enter(t, where) == stage' = [stage EXCEPT ![t] = where]

\* Both calls look for pid among the children of t, which nobody else
\* changes.  If none matches they return an error.
FindChild(t, pid, call) ==
  /\ OnCpu(t, {"active"})
  /\ \/ Range(struct[t].children) \cap Freed # {} /\ Fault
     \/ /\ Matches(struct, t, pid) # {}
        /\ search' = [search EXCEPT ![t] =
             [call |-> call, j |-> LastMatch(struct, t, pid), k |-> 1, i |-> 1, guy |-> NULL]]
        /\ Enter(t, "testing")
        /\ UNCHANGED <<switchVars, tableVars, struct, cwdVars, newguy, history>>

thread_join(t, pid) == struct[t].t_pid # pid /\ FindChild(t, pid, "join")

thread_detach(t, pid) == FindChild(t, pid, "detach")

\* Then, although the child is found, they search three tables for it, with
\* interrupts on.  Nothing comes of that: t # NULL, and k stays -1.
Tables == <<sleepers, zombies, joinable>>

searchRest == <<tableVars, struct, cwdVars, newguy, history>>

\* i<array_getnum(...)
search_test(t) ==
  LET f == search[t] IN
  /\ OnCpu(t, {"testing"})
  /\ IF f.i <= Len(Tables[f.k])
       THEN Enter(t, "getting") /\ UNCHANGED search
       ELSE /\ Enter(t, IF f.k = 3 THEN "found" ELSE "testing")
            /\ search' = [search EXCEPT ![t].k = @ + 1, ![t].i = 1]
  /\ UNCHANGED <<switchVars, searchRest>>

\* array_getguy asserts that the index is in range.
search_get(t) ==
  LET f == search[t] IN
  /\ OnCpu(t, {"getting"})
  /\ \/ f.i > Len(Tables[f.k]) /\ Fault
     \/ /\ f.i <= Len(Tables[f.k])
        /\ Enter(t, "reading")
        /\ search' = [search EXCEPT ![t].guy = Tables[f.k][f.i]]
        /\ UNCHANGED <<switchVars, searchRest>>

\* *(t1->t_pid) == pid && t == NULL
search_read(t) ==
  /\ OnCpu(t, {"reading"})
  /\ \/ search[t].guy \in Freed /\ Fault
     \/ /\ Enter(t, "testing")
        /\ search' = [search EXCEPT ![t].i = @ + 1, ![t].guy = NULL]
        /\ UNCHANGED <<switchVars, searchRest>>

\* The child that a thread_join or thread_detach of t has found.
Child(t) == struct[t].children[search[t].j]

Found(t, call) == OnCpu(t, {"found"}) /\ search[t].call = call

Leave(t) == Enter(t, "active") /\ search' = [search EXCEPT ![t] = NoSearch]

\* thread_join makes the child runnable, whatever that is doing.
join_found(t) ==
  LET c == Child(t) IN
  /\ Found(t, "join")
  /\ \/ c \in Freed /\ Fault
     \/ /\ IF struct[c].is_detached = 1
             THEN Leave(t) /\ UNCHANGED <<runqueue, joined>>
             ELSE /\ Enter(t, "joining") /\ joined' = joined \cup {c}
                  /\ runqueue' = IF struct[c].has_exited = 0 THEN Append(runqueue, c)
                                 ELSE runqueue
                  /\ UNCHANGED search
        /\ UNCHANGED <<curthread, sleepers, t_sleepaddr, panicked, tableVars, struct,
                       cwdVars, newguy, hasty>>

\* Mutated: the child is not removed from the array.
join_return_kept(t) ==
  /\ OnCpu(t, {"joining"})
  /\ \/ Child(t) \in Freed /\ Fault
     \/ Leave(t) /\ UNCHANGED <<switchVars, searchRest>>

\* It reads the exit status and forgets the child.
join_return(t) ==
  /\ OnCpu(t, {"joining"})
  /\ \/ Child(t) \in Freed /\ Fault
     \/ /\ Leave(t)
        /\ struct' = [struct EXCEPT ![t].children = array_remove(@, search[t].j)]
        /\ UNCHANGED <<switchVars, tableVars, cwdVars, newguy, history>>

\* Mutated: the child is not removed from the array.
Detached_kept(s, t, j) == [s EXCEPT ![s[t].children[j]].is_detached = 1]

\* The structures s after t has marked its child at index j as detached and
\* forgotten it, if it was not detached.
Detached(s, t, j) ==
  LET c == s[t].children[j] IN
  IF s[c].is_detached = 1 THEN s
  ELSE [s EXCEPT ![t].children = array_remove(@, j), ![c].is_detached = 1]

detach_found(t) ==
  /\ Found(t, "detach")
  /\ \/ Child(t) \in Freed /\ Fault
     \/ /\ Leave(t)
        /\ struct' = Detached(struct, t, search[t].j)
        /\ UNCHANGED <<switchVars, tableVars, cwdVars, newguy, history>>

-----------------------------------------------------------------------------
(* thread_exit *)

\* The structures s after the thread_detach(pid) of thread_exit, where
\* interrupts are off and the searches are part of one step.
AfterDetach(s, t, pid) ==
  IF Matches(s, t, pid) = {} THEN s ELSE Detached(s, t, LastMatch(s, t, pid))

\* The structures that it reads.
DetachReads(s, t, pid) ==
  Range(s[t].children) \cup
    (IF Matches(s, t, pid) = {} THEN {} ELSE UNION {Range(Tables[k]) : k \in 1..3})

\* Round i of the loop of thread_exit over the children of t: it detaches by
\* the pid of the child at index i - 1, if the array still has one there.
DetachRound(s, t, i) ==
  IF i > Len(s[t].children) THEN s
  ELSE AfterDetach(s, t, s[s[t].children[i]].t_pid)

RoundReads(s, t, i) ==
  IF i > Len(s[t].children) THEN {}
  ELSE DetachReads(s, t, s[s[t].children[i]].t_pid)

\* The loop, whose array shrinks while it runs: the structures after each
\* round, those it ends with and those it reads.
DetachRounds(t) ==
  LET after[i \in 0..Len(struct[t].children)] ==
        IF i = 0 THEN struct ELSE DetachRound(after[i - 1], t, i)
  IN after

DetachLoop(t) == DetachRounds(t)[Len(struct[t].children)]

LoopReads(t) ==
  UNION {RoundReads(DetachRounds(t)[i - 1], t, i) : i \in 1..Len(struct[t].children)}

\* Switching away with S_ZOMB, the last step of thread_exit.
BecomeZombie(t, s) ==
  /\ struct' = [s EXCEPT ![t].has_exited = 1]
  /\ zombies' = Append(zombies, t)
  /\ stage' = [stage EXCEPT ![t] = "zombie"]
  /\ curthread' = NULL

\* thread_exit up to its first switch.  The boot thread does not exit.
thread_exit(t) ==
  LET s == DetachLoop(t) IN
  /\ OnCpu(t, {"active"}) /\ t # Boot
  /\ \/ LoopReads(t) \cap Freed # {} /\ Fault
     \/ /\ numthreads' = numthreads - 1
        /\ t_cwd' = t_cwd \ {t}
        /\ vn_refs' = IF t \in t_cwd THEN vn_refs - 1 ELSE vn_refs
        /\ \/ /\ s[t].is_detached = 0
              /\ struct' = s
              /\ joinable' = Append(joinable, t)
              /\ Enter(t, "exited")
              /\ curthread' = NULL
              /\ UNCHANGED <<zombies, hasty>>
           \/ /\ s[t].is_detached # 0
              /\ BecomeZombie(t, s)
              /\ hasty' = IF t \in Range(newguy) THEN hasty \cup {t} ELSE hasty
              /\ UNCHANGED joinable
        /\ UNCHANGED <<runqueue, sleepers, t_sleepaddr, panicked, newguy, search, joined>>

\* Mutated: the thread is counted out a second time.
exit_resume_counted(t) ==
  /\ ~panicked /\ curthread = t /\ stage[t] = "exited"
  /\ BecomeZombie(t, struct)
  /\ numthreads' = numthreads - 1
  /\ UNCHANGED <<runqueue, sleepers, t_sleepaddr, panicked, joinable,
                 cwdVars, newguy, search, history>>

\* Mutated: it goes to joinable once more.
exit_resume_joinable(t) ==
  /\ ~panicked /\ curthread = t /\ stage[t] = "exited"
  /\ joinable' = Append(joinable, t)
  /\ curthread' = NULL
  /\ UNCHANGED <<runqueue, sleepers, t_sleepaddr, panicked, zombies, numthreads,
                 struct, stage, cwdVars, newguy, search, history>>

\* Back from mi_switch(S_JOIN), because a thread_join made t runnable.
exit_resume(t) ==
  /\ ~panicked /\ curthread = t /\ stage[t] = "exited"
  /\ BecomeZombie(t, struct)
  /\ UNCHANGED <<runqueue, sleepers, t_sleepaddr, panicked, joinable, numthreads,
                 cwdVars, newguy, search, history>>

-----------------------------------------------------------------------------
(* The context switch *)

\* A thread that comes back into mi_switch exorcises; one that runs for the
\* first time starts in mi_threadstart and does not.  A thread that is dead
\* must not come back: exorcise refuses to destroy the current thread, and
\* thread_exit ends in a panic.
switch_to ==
  LET next == Head(runqueue) IN
  \/ /\ scheduler
     /\ \/ /\ stage[next] = "new"
           /\ Enter(next, "active")
           /\ UNCHANGED zombies
        \/ /\ stage[next] \notin {"new", "zombie", "freed"}
           /\ stage' = [t \in Threads |-> IF t \in Range(zombies) THEN "freed" ELSE stage[t]]
           /\ zombies' = <<>>
     /\ UNCHANGED <<joinable, numthreads, struct, cwdVars, newguy, search, history>>
  \/ /\ ~panicked /\ curthread = NULL /\ runqueue # <<>>
     /\ stage[next] \in {"zombie", "freed"}
     /\ Fault

\* Thread t runs with interrupts on: in its own code, in thread_fork, in
\* thread_join or in thread_detach.
Interruptible(t) ==
  stage[t] \in {"active", "creating", "forking", "testing", "getting", "reading",
                "found", "joining"}

yield(t) == Interruptible(t) /\ thread_yield(t) /\ UNCHANGED lifeVars

\* A thread calls thread_sleep, say in P or lock_acquire.
sleep(t, addr) ==
  /\ OnCpu(t, {"active"})
  /\ thread_sleep(addr, sleepers)
  /\ UNCHANGED <<runqueue, panicked, lifeVars>>

\* thread_sleep returns, or its caller's loop calls it again.
sleep_return(t, addr) ==
  /\ Resumed(t, addr)
  /\ \/ ReturnFromSleep /\ UNCHANGED <<curthread, sleepers>>
     \/ thread_sleep(addr, sleepers)
  /\ UNCHANGED <<runqueue, panicked, lifeVars>>

\* The running thread or an interrupt handler calls thread_wakeup.
wakeup(addr) ==
  /\ InterruptsOn
  /\ curthread # NULL => Interruptible(curthread)
  /\ thread_wakeup(addr)
  /\ UNCHANGED <<curthread, t_sleepaddr, panicked, lifeVars>>

Next ==
  \/ switch_to
  \/ \E t \in Threads : yield(t)
  \/ \E t \in Threads, a \in Addrs : sleep(t, a)
  \/ \E t \in Threads, a \in Addrs : sleep_return(t, a)
  \/ \E a \in Addrs : wakeup(a)
  \/ \E t, n \in Threads : thread_fork(t, n)
  \/ \E t \in Threads : fork_enqueue(t)
  \/ \E t \in Threads : fork_fail(t)
  \/ \E t \in Threads, w \in BOOLEAN : fork_return(t, w)
  \/ \E t \in Threads, p \in Words : thread_join(t, p)
  \/ \E t \in Threads, p \in Words : thread_detach(t, p)
  \/ \E t \in Threads : search_test(t)
  \/ \E t \in Threads : search_get(t)
  \/ \E t \in Threads : search_read(t)
  \/ \E t \in Threads : join_found(t)
  \/ \E t \in Threads : join_return(t)
  \/ \E t \in Threads : detach_found(t)
  \/ \E t \in Threads : thread_exit(t)
  \/ \E t \in Threads : exit_resume(t)

\* What needs nobody's call: the scheduler, the timer, and the paths with
\* interrupts off.
Fairness ==
  /\ WF_vars(switch_to)
  /\ WF_vars(\E t \in Threads : yield(t))
  /\ WF_vars(\E t \in Threads, a \in Addrs : sleep_return(t, a))
  /\ WF_vars(\E t \in Threads : exit_resume(t))

Spec == Init /\ [][Next]_vars /\ Fairness

-----------------------------------------------------------------------------
(* Properties *)

\* How often t stands in table q.
Occurrences(t, q) == Cardinality({i \in DOMAIN q : q[i] = t})

\* The turns on the CPU that t has or may still be given.
Turns(t) ==
  Occurrences(t, runqueue) + Occurrences(t, sleepers) + (IF curthread = t THEN 1 ELSE 0)

(* thread_join puts a thread into the run queue that may be running, queued *)
(* or asleep already.  The extra turn is never one too many: a thread has   *)
(* one turn, one more if it was joined, and uses up one in each of the two  *)
(* switches of thread_exit; a zombie or a freed thread has none, so it is   *)
(* never run and no wakeup finds it.  A hasty thread is no party to this:   *)
(* it is dead before its parent knows it, and can be joined all the same.   *)
TurnsAccounted ==
  ~panicked =>
    \A t \in Threads \ hasty :
      LET j == IF t \in joined THEN 1 ELSE 0 IN
      Turns(t) = CASE stage[t] = "new" \/ Interruptible(t) -> 1 + j
                   [] stage[t] = "exited" -> j
                   [] stage[t] \in {"unborn", "created", "zombie", "freed"} -> 0

(* numthreads counts the threads that have not called thread_exit: it never *)
(* reaches 0 under the assertion of thread_exit, and is_thread_running      *)
(* compares it with 1.                                                      *)
NumthreadsOK ==
  numthreads = Cardinality({t \in Threads : stage[t] = "new" \/ Interruptible(t)})

(* No child of a thread has been destroyed, so that thread_join,            *)
(* thread_detach and the loop of thread_exit read no freed structure        *)
(* through children, with two exceptions: the child that a thread_join has  *)
(* just made runnable, and a child that was hasty.                          *)
ChildrenAlive ==
  \A t \in Threads : Interruptible(t) =>
    \A c \in Range(struct[t].children) :
      \/ stage[c] \notin {"unborn", "zombie", "freed"}
      \/ c \in hasty
      \/ stage[t] = "joining" /\ c = Child(t)

(* The references that the vnode counts are those of the threads: none is    *)
(* kept by a fork that failed and none by a thread past thread_exit, so      *)
(* thread_destroy finds t_cwd NULL.                                          *)
CwdCounted ==
  /\ vn_refs = Cardinality(t_cwd)
  /\ \A t \in t_cwd : stage[t] \in {"created", "new"} \/ Interruptible(t)

(* While the boot thread keeps coming back to the CPU, a zombie, or a thread *)
(* that has exited and stands in the run queue once more because it was      *)
(* joined, is destroyed: a thread that starts does not exorcise, but one     *)
(* that comes back does.  (A spare turn that is left among the sleepers      *)
(* stays there: thread_exit's caller no longer sleeps on any address.)       *)
Reclaimed ==
  [](~panicked) /\ []<>(curthread = Boot) =>
    \A t \in Threads :
      (stage[t] = "zombie" \/ (stage[t] = "exited" /\ t \in Range(runqueue)))
        ~> (stage[t] = "freed")

(* The kernel stops in few places, unless a thread was hasty: where          *)
(* thread_join, thread_detach or the thread_detach of thread_exit search the *)
(* tables for a thread that they have found already, and where thread_join   *)
(* reads the status of the child that it has just made runnable.  No dead    *)
(* thread is run, and no other pointer that fork, join, detach and exit      *)
(* follow is dangling.                                                       *)
StopsInSearches ==
  panicked /\ hasty = {} =>
    \E t \in Threads :
      /\ curthread = t
      /\ \/ stage[t] = "getting"
         \/ stage[t] = "reading" /\ search[t].guy \in Freed
         \/ stage[t] = "joining" /\ Child(t) \in Freed
         \/ stage[t] = "active" /\ t # Boot /\ Range(joinable) \cap Freed # {}

(* "its thread descriptor (i.e. thread id) and exit status must be retained  *)
(* until another thread performs thread_join or thread_detach on it": no     *)
(* thread is destroyed that nobody has joined or detached, because a word of *)
(* its structure happened to say that it was detached, and none before the   *)
(* thread_join of it has read its status.                                    *)
DescriptorRetained ==
  /\ hasty \cap Freed = {}
  /\ \A t \in Threads : stage[t] = "joining" => Child(t) \notin Freed

=============================================================================
