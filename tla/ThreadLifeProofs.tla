-------------------------- MODULE ThreadLifeProofs --------------------------
(***************************************************************************)
(* Proofs about ThreadLife, for any number of threads: every variable      *)
(* keeps its type, numthreads counts the threads that have not exited, the *)
(* current directory has as many references as threads, each thread has    *)
(* the turns on the CPU that its life needs, no thread has a child that    *)
(* was destroyed, but for the exceptions that TurnsAccounted and           *)
(* ChildrenAlive name, and the kernel stops in few places only.            *)
(*                                                                         *)
(* The parts: the counts, lemmas about occurrences in a table, about the   *)
(* array of children and about the loop of thread_exit, then types, the    *)
(* family (whose child is whose), and the turns.                           *)
(***************************************************************************)
EXTENDS ThreadLife, ThreadSwitchProofs

\* The steps of thread_join and thread_detach.
SearchStep(t) ==
  \/ \E p \in Words : thread_join(t, p) \/ thread_detach(t, p)
  \/ search_test(t) \/ search_get(t) \/ search_read(t)
  \/ join_found(t) \/ join_return(t) \/ detach_found(t)

\* A thread in its own code, in thread_join or in thread_detach.
Inner == {"active", "testing", "getting", "reading", "found", "joining"}

\* What all steps of thread_join and thread_detach have in common.
Moves(t) ==
  /\ stage[t] \in Inner
  /\ \E w \in Inner : stage' = [stage EXCEPT ![t] = w]
  /\ UNCHANGED <<curthread, sleepers, t_sleepaddr, panicked, tableVars, cwdVars,
                 newguy, hasty>>

LEMMA SearchMoves ==
  ASSUME NEW t \in Threads, SearchStep(t), ~Fault
  PROVE  Moves(t)
<1> USE DEF FindChild, OnCpu, Found, Enter, Leave, Inner, Moves, switchVars,
            searchRest, history
<1>1. ASSUME NEW p \in Words, thread_join(t, p) \/ thread_detach(t, p)
      PROVE  Moves(t)
  BY <1>1 DEF thread_join, thread_detach
<1>2. CASE search_test(t)
  BY <1>2 DEF search_test
<1>3. CASE search_get(t)
  BY <1>3 DEF search_get
<1>4. CASE search_read(t)
  BY <1>4 DEF search_read
<1>5. CASE join_found(t)
  BY <1>5 DEF join_found
<1>6. CASE join_return(t)
  BY <1>6 DEF join_return
<1>7. CASE detach_found(t)
  BY <1>7 DEF detach_found
<1> QED
  BY <1>1, <1>2, <1>3, <1>4, <1>5, <1>6, <1>7 DEF SearchStep

Alive == {t \in Threads : stage[t] = "new" \/ Interruptible(t)}

\* Where the stages stand to the other variables.  Each thread that is in
\* thread_fork with interrupts on for the first time has a new thread of its
\* own, so that no step counts a thread twice.
StagesInv ==
  /\ stage \in [Threads -> Stages]
  /\ newguy \in [Threads -> Threads \cup {NULL}]
  /\ zombies \in Seq(Threads)
  /\ \A t \in Range(zombies) : stage[t] = "zombie"
  /\ \A t \in Threads : stage[t] = "creating" =>
       newguy[t] \in Threads /\ stage[newguy[t]] = "created"
  /\ \A t, u \in Threads :
       stage[t] = "creating" /\ stage[u] = "creating" /\ newguy[t] = newguy[u] => t = u
  /\ t_cwd \subseteq Threads
  /\ \A t \in t_cwd : stage[t] \in {"created", "new"} \/ Interruptible(t)

\* Inductive.
CountInv ==
  /\ StagesInv
  /\ numthreads = Cardinality(Alive)
  /\ vn_refs = Cardinality(t_cwd)

LEMMA SetsFinite ==
  ASSUME StagesInv
  PROVE  IsFiniteSet(Alive) /\ IsFiniteSet(t_cwd)
BY ThreadAssumption, FS_Subset DEF Alive, StagesInv

LEMMA CountInit == Init => CountInv
<1> SUFFICES ASSUME Init PROVE CountInv
  OBVIOUS
<1>1. Boot \in Threads
  BY LifeAssumption
<1>2. Alive = {Boot}
  BY <1>1 DEF Init, Alive, Interruptible
<1>3. Cardinality(Alive) = 1
  BY <1>2, FS_Singleton
<1>4. StagesInv
  BY <1>1 DEF Init, StagesInv, Stages, Range, Interruptible
<1> QED
  BY <1>3, <1>4 DEF Init, CountInv

-----------------------------------------------------------------------------
(* One lemma for each step that changes the stage of a thread *)

LEMMA ForkKeeps ==
  ASSUME CountInv, NEW t \in Threads, NEW n \in Threads, thread_fork(t, n)
  PROVE  CountInv'
<1> USE DEF OnCpu, thread_fork, switchVars, cwdVars, tableVars
<1>1. /\ stage[t] = "active" /\ stage[n] = "unborn" /\ t # n
      /\ stage' = [stage EXCEPT ![n] = "created", ![t] = "creating"]
      /\ newguy' = [newguy EXCEPT ![t] = n]
      /\ UNCHANGED <<zombies, numthreads>>
      /\ IF t \in t_cwd THEN t_cwd' = t_cwd \cup {n} /\ vn_refs' = vn_refs + 1
                        ELSE UNCHANGED cwdVars
  OBVIOUS
<1>2. n \notin t_cwd
  BY <1>1 DEF CountInv, StagesInv, Interruptible
<1>3. StagesInv'
  <2> USE DEF CountInv, StagesInv
  <2>1. /\ stage' \in [Threads -> Stages] /\ newguy' \in [Threads -> Threads \cup {NULL}]
        /\ zombies' \in Seq(Threads) /\ \A u \in Range(zombies') : stage'[u] = "zombie"
    BY <1>1 DEF Stages, Range
  <2>2. /\ \A u \in Threads : stage'[u] = "creating" =>
             newguy'[u] \in Threads /\ stage'[newguy'[u]] = "created"
        /\ \A u, v \in Threads :
             stage'[u] = "creating" /\ stage'[v] = "creating" /\ newguy'[u] = newguy'[v] =>
               u = v
    BY <1>1
  <2>3. t_cwd' \subseteq Threads
    BY <1>1
  <2>4. \A u \in t_cwd' : stage'[u] \in {"created", "new"} \/ Interruptible(u)'
    BY <1>1 DEF Interruptible
  <2> QED BY <2>1, <2>2, <2>3, <2>4
<1>4. Alive' = Alive
  BY <1>1 DEF CountInv, StagesInv, Alive, Interruptible
<1>5. vn_refs' = Cardinality(t_cwd')
  BY <1>1, <1>2, SetsFinite, FS_AddElement DEF CountInv
<1> QED
  BY <1>1, <1>3, <1>4, <1>5 DEF CountInv

LEMMA EnqueueKeeps ==
  ASSUME CountInv, NEW t \in Threads, fork_enqueue(t)
  PROVE  CountInv'
<1> DEFINE n == newguy[t]
<1>1. /\ stage[t] = "creating"
      /\ stage' = [stage EXCEPT ![n] = "new", ![t] = "forking"]
      /\ numthreads' = numthreads + 1
      /\ UNCHANGED <<zombies, newguy, t_cwd, vn_refs>>
  BY DEF fork_enqueue, OnCpu, cwdVars
<1>2. n \in Threads /\ stage[n] = "created" /\ n # t
  BY <1>1 DEF CountInv, StagesInv
<1>3. StagesInv'
  BY <1>1, <1>2 DEF CountInv, StagesInv, Stages, Interruptible, Range
<1>4. Alive' = Alive \cup {n} /\ n \notin Alive
  BY <1>1, <1>2 DEF CountInv, StagesInv, Alive, Interruptible
<1>5. numthreads' = Cardinality(Alive')
  BY <1>1, <1>4, SetsFinite, FS_AddElement DEF CountInv
<1> QED
  BY <1>1, <1>3, <1>5 DEF CountInv

LEMMA FailKeeps ==
  ASSUME CountInv, NEW t \in Threads, fork_fail(t)
  PROVE  CountInv'
<1> DEFINE n == newguy[t]
<1>1. /\ stage[t] = "creating"
      /\ stage' = [stage EXCEPT ![n] = "freed", ![t] = "active"]
      /\ newguy' = [newguy EXCEPT ![t] = NULL]
      /\ UNCHANGED <<zombies, numthreads>>
      /\ IF n \in t_cwd THEN t_cwd' = t_cwd \ {n} /\ vn_refs' = vn_refs - 1
                        ELSE UNCHANGED cwdVars
  BY DEF fork_fail, OnCpu, tableVars
<1>2. n \in Threads /\ stage[n] = "created" /\ n # t
  BY <1>1 DEF CountInv, StagesInv
<1>3. t_cwd' = t_cwd \ {n}
  BY <1>1 DEF cwdVars
<1>4. StagesInv'
  BY <1>1, <1>2, <1>3 DEF CountInv, StagesInv, Stages, Interruptible, Range
<1>5. Alive' = Alive
  BY <1>1, <1>2 DEF CountInv, StagesInv, Alive, Interruptible
<1>6. vn_refs' = Cardinality(t_cwd')
  BY <1>1, SetsFinite, FS_RemoveElement DEF CountInv, cwdVars
<1> QED
  BY <1>1, <1>4, <1>5, <1>6 DEF CountInv

LEMMA ReturnFromFork ==
  ASSUME CountInv, NEW t \in Threads, NEW w \in BOOLEAN, fork_return(t, w), ~Fault
  PROVE  CountInv'
<1>1. /\ stage[t] = "forking" /\ stage' = [stage EXCEPT ![t] = "active"]
      /\ newguy' = [newguy EXCEPT ![t] = NULL]
      /\ UNCHANGED <<zombies, numthreads, t_cwd, vn_refs>>
  BY DEF fork_return, OnCpu, cwdVars, tableVars
<1>2. StagesInv'
  BY <1>1 DEF CountInv, StagesInv, Stages, Interruptible, Range
<1>3. Alive' = Alive
  BY <1>1 DEF CountInv, StagesInv, Alive, Interruptible
<1> QED
  BY <1>1, <1>2, <1>3 DEF CountInv

LEMMA ExitKeeps ==
  ASSUME CountInv, NEW t \in Threads, thread_exit(t), ~Fault
  PROVE  CountInv'
<1>1. /\ stage[t] = "active" /\ numthreads' = numthreads - 1
      /\ t_cwd' = t_cwd \ {t}
      /\ vn_refs' = IF t \in t_cwd THEN vn_refs - 1 ELSE vn_refs
      /\ newguy' = newguy
      /\ \/ stage' = [stage EXCEPT ![t] = "exited"] /\ zombies' = zombies
         \/ stage' = [stage EXCEPT ![t] = "zombie"] /\ zombies' = Append(zombies, t)
  BY DEF thread_exit, OnCpu, BecomeZombie, Enter
<1>2. StagesInv'
  <2>1. CASE zombies' = zombies
    BY <1>1, <2>1 DEF CountInv, StagesInv, Stages, Interruptible, Range
  <2>2. CASE stage' = [stage EXCEPT ![t] = "zombie"] /\ zombies' = Append(zombies, t)
    <3>1. Range(zombies') = Range(zombies) \cup {t} /\ zombies' \in Seq(Threads)
      BY <2>2, AppendFacts DEF CountInv, StagesInv
    <3> QED
      BY <1>1, <2>2, <3>1 DEF CountInv, StagesInv, Stages, Interruptible
  <2> QED
    BY <1>1, <2>1, <2>2
<1>3. Alive' = Alive \ {t} /\ t \in Alive
  BY <1>1 DEF CountInv, StagesInv, Alive, Interruptible
<1>4. numthreads' = Cardinality(Alive')
  BY <1>1, <1>3, SetsFinite, FS_RemoveElement DEF CountInv
<1>5. vn_refs' = Cardinality(t_cwd')
  BY <1>1, SetsFinite, FS_RemoveElement DEF CountInv
<1> QED
  BY <1>2, <1>4, <1>5 DEF CountInv

LEMMA ExitResumeKeeps ==
  ASSUME CountInv, NEW t \in Threads, exit_resume(t)
  PROVE  CountInv'
<1>1. /\ stage[t] = "exited" /\ stage' = [stage EXCEPT ![t] = "zombie"]
      /\ zombies' = Append(zombies, t)
      /\ UNCHANGED <<numthreads, newguy, t_cwd, vn_refs>>
  BY DEF exit_resume, BecomeZombie, cwdVars
<1>2. Range(zombies') = Range(zombies) \cup {t} /\ zombies' \in Seq(Threads)
  BY <1>1, AppendFacts DEF CountInv, StagesInv
<1>3. StagesInv'
  BY <1>1, <1>2 DEF CountInv, StagesInv, Stages, Interruptible
<1>4. Alive' = Alive
  BY <1>1 DEF CountInv, StagesInv, Alive, Interruptible
<1> QED
  BY <1>1, <1>3, <1>4 DEF CountInv

LEMMA SwitchKeeps ==
  ASSUME CountInv, switch_to, ~Fault
  PROVE  CountInv'
<1> DEFINE next == Head(runqueue)
<1>1. /\ UNCHANGED <<numthreads, newguy, t_cwd, vn_refs>>
      /\ \/ /\ stage[next] = "new" /\ zombies' = zombies
            /\ stage' = [stage EXCEPT ![next] = "active"]
         \/ /\ stage' = [t \in Threads |-> IF t \in Range(zombies) THEN "freed" ELSE stage[t]]
            /\ zombies' = <<>>
  BY DEF switch_to, cwdVars, Enter
<1>2. StagesInv' /\ Alive' = Alive
  <2>1. CASE /\ stage[next] = "new" /\ zombies' = zombies
             /\ stage' = [stage EXCEPT ![next] = "active"]
    <3>1. /\ stage' \in [Threads -> Stages]
          /\ \A t \in Threads : stage'[t] = IF t = next THEN "active" ELSE stage[t]
      BY <2>1 DEF CountInv, StagesInv, Stages
    <3>2. Range(zombies) \subseteq Threads
      BY DEF CountInv, StagesInv, Range
    <3>3. StagesInv'
      BY <1>1, <2>1, <3>1, <3>2 DEF CountInv, StagesInv, Interruptible
    <3>4. Alive' = Alive
      BY <2>1, <3>1 DEF Alive, Interruptible
    <3> QED
      BY <3>3, <3>4
  <2>2. CASE /\ stage' = [t \in Threads |-> IF t \in Range(zombies) THEN "freed" ELSE stage[t]]
             /\ zombies' = <<>>
    <3>1. Range(zombies') = {}
      BY <2>2 DEF Range
    <3>2. StagesInv'
      BY <1>1, <2>2, <3>1 DEF CountInv, StagesInv, Stages, Interruptible
    <3>3. Alive' = Alive
      BY <2>2 DEF CountInv, StagesInv, Alive, Interruptible
    <3> QED
      BY <3>2, <3>3
  <2> QED
    BY <1>1, <2>1, <2>2
<1> QED
  BY <1>1, <1>2 DEF CountInv

-----------------------------------------------------------------------------

LEMMA SearchKeeps ==
  ASSUME CountInv, NEW t \in Threads, Moves(t)
  PROVE  CountInv'
<1>1. PICK w \in Inner : stage' = [stage EXCEPT ![t] = w]
  BY DEF Moves
<1>2. /\ stage[t] \in Inner
      /\ UNCHANGED <<zombies, numthreads, newguy, t_cwd, vn_refs>>
  BY DEF Moves, tableVars, cwdVars
<1>3. /\ stage' \in [Threads -> Stages] /\ stage'[t] = w
      /\ \A u \in Threads : u # t => stage'[u] = stage[u]
  BY <1>1 DEF CountInv, StagesInv, Stages, Inner
<1>4. StagesInv'
  BY <1>2, <1>3 DEF CountInv, StagesInv, Interruptible, Inner, Range
<1>5. Alive' = Alive
  BY <1>2, <1>3 DEF Alive, Interruptible, Inner
<1> QED
  BY <1>2, <1>4, <1>5 DEF CountInv

LEMMA CountStep == CountInv /\ [Next]_vars => CountInv'
<1> SUFFICES ASSUME CountInv, [Next]_vars PROVE CountInv'
  OBVIOUS
<1>1. CASE UNCHANGED <<zombies, numthreads, stage, cwdVars, newguy>>
  BY <1>1 DEF CountInv, StagesInv, Alive, Interruptible, cwdVars
<1>2. CASE UNCHANGED vars \/ Fault
  BY <1>1, <1>2 DEF Fault, vars, lifeVars, tableVars
<1>3. CASE \E t \in Threads : yield(t)
  BY <1>1, <1>3 DEF yield, lifeVars, tableVars
<1>4. CASE \E t \in Threads, a \in Addrs : sleep(t, a) \/ sleep_return(t, a)
  BY <1>1, <1>4 DEF sleep, sleep_return, lifeVars, tableVars
<1>5. CASE \E a \in Addrs : wakeup(a)
  BY <1>1, <1>5 DEF wakeup, lifeVars, tableVars
<1>6. CASE ~Fault /\ \E t \in Threads : SearchStep(t)
  BY <1>6, SearchMoves, SearchKeeps
<1>7. CASE \E t, n \in Threads : thread_fork(t, n)
  BY <1>7, ForkKeeps
<1>8. CASE \E t \in Threads : fork_enqueue(t)
  BY <1>8, EnqueueKeeps
<1>9. CASE \E t \in Threads : fork_fail(t)
  BY <1>9, FailKeeps
<1>10. CASE ~Fault /\ \E t \in Threads, w \in BOOLEAN : fork_return(t, w)
  BY <1>10, ReturnFromFork
<1>11. CASE ~Fault /\ \E t \in Threads : thread_exit(t)
  BY <1>11, ExitKeeps
<1>12. CASE \E t \in Threads : exit_resume(t)
  BY <1>12, ExitResumeKeeps
<1>13. CASE ~Fault /\ switch_to
  BY <1>13, SwitchKeeps
<1> QED
  BY <1>2, <1>3, <1>4, <1>5, <1>6, <1>7, <1>8, <1>9, <1>10, <1>11, <1>12, <1>13
  DEF Next, SearchStep

LEMMA CountAlways == Spec => []CountInv
BY CountInit, CountStep, PTL DEF Spec

(* numthreads is the number of threads that have not called thread_exit,     *)
(* though thread_fork and thread_exit of many threads meet.                  *)
THEOREM NumthreadsCorrect == Spec => []NumthreadsOK
<1>1. CountInv => NumthreadsOK
  BY DEF CountInv, Alive, NumthreadsOK
<1> QED
  BY <1>1, CountAlways, PTL

(* The vnode of the current directory has one reference for each thread      *)
(* that has it, and no thread past thread_exit has it, forks that fail       *)
(* included.                                                                 *)
THEOREM CwdCorrect == Spec => []CwdCounted
<1>1. CountInv => CwdCounted
  BY DEF CountInv, StagesInv, CwdCounted
<1> QED
  BY <1>1, CountAlways, PTL

-----------------------------------------------------------------------------
(* How often a thread stands in a table *)

Positions(t, q) == {i \in DOMAIN q : q[i] = t}

LEMMA OccurrencesNat ==
  ASSUME NEW T, NEW q \in Seq(T), NEW t
  PROVE  /\ IsFiniteSet(Positions(t, q))
         /\ Occurrences(t, q) = Cardinality(Positions(t, q))
         /\ Occurrences(t, q) \in Nat
<1>1. Len(q) \in Nat /\ Positions(t, q) \in SUBSET (1..Len(q))
  BY DEF Positions
<1>2. IsFiniteSet(Positions(t, q)) /\ Cardinality(Positions(t, q)) \in Nat
  BY <1>1, PositionsFinite
<1>3. Occurrences(t, q) = Cardinality(Positions(t, q))
  BY DEF Occurrences, Positions
<1> QED BY <1>2, <1>3

LEMMA OccurrencesConcat ==
  ASSUME NEW T, NEW a \in Seq(T), NEW b \in Seq(T), NEW t
  PROVE  Occurrences(t, a \o b) = Occurrences(t, a) + Occurrences(t, b)
<1> DEFINE A == Positions(t, a)
           B == Positions(t, b)
           C == {i \in (Len(a) + 1)..(Len(a) + Len(b)) : (a \o b)[i] = t}
<1>1. /\ Len(a) \in Nat /\ Len(b) \in Nat /\ a \o b \in Seq(T)
      /\ DOMAIN a = 1..Len(a) /\ DOMAIN b = 1..Len(b)
      /\ DOMAIN (a \o b) = 1..(Len(a) + Len(b))
      /\ \A i \in 1..Len(a) : (a \o b)[i] = a[i]
      /\ \A i \in 1..Len(b) : (a \o b)[Len(a) + i] = b[i]
  OBVIOUS
<1>2. Positions(t, a \o b) = A \cup C
  <2>1. \A i \in 1..(Len(a) + Len(b)) : i \in 1..Len(a) \/ i \in (Len(a) + 1)..(Len(a) + Len(b))
    BY <1>1
  <2>2. 1..Len(a) \subseteq 1..(Len(a) + Len(b))
        /\ (Len(a) + 1)..(Len(a) + Len(b)) \subseteq 1..(Len(a) + Len(b))
    BY <1>1
  <2> QED BY <1>1, <2>1, <2>2 DEF Positions
<1>3. A \cap C = {}
  BY <1>1 DEF Positions
<1>4. IsFiniteSet(A) /\ IsFiniteSet(B)
  BY OccurrencesNat
<1>5. IsFiniteSet(C) /\ Cardinality(C) = Cardinality(B)
  <2> DEFINE f == [i \in B |-> Len(a) + i]
  <2>1. \A i \in B : i \in Nat /\ Len(a) + i \in C
    BY <1>1 DEF Positions
  <2>2. \A k \in C : k - Len(a) \in B /\ Len(a) + (k - Len(a)) = k
    <3> TAKE k \in C
    <3>1. k \in Nat /\ k - Len(a) \in 1..Len(b) /\ Len(a) + (k - Len(a)) = k
      BY <1>1
    <3>2. b[k - Len(a)] = t
      BY <1>1, <3>1
    <3> QED BY <1>1, <3>1, <3>2 DEF Positions
  <2> HIDE DEF B, C
  <2>3. f \in [B -> C]
    BY <2>1
  <2>4. \A k \in C : \E i \in B : f[i] = k
    BY <2>2
  <2>5. \A i, j \in B : f[i] = f[j] => i = j
    BY <2>1, <1>1
  <2>6. f \in Bijection(B, C)
    BY <2>3, <2>4, <2>5 DEF Bijection, Injection, Surjection, IsInjective
  <2>7. Bijection(B, C) # {}
    BY <2>6
  <2> QED BY <2>7, <1>4, FS_Bijection DEF ExistsBijection
<1>6. Cardinality(A \cup C) = Cardinality(A) + Cardinality(B)
  <2>1. Cardinality(A \cap C) = 0
    BY <1>3, FS_EmptySet
  <2>2. Cardinality(A) \in Nat /\ Cardinality(B) \in Nat
    BY <1>4, FS_CardinalityType
  <2>3. Cardinality(A \cup C) = Cardinality(A) + Cardinality(C) - Cardinality(A \cap C)
    BY <1>4, <1>5, FS_Union
  <2> HIDE DEF A, B, C
  <2> QED BY <2>1, <2>2, <2>3, <1>5
<1> QED BY <1>1, <1>2, <1>6, OccurrencesNat

LEMMA OccurrencesEmpty ==
  ASSUME NEW t
  PROVE  Occurrences(t, <<>>) = 0
<1>1. {i \in DOMAIN <<>> : <<>>[i] = t} = {}
  OBVIOUS
<1> QED BY <1>1, FS_EmptySet DEF Occurrences

LEMMA OccurrencesOne ==
  ASSUME NEW x, NEW t
  PROVE  Occurrences(t, <<x>>) = IF t = x THEN 1 ELSE 0
<1>1. CASE t = x
  <2>1. {i \in DOMAIN <<x>> : <<x>>[i] = t} = {1}
    BY <1>1
  <2> QED BY <1>1, <2>1, FS_Singleton DEF Occurrences
<1>2. CASE t # x
  <2>1. {i \in DOMAIN <<x>> : <<x>>[i] = t} = {}
    BY <1>2
  <2> QED BY <1>2, <2>1, FS_EmptySet DEF Occurrences
<1> QED BY <1>1, <1>2

LEMMA OccurrencesAppend ==
  ASSUME NEW T, NEW q \in Seq(T), NEW x \in T, NEW t
  PROVE  Occurrences(t, Append(q, x)) = Occurrences(t, q) + (IF t = x THEN 1 ELSE 0)
<1>1. Append(q, x) = q \o <<x>> /\ <<x>> \in Seq(T)
  OBVIOUS
<1>2. Occurrences(t, q \o <<x>>) = Occurrences(t, q) + Occurrences(t, <<x>>)
  BY <1>1, OccurrencesConcat
<1> QED BY <1>1, <1>2, OccurrencesOne

LEMMA OccurrencesTail ==
  ASSUME NEW T, NEW q \in Seq(T), q # <<>>, NEW t
  PROVE  Occurrences(t, q) = (IF t = Head(q) THEN 1 ELSE 0) + Occurrences(t, Tail(q))
<1>1. Head(q) \in T /\ Tail(q) \in Seq(T)
  BY HeadTailFacts
<1>2. q = <<Head(q)>> \o Tail(q) /\ <<Head(q)>> \in Seq(T)
  <2> DEFINE r == <<Head(q)>> \o Tail(q)
  <2>1. /\ <<Head(q)>> \in Seq(T) /\ Len(<<Head(q)>>) = 1 /\ <<Head(q)>>[1] = q[1]
        /\ Len(q) \in Nat \ {0} /\ Len(Tail(q)) = Len(q) - 1
        /\ \A i \in 1..(Len(q) - 1) : Tail(q)[i] = q[i + 1]
    BY <1>1
  <2>2. r \in Seq(T) /\ Len(r) = Len(q)
    BY <1>1, <2>1
  <2>3. \A i \in 1..Len(q) : r[i] = q[i]
    <3> TAKE i \in 1..Len(q)
    <3>1. CASE i = 1
      BY <1>1, <2>1, <3>1
    <3>2. CASE i # 1
      <4>1. i - 1 \in 1..(Len(q) - 1) /\ (i - 1) + 1 = i
        BY <2>1, <3>2
      <4>2. r[i] = Tail(q)[i - 1]
        BY <1>1, <2>1, <4>1, <3>2
      <4> QED BY <2>1, <4>1, <4>2
    <3> QED BY <3>1, <3>2
  <2> HIDE DEF r
  <2>4. r = q
    BY <2>2, <2>3
  <2> QED BY <2>1, <2>4 DEF r
<1>3. Occurrences(t, <<Head(q)>> \o Tail(q))
        = Occurrences(t, <<Head(q)>>) + Occurrences(t, Tail(q))
  BY <1>1, <1>2, OccurrencesConcat
<1> QED BY <1>2, <1>3, OccurrencesOne

\* The entries taken out of a table and those left make up the table.
LEMMA OccurrencesEntries ==
  ASSUME NEW T, NEW q \in Seq(T), NEW I \in SUBSET (DOMAIN q), NEW t
  PROVE  Occurrences(t, Entries(q, I)) = Cardinality({i \in I : q[i] = t})
<1> DEFINE e == Entries(q, I)
           B == Positions(t, e)
           C == {i \in I : q[i] = t}
           f == [k \in B |-> Ascending(I)[k]]
<1>1. Len(q) \in Nat /\ DOMAIN q = 1..Len(q)
  OBVIOUS
<1>2. /\ Cardinality(I) \in Nat
      /\ Ascending(I) \in [1..Cardinality(I) -> I]
      /\ \A i \in I : \E k \in 1..Cardinality(I) : Ascending(I)[k] = i
      /\ \A j, k \in 1..Cardinality(I) : j < k => Ascending(I)[j] < Ascending(I)[k]
  BY <1>1, AscendingLists
<1>3. /\ DOMAIN e = 1..Cardinality(I)
      /\ \A k \in 1..Cardinality(I) : e[k] = q[Ascending(I)[k]]
  BY DEF Entries
<1>4. e \in Seq(T)
  BY EntriesType
<1>5. IsFiniteSet(B) /\ Occurrences(t, e) = Cardinality(B)
  BY <1>4, OccurrencesNat
<1>6. \A k \in 1..Cardinality(I) : k \in B <=> Ascending(I)[k] \in C
  BY <1>2, <1>3 DEF Positions
<1>7. B \subseteq 1..Cardinality(I)
  BY <1>3 DEF Positions
<1>8. C \subseteq I /\ I \subseteq Int
  BY <1>1
<1> HIDE DEF B, C, e
<1>9. f \in [B -> C]
  BY <1>6, <1>7
<1>10. \A i \in C : \E k \in B : f[k] = i
  BY <1>2, <1>6, <1>8
<1>11. \A j, k \in B : f[j] = f[k] => j = k
  <2> SUFFICES ASSUME NEW j \in B, NEW k \in B, f[j] = f[k] PROVE j = k
    OBVIOUS
  <2>1. /\ j \in 1..Cardinality(I) /\ k \in 1..Cardinality(I)
        /\ Ascending(I)[j] = Ascending(I)[k]
    BY <1>7
  <2>2. Ascending(I)[j] \in Int
    BY <2>1, <1>2, <1>8
  <2>3. ~(j < k) /\ ~(k < j)
    BY <2>1, <2>2, <1>2
  <2> QED BY <2>1, <2>3
<1>12. f \in Bijection(B, C)
  BY <1>9, <1>10, <1>11 DEF Bijection, Injection, Surjection, IsInjective
<1>13. Bijection(B, C) # {}
  BY <1>12
<1>14. Cardinality(C) = Cardinality(B)
  BY <1>13, <1>5, FS_Bijection DEF ExistsBijection
<1> QED BY <1>5, <1>14 DEF C, e

LEMMA OccurrencesSplit ==
  ASSUME NEW T, NEW q \in Seq(T), NEW I \in SUBSET (DOMAIN q), NEW t
  PROVE  Occurrences(t, Entries(q, I)) + Occurrences(t, Entries(q, DOMAIN q \ I))
           = Occurrences(t, q)
<1> DEFINE A == {i \in I : q[i] = t}
           B == {i \in DOMAIN q \ I : q[i] = t}
<1>1. Occurrences(t, Entries(q, I)) = Cardinality(A)
  BY OccurrencesEntries
<1>2. Occurrences(t, Entries(q, DOMAIN q \ I)) = Cardinality(B)
  <2>1. DOMAIN q \ I \in SUBSET (DOMAIN q)
    OBVIOUS
  <2> QED BY <2>1, OccurrencesEntries
<1>3. /\ IsFiniteSet(Positions(t, q)) /\ Occurrences(t, q) = Cardinality(Positions(t, q))
  BY OccurrencesNat
<1>4. A \cup B = Positions(t, q) /\ A \cap B = {}
  BY DEF Positions
<1>5. IsFiniteSet(A) /\ IsFiniteSet(B)
  BY <1>3, <1>4, FS_Subset
<1>6. Cardinality(A \cap B) = 0 /\ Cardinality(A) \in Nat /\ Cardinality(B) \in Nat
  BY <1>4, <1>5, FS_EmptySet, FS_CardinalityType
<1>7. Cardinality(A \cup B) = Cardinality(A) + Cardinality(B) - Cardinality(A \cap B)
  BY <1>5, FS_Union
<1>8. Occurrences(t, q) = Cardinality(A \cup B)
  BY <1>3, <1>4, Zenon
<1> HIDE DEF A, B
<1>9. Cardinality(A \cup B) = Cardinality(A) + Cardinality(B)
  BY <1>6, <1>7
<1> QED BY <1>1, <1>2, <1>8, <1>9

LEMMA OccurrencesPositive ==
  ASSUME NEW T, NEW q \in Seq(T), NEW t \in Range(q)
  PROVE  Occurrences(t, q) \in Nat \ {0}
<1>1. Positions(t, q) # {}
  BY DEF Positions, Range
<1> QED BY <1>1, OccurrencesNat, FS_EmptySet

-----------------------------------------------------------------------------
(* The children of a thread *)

LEMMA ArrayRemoveFacts ==
  ASSUME NEW T, NEW q \in Seq(T), NEW j \in DOMAIN q
  PROVE  /\ array_remove(q, j) \in Seq(T)
         /\ Range(array_remove(q, j)) \subseteq Range(q)
         /\ IsInjective(q) => IsInjective(array_remove(q, j))
                              /\ q[j] \notin Range(array_remove(q, j))
<1> DEFINE r == array_remove(q, j)
           a == SubSeq(q, 1, j - 1)
           b == SubSeq(q, j + 1, Len(q))
<1>1. /\ Len(q) \in Nat /\ j \in 1..Len(q) /\ DOMAIN q = 1..Len(q)
  OBVIOUS
<1>2. /\ a \in Seq(T) /\ Len(a) = j - 1
      /\ \A i \in 1..(j - 1) : a[i] = q[i]
  BY <1>1
<1>3. /\ b \in Seq(T) /\ Len(b) = Len(q) - j
      /\ \A i \in 1..(Len(q) - j) : b[i] = q[j + i]
  BY <1>1
<1>4. r = a \o b
  BY DEF array_remove
<1> HIDE DEF r, a, b
<1>5. /\ r \in Seq(T) /\ Len(r) = Len(q) - 1
      /\ \A i \in 1..(j - 1) : r[i] = q[i]
      /\ \A i \in j..(Len(q) - 1) : r[i] = q[i + 1]
  <2>1. r \in Seq(T) /\ Len(r) = Len(q) - 1
    <3>1. r \in Seq(T) /\ Len(r) = Len(a) + Len(b)
      <4>1. a \in Seq(T) /\ b \in Seq(T)
        BY <1>2, <1>3
      <4>2. a \o b \in Seq(T) /\ Len(a \o b) = Len(a) + Len(b)
        BY <4>1
      <4> QED BY <1>4, <4>2, Zenon
    <3>2. (j - 1) + (Len(q) - j) = Len(q) - 1
      BY <1>1
    <3> QED BY <1>2, <1>3, <3>1, <3>2
  <2>2. \A i \in 1..(j - 1) : r[i] = q[i]
    BY <1>1, <1>2, <1>3, <1>4
  <2>3. ASSUME NEW i \in j..(Len(q) - 1) PROVE r[i] = q[i + 1]
    <3>1. i - (j - 1) \in 1..(Len(q) - j) /\ j + (i - (j - 1)) = i + 1
      BY <1>1
    <3>2. r[i] = b[i - (j - 1)]
      BY <1>1, <1>2, <1>3, <1>4
    <3> QED BY <1>3, <3>1, <3>2
  <2> QED BY <2>1, <2>2, <2>3
<1> DEFINE old(i) == IF i < j THEN i ELSE i + 1
<1>6. \A i \in 1..(Len(q) - 1) : old(i) \in 1..Len(q) /\ old(i) # j /\ r[i] = q[old(i)]
  BY <1>1, <1>5
<1>7. \A i, k \in 1..(Len(q) - 1) : old(i) = old(k) => i = k
  BY <1>1
<1>8. DOMAIN r = 1..(Len(q) - 1)
  BY <1>5
<1> HIDE DEF old
<1>9. Range(r) \subseteq Range(q)
  BY <1>1, <1>6, <1>8 DEF Range
<1>10. ASSUME IsInjective(q)
       PROVE  IsInjective(r) /\ q[j] \notin Range(r)
  <2>1. \A i, k \in 1..Len(q) : q[i] = q[k] => i = k
    BY <1>1, <1>10 DEF IsInjective
  <2>2. ASSUME NEW i \in DOMAIN r, NEW k \in DOMAIN r, r[i] = r[k] PROVE i = k
    <3>1. old(i) \in 1..Len(q) /\ old(k) \in 1..Len(q) /\ q[old(i)] = q[old(k)]
      BY <1>6, <1>8, <2>2
    <3> QED BY <1>7, <1>8, <2>1, <3>1
  <2>3. \A i \in DOMAIN r : r[i] # q[j]
    BY <1>1, <1>6, <1>8, <2>1
  <2> QED BY <2>2, <2>3 DEF IsInjective, Range
<1> QED BY <1>5, <1>9, <1>10 DEF r

\* Assigning one field of a structure leaves the others alone.
LEMMA DetachedUpdate ==
  ASSUME NEW x \in Struct, NEW v \in Nat
  PROVE  LET y == [x EXCEPT !.is_detached = v] IN
         /\ y \in Struct /\ y.is_detached = v
         /\ y.has_exited = x.has_exited /\ y.children = x.children
BY DEF Struct

LEMMA ExitedUpdate ==
  ASSUME NEW x \in Struct, NEW v \in Nat
  PROVE  LET y == [x EXCEPT !.has_exited = v] IN
         /\ y \in Struct /\ y.has_exited = v
         /\ y.is_detached = x.is_detached /\ y.children = x.children
BY DEF Struct

LEMMA PidUpdate ==
  ASSUME NEW x \in Struct, NEW v \in Nat
  PROVE  LET y == [x EXCEPT !.t_pid = v] IN
         /\ y \in Struct
         /\ y.is_detached = x.is_detached /\ y.has_exited = x.has_exited /\ y.children = x.children
BY DEF Struct

LEMMA ParentUpdate ==
  ASSUME NEW x \in Struct, NEW v \in Nat
  PROVE  LET y == [x EXCEPT !.parent = v] IN
         /\ y \in Struct
         /\ y.is_detached = x.is_detached /\ y.has_exited = x.has_exited /\ y.children = x.children
BY DEF Struct

LEMMA ChildrenUpdate ==
  ASSUME NEW x \in Struct, NEW v \in Seq(Threads)
  PROVE  LET y == [x EXCEPT !.children = v] IN
         /\ y \in Struct /\ y.children = v
         /\ y.is_detached = x.is_detached /\ y.has_exited = x.has_exited
BY DEF Struct

\* A nonempty set of positions has a last one.
LEMMA GreatestPosition ==
  ASSUME NEW n \in Nat, NEW J \in SUBSET (1..n), J # {}
  PROVE  \E m \in J : \A k \in J : k <= m
<1> DEFINE T == {m \in Nat : \A k \in J : k <= m}
<1>1. n \in T
  OBVIOUS
<1>2. PICK m \in T : \A k \in T : m <= k
  BY <1>1, LeastNumber
<1>3. m \in Nat /\ \A k \in J : k <= m /\ k \in Nat \ {0}
  OBVIOUS
<1>4. m # 0
  <2>1. PICK x \in J : TRUE
    OBVIOUS
  <2> QED BY <1>3, <2>1
<1>5. m - 1 \in Nat /\ m - 1 \notin T
  BY <1>2, <1>3, <1>4
<1>6. PICK i \in J : ~(i <= m - 1)
  BY <1>5
<1>7. i = m
  BY <1>3, <1>6
<1> QED BY <1>3, <1>7

\* What thread_detach, once or several times, does to the structures s0: it
\* takes children away from t and sets their flags.
DetachedFrom(s0, t, s) ==
  /\ s \in [Threads -> Struct]
  /\ Range(s[t].children) \subseteq Range(s0[t].children)
  /\ \A u \in Threads :
       /\ s[u].has_exited = s0[u].has_exited
       /\ u # t => s[u].children = s0[u].children
       /\ s[u].is_detached = s0[u].is_detached \/ u \in Range(s0[t].children)

LEMMA LastMatchFacts ==
  ASSUME NEW s \in [Threads -> Struct], NEW t \in Threads, NEW pid,
         Matches(s, t, pid) # {}
  PROVE  /\ LastMatch(s, t, pid) \in DOMAIN s[t].children
         /\ s[t].children \in Seq(Threads)
         /\ s[t].children[LastMatch(s, t, pid)] \in Range(s[t].children)
         /\ s[t].children[LastMatch(s, t, pid)] \in Threads
<1>1. s[t].children \in Seq(Threads)
  BY DEF Struct
<1>2. Matches(s, t, pid) \in SUBSET (1..Len(s[t].children)) /\ Len(s[t].children) \in Nat
  BY <1>1 DEF Matches
<1>3. \E i \in Matches(s, t, pid) : \A k \in Matches(s, t, pid) : k <= i
  BY <1>2, GreatestPosition
<1>4. LastMatch(s, t, pid) \in Matches(s, t, pid)
  BY <1>3 DEF LastMatch
<1>5. LastMatch(s, t, pid) \in DOMAIN s[t].children
  BY <1>4 DEF Matches
<1> QED BY <1>1, <1>5 DEF Range

\* What thread_detach does to the child that it detaches, field by field.
LEMMA DetachedFields ==
  ASSUME NEW s \in [Threads -> Struct], NEW t \in Threads,
         NEW j \in DOMAIN s[t].children, NEW c, c = s[t].children[j],
         Detached(s, t, j) # s
  PROVE  LET r == Detached(s, t, j) IN
         /\ c \in Threads /\ c \in Range(s[t].children)
         /\ r \in [Threads -> Struct]
         /\ \A u \in Threads :
              /\ r[u].has_exited = s[u].has_exited
              /\ r[u].is_detached = IF u = c THEN 1 ELSE s[u].is_detached
              /\ r[u].children = IF u = t THEN array_remove(s[t].children, j)
                                 ELSE s[u].children
<1> DEFINE r == Detached(s, t, j)
           k == array_remove(s[t].children, j)
           s1 == [s EXCEPT ![t].children = k]
<1>1. r = [s EXCEPT ![t].children = k, ![c].is_detached = 1]
  BY DEF Detached
<1>2. /\ s[t].children \in Seq(Threads)
      /\ c \in Threads /\ c \in Range(s[t].children)
  <2>1. s[t].children \in Seq(Threads)
    BY DEF Struct
  <2> QED BY <2>1 DEF Range
<1>3. k \in Seq(Threads)
  BY <1>2, ArrayRemoveFacts
<1> HIDE DEF k, r
<1>4. /\ s1 \in [Threads -> Struct]
      /\ \A u \in Threads : s1[u] = IF u = t THEN [s[t] EXCEPT !.children = k] ELSE s[u]
  <2>1. s[t] \in Struct /\ [s[t] EXCEPT !.children = k] \in Struct
    BY <1>3, ChildrenUpdate
  <2> QED BY <2>1
<1>5. \A u \in Threads :
        /\ s1[u].has_exited = s[u].has_exited
        /\ s1[u].is_detached = s[u].is_detached
        /\ s1[u].children = IF u = t THEN k ELSE s[u].children
  BY <1>3, <1>4, ChildrenUpdate
<1>6. r = [s1 EXCEPT ![c].is_detached = 1]
  BY <1>1
<1> HIDE DEF s1
<1>7. /\ r \in [Threads -> Struct]
      /\ \A u \in Threads : r[u] = IF u = c THEN [s1[c] EXCEPT !.is_detached = 1] ELSE s1[u]
  <2>1. s1[c] \in Struct /\ [s1[c] EXCEPT !.is_detached = 1] \in Struct
    BY <1>2, <1>3, <1>4, DetachedUpdate
  <2> QED BY <1>2, <1>4, <1>6, <2>1
<1>8. \A u \in Threads :
        /\ r[u].has_exited = s1[u].has_exited
        /\ r[u].is_detached = IF u = c THEN 1 ELSE s1[u].is_detached
        /\ r[u].children = s1[u].children
  <2>1. s1[c] \in Struct
    BY <1>2, <1>4
  <2> DEFINE y == [s1[c] EXCEPT !.is_detached = 1]
  <2>2. y.is_detached = 1 /\ y.has_exited = s1[c].has_exited /\ y.children = s1[c].children
    BY <2>1, <1>3, DetachedUpdate
  <2>3. \A u \in Threads : r[u] = IF u = c THEN y ELSE s1[u]
    BY <1>7
  <2> HIDE DEF y
  <2> QED BY <2>2, <2>3
<1>9. \A u \in Threads :
        /\ r[u].has_exited = s[u].has_exited
        /\ r[u].is_detached = IF u = c THEN 1 ELSE s[u].is_detached
        /\ r[u].children = IF u = t THEN k ELSE s[u].children
  BY <1>5, <1>8
<1> QED BY <1>1, <1>2, <1>7, <1>9, Zenon DEF k, r

LEMMA DetachedFacts ==
  ASSUME NEW s \in [Threads -> Struct], NEW t \in Threads, NEW j \in DOMAIN s[t].children
  PROVE  DetachedFrom(s, t, Detached(s, t, j))
<1> DEFINE r == Detached(s, t, j)
           c == s[t].children[j]
<1>1. CASE r = s
  BY <1>1 DEF DetachedFrom
<1>2. CASE r # s
  <2>1. /\ c \in Threads /\ c \in Range(s[t].children)
        /\ r \in [Threads -> Struct]
        /\ \A u \in Threads :
             /\ r[u].has_exited = s[u].has_exited
             /\ r[u].is_detached = IF u = c THEN 1 ELSE s[u].is_detached
             /\ r[u].children = IF u = t THEN array_remove(s[t].children, j)
                                ELSE s[u].children
    BY <1>2, DetachedFields
  <2>2. s[t].children \in Seq(Threads)
    BY DEF Struct
  <2> HIDE DEF r, c
  <2>3. Range(r[t].children) \subseteq Range(s[t].children)
    BY <2>1, <2>2, ArrayRemoveFacts
  <2>4. DetachedFrom(s, t, r)
    BY <2>1, <2>3 DEF DetachedFrom
  <2> QED BY <2>4 DEF r
<1> QED BY <1>1, <1>2

LEMMA AfterDetachFacts ==
  ASSUME NEW s \in [Threads -> Struct], NEW t \in Threads, NEW pid
  PROVE  DetachedFrom(s, t, AfterDetach(s, t, pid))
<1>1. CASE Matches(s, t, pid) = {}
  BY <1>1 DEF AfterDetach, DetachedFrom
<1>2. CASE Matches(s, t, pid) # {}
  BY <1>2, LastMatchFacts, DetachedFacts DEF AfterDetach
<1> QED BY <1>1, <1>2

LEMMA DetachRoundFacts ==
  ASSUME NEW s0 \in [Threads -> Struct], NEW t \in Threads, NEW s, NEW i,
         DetachedFrom(s0, t, s)
  PROVE  DetachedFrom(s0, t, DetachRound(s, t, i))
<1> DEFINE r == DetachRound(s, t, i)
<1>1. s \in [Threads -> Struct]
  BY DEF DetachedFrom
<1>2. r = s \/ DetachedFrom(s, t, r)
  BY <1>1, AfterDetachFacts DEF DetachRound
<1> HIDE DEF r
<1>3. DetachedFrom(s0, t, r)
  BY <1>2 DEF DetachedFrom
<1> QED BY <1>3 DEF r

\* f lists the structures after 0, 1, ..., n rounds of the loop of thread_exit.
Rounds(t, n, f) ==
  f = [i \in 0..n |-> IF i = 0 THEN struct ELSE DetachRound(f[i - 1], t, i)]

LEMMA RoundsExist ==
  ASSUME NEW t, NEW n \in Nat
  PROVE  \E f : Rounds(t, n, f)
<1> DEFINE Bad == {b \in Nat : ~ \E f : Rounds(t, b, f)}
<1>1. SUFFICES ASSUME Bad # {} PROVE FALSE
  OBVIOUS
<1>2. PICK b \in Bad : \A k \in Bad : b <= k
  BY <1>1, LeastNumber
<1>3. b \in Nat /\ ~ \E f : Rounds(t, b, f)
  OBVIOUS
<1>4. CASE b = 0
  <2> DEFINE f == [i \in 0..0 |-> struct]
  <2>1. f = [i \in 0..0 |-> IF i = 0 THEN struct ELSE DetachRound(f[i - 1], t, i)]
    OBVIOUS
  <2> QED BY <1>3, <1>4, <2>1 DEF Rounds
<1>5. CASE b # 0
  <2>1. b - 1 \in Nat /\ b - 1 \notin Bad
    BY <1>2, <1>3, <1>5
  <2>2. PICK f : Rounds(t, b - 1, f)
    BY <2>1
  <2> DEFINE g == [i \in 0..b |-> IF i = b THEN DetachRound(f[b - 1], t, b) ELSE f[i]]
             h == [i \in 0..b |-> IF i = 0 THEN struct ELSE DetachRound(g[i - 1], t, i)]
  <2>3. \A i \in 0..(b - 1) :
          f[i] = IF i = 0 THEN struct ELSE DetachRound(f[i - 1], t, i)
    BY <2>2 DEF Rounds
  <2>4. ASSUME NEW i \in 0..b PROVE g[i] = h[i]
    <3>1. CASE i = b
      <4>1. b - 1 \in 0..b /\ b - 1 # b
        BY <1>3, <1>5
      <4>2. g[b - 1] = f[b - 1]
        BY <4>1
      <4> QED BY <1>3, <1>5, <3>1, <4>2
    <3>2. CASE i # b /\ i # 0
      <4>1. i \in 0..(b - 1) /\ i - 1 \in 0..b /\ i - 1 # b
        BY <1>3, <3>2
      <4>2. g[i - 1] = f[i - 1]
        BY <4>1
      <4>3. g[i] = DetachRound(f[i - 1], t, i)
        BY <2>3, <3>2, <4>1
      <4> QED BY <3>2, <4>2, <4>3
    <3>3. CASE i # b /\ i = 0
      <4>1. 0 \in 0..(b - 1)
        BY <1>3, <1>5
      <4>2. g[0] = struct
        BY <2>3, <3>3, <4>1
      <4> QED BY <3>3, <4>2
    <3> QED BY <3>1, <3>2, <3>3
  <2>5. g = h
    BY <2>4
  <2>6. Rounds(t, b, g)
    BY <2>5 DEF Rounds
  <2> QED BY <1>3, <2>6
<1> QED BY <1>4, <1>5

LEMMA RoundsFacts ==
  ASSUME struct \in [Threads -> Struct], NEW t \in Threads, NEW n \in Nat, NEW f,
         Rounds(t, n, f)
  PROVE  \A i \in 0..n : DetachedFrom(struct, t, f[i])
<1> DEFINE Bad == {i \in 0..n : ~DetachedFrom(struct, t, f[i])}
<1>1. SUFFICES ASSUME Bad # {} PROVE FALSE
  OBVIOUS
<1>2. PICK b \in Bad : \A k \in Bad : b <= k
  <2>1. Bad \in SUBSET Nat
    OBVIOUS
  <2> HIDE DEF Bad
  <2> QED BY <1>1, <2>1, LeastNumber
<1>3. b \in 0..n /\ ~DetachedFrom(struct, t, f[b])
  OBVIOUS
<1>4. f[b] = IF b = 0 THEN struct ELSE DetachRound(f[b - 1], t, b)
  BY <1>3 DEF Rounds
<1>5. CASE b = 0
  BY <1>3, <1>4, <1>5 DEF DetachedFrom
<1>6. CASE b # 0
  <2>1. b - 1 \in 0..n /\ b - 1 \notin Bad
    BY <1>2, <1>3, <1>6
  <2>2. DetachedFrom(struct, t, f[b - 1])
    BY <2>1
  <2> QED BY <1>3, <1>4, <1>6, <2>2, DetachRoundFacts
<1> QED BY <1>5, <1>6

LEMMA DetachLoopFacts ==
  ASSUME struct \in [Threads -> Struct], NEW t \in Threads
  PROVE  DetachedFrom(struct, t, DetachLoop(t))
<1> DEFINE n == Len(struct[t].children)
           after == CHOOSE f : Rounds(t, n, f)
<1>1. n \in Nat
  <2>1. struct[t].children \in Seq(Threads)
    BY DEF Struct
  <2> QED BY <2>1
<1>2. Rounds(t, n, after)
  BY <1>1, RoundsExist
<1>3. DetachLoop(t) = after[n]
  BY DEF DetachLoop, DetachRounds, Rounds
<1>4. n \in 0..n
  BY <1>1
<1> QED BY <1>1, <1>2, <1>3, <1>4, RoundsFacts

-----------------------------------------------------------------------------
(* Types *)

\* What CountInv says nothing of.
TablesInv ==
  /\ SwitchTypeOK
  /\ joinable \in Seq(Threads)
  /\ struct \in [Threads -> Struct]
  /\ search \in [Threads -> Search]
  /\ joined \subseteq Threads /\ hasty \subseteq Threads

Looking == {"testing", "getting", "reading"}
Searching == Looking \cup {"found", "joining"}

\* The local variables of a search point into the tables and into children.
SearchInv ==
  \A t \in Threads :
    /\ stage[t] \in Looking => search[t].k \in 1..3 /\ search[t].i # 0
    /\ stage[t] \in Searching => search[t].j \in DOMAIN struct[t].children
    /\ stage[t] = "joining" => Child(t) \in joined

LEMMA FreshIsStruct ==
  ASSUME NEW s \in FreshStruct
  PROVE  s \in Struct /\ s.children = <<>>
<1>1. s \in [t_pid : Nat, parent : Nat, is_detached : Nat, has_exited : Nat, children : {<<>>}]
  BY LifeAssumption
<1>2. s.children = <<>> /\ <<>> \in Seq(Threads)
  BY <1>1
<1> QED BY <1>1, <1>2 DEF Struct

LEMMA TablesInit == Init => TablesInv
<1> SUFFICES ASSUME Init PROVE TablesInv
  OBVIOUS
<1>1. SwitchTypeOK
  <2>1. /\ curthread = Boot /\ runqueue = <<>> /\ sleepers = <<>> /\ panicked = FALSE
        /\ t_sleepaddr = [t \in Threads |-> NULL]
    BY DEF Init
  <2>2. /\ curthread \in Threads \cup {NULL} /\ runqueue \in Seq(Threads)
        /\ sleepers \in Seq(Threads)
    BY <2>1, LifeAssumption
  <2>3. t_sleepaddr \in [Threads -> Addrs \cup {NULL}] /\ panicked \in BOOLEAN
    BY <2>1
  <2> QED BY <2>2, <2>3 DEF SwitchTypeOK
<1>2. struct \in [Threads -> Struct]
  <2>1. PICK s \in FreshStruct :
          struct = [t \in Threads |-> [s EXCEPT !.t_pid = 1, !.parent = 0]]
    BY DEF Init
  <2>2. s \in Struct
    BY FreshIsStruct
  <2>3. [s EXCEPT !.t_pid = 1, !.parent = 0] \in Struct
    BY <2>2 DEF Struct
  <2> QED BY <2>1, <2>3
<1>3. search \in [Threads -> Search]
  <2>1. NoSearch \in Search
    BY DEF NoSearch, Search
  <2> QED BY <2>1 DEF Init
<1> QED BY <1>1, <1>2, <1>3 DEF Init, TablesInv

\* The steps that leave the fields of struct thread alone.
LEMMA TablesSwitch ==
  ASSUME TablesInv, StagesInv, UNCHANGED <<struct, search, joined, hasty>>, ~Fault,
         \/ switch_to
         \/ \E t \in Threads : yield(t)
         \/ \E t \in Threads, a \in Addrs : sleep(t, a) \/ sleep_return(t, a)
         \/ \E a \in Addrs : wakeup(a)
         \/ \E t \in Threads : fork_enqueue(t) \/ fork_fail(t)
  PROVE  TablesInv'
<1> USE DEF TablesInv, SwitchTypeOK, switchVars, lifeVars, tableVars, history
<1>1. CASE switch_to
  <2>1. Head(runqueue) \in Threads /\ Tail(runqueue) \in Seq(Threads)
    BY <1>1, HeadTailFacts DEF switch_to, scheduler
  <2> QED BY <1>1, <2>1 DEF switch_to, scheduler
<1>2. ASSUME NEW t \in Threads, yield(t) PROVE TablesInv'
  <2>1. Append(runqueue, t) \in Seq(Threads)
    OBVIOUS
  <2> QED BY <1>2, <2>1 DEF yield, thread_yield
<1>3. ASSUME NEW t \in Threads, NEW a \in Addrs, sleep(t, a) PROVE TablesInv'
  <2>1. curthread = t /\ Append(sleepers, t) \in Seq(Threads)
    BY <1>3 DEF sleep, OnCpu, Running
  <2>2. [t_sleepaddr EXCEPT ![t] = a] \in [Threads -> Addrs \cup {NULL}]
    OBVIOUS
  <2> QED BY <1>3, <2>1, <2>2 DEF sleep, thread_sleep
<1>4. ASSUME NEW t \in Threads, NEW a \in Addrs, sleep_return(t, a) PROVE TablesInv'
  <2>1. curthread = t /\ Append(sleepers, t) \in Seq(Threads)
    BY <1>4 DEF sleep_return, Resumed
  <2>2. /\ [t_sleepaddr EXCEPT ![t] = a] \in [Threads -> Addrs \cup {NULL}]
        /\ [t_sleepaddr EXCEPT ![t] = NULL] \in [Threads -> Addrs \cup {NULL}]
    OBVIOUS
  <2>3. /\ UNCHANGED <<runqueue, panicked, joinable>>
        /\ \/ ReturnFromSleep /\ UNCHANGED <<curthread, sleepers>>
           \/ thread_sleep(a, sleepers)
    BY <1>4 DEF sleep_return
  <2>4. CASE ReturnFromSleep /\ UNCHANGED <<curthread, sleepers>>
    BY <2>1, <2>2, <2>3, <2>4 DEF ReturnFromSleep
  <2>5. CASE thread_sleep(a, sleepers)
    BY <2>1, <2>2, <2>3, <2>5 DEF thread_sleep
  <2> QED BY <2>3, <2>4, <2>5
<1>5. ASSUME NEW a \in Addrs, wakeup(a) PROVE TablesInv'
  <2>1. StillAsleep(a) \in Seq(Threads) /\ Awakened(a) \in Seq(Threads)
    BY WakeupType
  <2>2. runqueue \o Awakened(a) \in Seq(Threads)
    BY <2>1
  <2> QED BY <1>5, <2>1, <2>2 DEF wakeup, thread_wakeup
<1>6. ASSUME NEW t \in Threads, fork_enqueue(t) \/ fork_fail(t) PROVE TablesInv'
  <2>1. CASE fork_enqueue(t)
    <3>1. newguy[t] \in Threads
      BY <2>1 DEF fork_enqueue, OnCpu, StagesInv
    <3>2. Append(runqueue, newguy[t]) \in Seq(Threads)
      BY <3>1
    <3> QED BY <2>1, <3>2 DEF fork_enqueue
  <2> QED BY <1>6, <2>1 DEF fork_fail
<1> QED BY <1>1, <1>2, <1>3, <1>4, <1>5, <1>6

LEMMA TablesFork ==
  ASSUME TablesInv, NEW t \in Threads, NEW n \in Threads, thread_fork(t, n)
  PROVE  TablesInv'
<1>1. FreshStruct \subseteq Struct
  BY FreshIsStruct
<1>2. PICK s \in FreshStruct : struct' = [struct EXCEPT ![n] = s]
  BY DEF thread_fork
<1>3. struct' \in [Threads -> Struct]
  BY <1>1, <1>2 DEF TablesInv
<1> QED BY <1>3 DEF thread_fork, TablesInv, SwitchTypeOK, switchVars, tableVars, history

\* fork_return, field by field.
LEMMA ForkReturnFields ==
  ASSUME TablesInv, NEW t \in Threads, NEW w \in BOOLEAN, fork_return(t, w), ~Fault,
         NEW n \in Threads, n = newguy[t]
  PROVE  /\ struct' \in [Threads -> Struct]
         /\ \A u \in Threads :
              /\ struct'[u].is_detached = IF u = n THEN 0 ELSE struct[u].is_detached
              /\ struct'[u].has_exited = IF u = n THEN 0 ELSE struct[u].has_exited
              /\ struct'[u].children = IF u = t /\ w THEN Append(struct[t].children, n)
                                       ELSE struct[u].children
<1> DEFINE k == Append(struct[t].children, n)
           pid == struct[t].t_pid
           a == [struct EXCEPT ![n].is_detached = 0]
           b == [a EXCEPT ![n].has_exited = 0]
           c == [b EXCEPT ![n].t_pid = 2 * pid]
           d == [c EXCEPT ![n].parent = pid]
           e == [d EXCEPT ![t].children = k]
<1>0. struct \in [Threads -> Struct] /\ pid \in Nat /\ 2 * pid \in Nat /\ 0 \in Nat
      /\ k \in Seq(Threads)
  <2>1. struct \in [Threads -> Struct]
    BY DEF TablesInv
  <2>2. pid \in Nat /\ struct[t].children \in Seq(Threads)
    BY <2>1 DEF Struct
  <2> QED BY <2>1, <2>2
<1> HIDE DEF pid, k
<1>1. /\ a \in [Threads -> Struct]
      /\ \A u \in Threads :
           /\ a[u].is_detached = IF u = n THEN 0 ELSE struct[u].is_detached
           /\ a[u].has_exited = struct[u].has_exited
           /\ a[u].children = struct[u].children
  <2>1. \A u \in Threads : a[u] = IF u = n THEN [struct[n] EXCEPT !.is_detached = 0] ELSE struct[u]
    BY <1>0
  <2>2. struct[n] \in Struct
    BY <1>0
  <2> DEFINE y == [struct[n] EXCEPT !.is_detached = 0]
  <2>3. /\ y \in Struct /\ y.is_detached = 0
        /\ y.has_exited = struct[n].has_exited /\ y.children = struct[n].children
    BY <1>0, <2>2, DetachedUpdate
  <2>4. \A u \in Threads : a[u] = IF u = n THEN y ELSE struct[u]
    BY <2>1
  <2> HIDE DEF y
  <2>5. a \in [Threads -> Struct]
    BY <1>0, <2>3, <2>4
  <2> QED BY <2>3, <2>4, <2>5
<1> HIDE DEF a
<1>2. /\ b \in [Threads -> Struct]
      /\ \A u \in Threads :
           /\ b[u].is_detached = a[u].is_detached
           /\ b[u].has_exited = IF u = n THEN 0 ELSE a[u].has_exited
           /\ b[u].children = a[u].children
  <2>2. a[n] \in Struct
    BY <1>1
  <2> DEFINE y == [a[n] EXCEPT !.has_exited = 0]
  <2>3. /\ y \in Struct /\ y.has_exited = 0
        /\ y.is_detached = a[n].is_detached /\ y.children = a[n].children
    BY <1>0, <2>2, ExitedUpdate
  <2>4. \A u \in Threads : b[u] = IF u = n THEN y ELSE a[u]
    BY <1>1
  <2>5. b \in [Threads -> Struct]
    BY <1>1, <2>3
  <2> HIDE DEF y, b
  <2> QED BY <2>3, <2>4, <2>5
<1> HIDE DEF b
<1>3. /\ c \in [Threads -> Struct]
      /\ \A u \in Threads :
           /\ c[u].is_detached = b[u].is_detached
           /\ c[u].has_exited = b[u].has_exited
           /\ c[u].children = b[u].children
  <2>2. b[n] \in Struct
    BY <1>2
  <2> DEFINE y == [b[n] EXCEPT !.t_pid = 2 * pid]
  <2>3. /\ y \in Struct /\ y.has_exited = b[n].has_exited
        /\ y.is_detached = b[n].is_detached /\ y.children = b[n].children
    BY <1>0, <2>2, PidUpdate
  <2>4. \A u \in Threads : c[u] = IF u = n THEN y ELSE b[u]
    BY <1>2
  <2>5. c \in [Threads -> Struct]
    BY <1>2, <2>3
  <2> HIDE DEF y, c
  <2> QED BY <2>3, <2>4, <2>5
<1> HIDE DEF c
<1>4. /\ d \in [Threads -> Struct]
      /\ \A u \in Threads :
           /\ d[u].is_detached = c[u].is_detached
           /\ d[u].has_exited = c[u].has_exited
           /\ d[u].children = c[u].children
  <2>2. c[n] \in Struct
    BY <1>3
  <2> DEFINE y == [c[n] EXCEPT !.parent = pid]
  <2>3. /\ y \in Struct /\ y.has_exited = c[n].has_exited
        /\ y.is_detached = c[n].is_detached /\ y.children = c[n].children
    BY <1>0, <2>2, ParentUpdate
  <2>4. \A u \in Threads : d[u] = IF u = n THEN y ELSE c[u]
    BY <1>3
  <2>5. d \in [Threads -> Struct]
    BY <1>3, <2>3
  <2> HIDE DEF y, d
  <2> QED BY <2>3, <2>4, <2>5
<1> HIDE DEF d
<1>5. /\ e \in [Threads -> Struct]
      /\ \A u \in Threads :
           /\ e[u].is_detached = d[u].is_detached
           /\ e[u].has_exited = d[u].has_exited
           /\ e[u].children = IF u = t THEN k ELSE d[u].children
  <2>2. d[t] \in Struct
    BY <1>4
  <2> DEFINE y == [d[t] EXCEPT !.children = k]
  <2>3. /\ y \in Struct /\ y.has_exited = d[t].has_exited
        /\ y.is_detached = d[t].is_detached /\ y.children = k
    BY <1>0, <2>2, ChildrenUpdate
  <2>4. \A u \in Threads : e[u] = IF u = t THEN y ELSE d[u]
    BY <1>4
  <2>5. e \in [Threads -> Struct]
    BY <1>4, <2>3
  <2> HIDE DEF y, e
  <2> QED BY <2>3, <2>4, <2>5
<1> HIDE DEF e
<1>6. struct' = IF w THEN e ELSE b
  <2>1. CASE w
    <3>1. b = [struct EXCEPT ![n].is_detached = 0, ![n].has_exited = 0]
      BY DEF a, b
    <3>2. d = [b EXCEPT ![n].t_pid = 2 * pid, ![n].parent = pid]
      BY DEF c, d
    <3>3. struct' = [d EXCEPT ![t].children = Append(@, n)]
      BY <2>1, <3>1, <3>2 DEF fork_return, pid
    <3>4. d[t].children = struct[t].children
      BY <1>1, <1>2, <1>3, <1>4
    <3>5. struct' = [d EXCEPT ![t].children = k]
      BY <3>3, <3>4, <1>4 DEF k
    <3> QED BY <2>1, <3>5 DEF e
  <2>2. CASE ~w
    BY <2>2 DEF fork_return, a, b
  <2> QED BY <2>1, <2>2
<1>7. CASE w
  BY <1>1, <1>2, <1>3, <1>4, <1>5, <1>6, <1>7 DEF k
<1>8. CASE ~w
  BY <1>1, <1>2, <1>6, <1>8
<1> QED BY <1>7, <1>8

\* What a step of thread_join or thread_detach of t does but for t's local
\* variables: it looks, makes the child runnable, forgets it or detaches it.
Looks(t) ==
  /\ stage[t] # "joining" /\ stage'[t] # "joining"
  /\ UNCHANGED <<struct, joined, runqueue>>

Queues(t) ==
  LET c == Child(t) IN
  /\ stage[t] = "found" /\ stage'[t] = "joining"
  /\ joined' = joined \cup {c}
  /\ runqueue' = IF struct[c].has_exited = 0 THEN Append(runqueue, c) ELSE runqueue
  /\ UNCHANGED <<struct, search>>

Forgets(t) ==
  /\ stage[t] = "joining" /\ stage'[t] = "active"
  /\ struct' = [struct EXCEPT ![t].children = array_remove(@, search[t].j)]
  /\ UNCHANGED <<joined, runqueue>>

Detaches(t) ==
  /\ stage[t] = "found" /\ stage'[t] = "active"
  /\ struct' = Detached(struct, t, search[t].j)
  /\ UNCHANGED <<joined, runqueue>>

LEMMA SearchOutcome ==
  ASSUME StagesInv, NEW t \in Threads, SearchStep(t), ~Fault
  PROVE  Looks(t) \/ Queues(t) \/ Forgets(t) \/ Detaches(t)
<1> USE DEF FindChild, OnCpu, Found, Enter, Leave, switchVars, searchRest, history,
            StagesInv
<1>1. ASSUME NEW p \in Words, thread_join(t, p) \/ thread_detach(t, p)
      PROVE  Looks(t)
  BY <1>1 DEF thread_join, thread_detach, Looks
<1>2. CASE search_test(t)
  BY <1>2 DEF search_test, Looks
<1>3. CASE search_get(t)
  BY <1>3 DEF search_get, Looks
<1>4. CASE search_read(t)
  BY <1>4 DEF search_read, Looks
<1>5. CASE join_found(t)
  BY <1>5 DEF join_found, Looks, Queues
<1>6. CASE join_return(t)
  BY <1>6 DEF join_return, Forgets
<1>7. CASE detach_found(t)
  BY <1>7 DEF detach_found, Detaches
<1> QED
  BY <1>1, <1>2, <1>3, <1>4, <1>5, <1>6, <1>7 DEF SearchStep

\* Assigning one of the local variables of a search leaves the others alone.
LEMMA TableUpdate ==
  ASSUME NEW f \in Search, NEW v \in 1..4
  PROVE  LET g == [f EXCEPT !.k = v] IN
         g \in Search /\ g.j = f.j /\ g.k = v /\ g.i = f.i
BY DEF Search

LEMMA IndexUpdate ==
  ASSUME NEW f \in Search, NEW v \in Nat
  PROVE  LET g == [f EXCEPT !.i = v] IN
         g \in Search /\ g.j = f.j /\ g.k = f.k /\ g.i = v
BY DEF Search

LEMMA GuyUpdate ==
  ASSUME NEW f \in Search, NEW v \in Threads \cup {NULL}
  PROVE  LET g == [f EXCEPT !.guy = v] IN
         g \in Search /\ g.j = f.j /\ g.k = f.k /\ g.i = f.i
BY DEF Search

LEMMA SearchRecord ==
  ASSUME TablesInv, StagesInv, SearchInv, NEW t \in Threads, SearchStep(t), ~Fault
  PROVE  /\ search' \in [Threads -> Search]
         /\ \A u \in Threads : u # t => search'[u] = search[u]
         /\ stage'[t] \in Looking => search'[t].k \in 1..3 /\ search'[t].i # 0
         /\ stage'[t] \in Searching => search'[t].j \in DOMAIN struct[t].children
<1> DEFINE f == search[t]
           Goal == /\ search' \in [Threads -> Search]
                   /\ \A u \in Threads : u # t => search'[u] = search[u]
                   /\ stage'[t] \in Looking => search'[t].k \in 1..3 /\ search'[t].i # 0
                   /\ stage'[t] \in Searching => search'[t].j \in DOMAIN struct[t].children
<1>0. /\ search \in [Threads -> Search] /\ f \in Search
      /\ f.i \in Nat /\ f.k \in 1..4
      /\ stage[t] \in Looking => f.k \in 1..3 /\ f.i # 0
      /\ stage[t] \in Searching => f.j \in DOMAIN struct[t].children
      /\ stage \in [Threads -> Stages]
  BY DEF TablesInv, StagesInv, SearchInv, Search
<1> USE DEF Looking, Searching
<1> HIDE DEF f
<1>1. ASSUME NEW g \in Search, search' = [search EXCEPT ![t] = g],
             NEW w, stage' = [stage EXCEPT ![t] = w],
             w \in Looking => g.k \in 1..3 /\ g.i # 0,
             w \in Searching => g.j \in DOMAIN struct[t].children
      PROVE  Goal
  <2>1. stage'[t] = w /\ search'[t] = g
    BY <1>0, <1>1
  <2> QED BY <1>0, <1>1, <2>1
<1>2. ASSUME search' = search, NEW w, stage' = [stage EXCEPT ![t] = w],
             stage[t] \in Searching, w \in Looking => stage[t] \in Looking
      PROVE  Goal
  <2>1. stage'[t] = w
    BY <1>0, <1>2
  <2> QED BY <1>0, <1>2, <2>1 DEF f
<1>3. ASSUME Leave(t) PROVE Goal
  <2>1. NoSearch \in Search
    BY DEF NoSearch, Search
  <2> QED BY <1>1, <1>3, <2>1 DEF Leave, Enter
<1>4. ASSUME NEW p \in Words, NEW call \in {"join", "detach"}, FindChild(t, p, call)
      PROVE  Goal
  <2> DEFINE j == LastMatch(struct, t, p)
             g == [call |-> call, j |-> j, k |-> 1, i |-> 1, guy |-> NULL]
  <2>1. /\ Matches(struct, t, p) # {} /\ search' = [search EXCEPT ![t] = g]
        /\ stage' = [stage EXCEPT ![t] = "testing"]
    BY <1>4 DEF FindChild, Enter
  <2>2. j \in DOMAIN struct[t].children /\ j \in Nat
    <3>1. j \in DOMAIN struct[t].children /\ struct[t].children \in Seq(Threads)
      BY <2>1, LastMatchFacts DEF TablesInv
    <3> QED BY <3>1
  <2> HIDE DEF j
  <2>3. g \in Search /\ g.k \in 1..3 /\ g.i # 0 /\ g.j = j
    BY <2>2 DEF Search
  <2> HIDE DEF g
  <2> QED BY <1>1, <2>1, <2>2, <2>3
<1>5. CASE search_test(t)
  <2>1. stage[t] = "testing"
    BY <1>5 DEF search_test, OnCpu
  <2>2. CASE stage' = [stage EXCEPT ![t] = "getting"] /\ search' = search
    BY <1>2, <2>1, <2>2
  <2>3. ASSUME search' = [search EXCEPT ![t].k = @ + 1, ![t].i = 1],
               stage' = [stage EXCEPT ![t] = IF f.k = 3 THEN "found" ELSE "testing"]
        PROVE  Goal
    <3> DEFINE g == [f EXCEPT !.k = @ + 1, !.i = 1]
               w == IF f.k = 3 THEN "found" ELSE "testing"
    <3>1. g \in Search /\ g.j = f.j /\ g.k = f.k + 1 /\ g.i = 1
      <4> DEFINE h == [f EXCEPT !.k = f.k + 1]
      <4>1. f.k + 1 \in 1..4 /\ 1 \in Nat
        BY <1>0, <2>1
      <4>2. h \in Search /\ h.j = f.j /\ h.k = f.k + 1
        BY <1>0, <4>1, TableUpdate
      <4>3. g = [h EXCEPT !.i = 1]
        OBVIOUS
      <4> HIDE DEF g, h
      <4>4. g \in Search /\ g.j = h.j /\ g.k = h.k /\ g.i = 1
        BY <4>1, <4>2, <4>3, IndexUpdate
      <4> QED BY <4>2, <4>4
    <3>2. search' = [search EXCEPT ![t] = g]
      BY <2>3 DEF f
    <3> HIDE DEF g
    <3>3. /\ w \in Looking => g.k \in 1..3 /\ g.i # 0
          /\ w \in Searching => g.j \in DOMAIN struct[t].children
      BY <1>0, <2>1, <3>1
    <3>4. stage' = [stage EXCEPT ![t] = w]
      BY <2>3
    <3> HIDE DEF w
    <3> QED BY <1>1, <3>1, <3>2, <3>3, <3>4
  <2> QED BY <1>5, <2>2, <2>3 DEF search_test, Enter, f
<1>6. CASE search_get(t)
  <2>1. /\ stage[t] = "getting" /\ f.i <= Len(Tables[f.k])
        /\ stage' = [stage EXCEPT ![t] = "reading"]
        /\ search' = [search EXCEPT ![t].guy = Tables[f.k][f.i]]
    BY <1>6 DEF search_get, OnCpu, Enter, f
  <2> DEFINE c == Tables[f.k][f.i]
             g == [f EXCEPT !.guy = c]
  <2>2. c \in Threads
    <3>1. f.k \in 1..3 /\ f.i \in Nat \ {0}
      BY <1>0, <2>1
    <3>2. Tables[f.k] \in Seq(Threads)
      <4>1. /\ sleepers \in Seq(Threads) /\ zombies \in Seq(Threads)
            /\ joinable \in Seq(Threads)
        BY DEF TablesInv, SwitchTypeOK, StagesInv
      <4>2. /\ Tables[1] = sleepers /\ Tables[2] = zombies /\ Tables[3] = joinable
        BY DEF Tables
      <4>3. f.k = 1 \/ f.k = 2 \/ f.k = 3
        BY <3>1
      <4> QED BY <4>1, <4>2, <4>3
    <3>3. f.i \in 1..Len(Tables[f.k])
      BY <2>1, <3>1, <3>2
    <3> QED BY <3>2, <3>3
  <2>3. g \in Search /\ g.j = f.j /\ g.k = f.k /\ g.i = f.i
    BY <1>0, <2>2, GuyUpdate
  <2>4. search' = [search EXCEPT ![t] = g]
    BY <2>1 DEF f
  <2> HIDE DEF g, c
  <2>5. f.k \in 1..3 /\ f.i # 0 /\ f.j \in DOMAIN struct[t].children
    BY <1>0, <2>1
  <2> QED BY <1>1, <2>1, <2>3, <2>4, <2>5
<1>7. CASE search_read(t)
  <2>1. /\ stage[t] = "reading"
        /\ stage' = [stage EXCEPT ![t] = "testing"]
        /\ search' = [search EXCEPT ![t].i = @ + 1, ![t].guy = NULL]
    BY <1>7 DEF search_read, OnCpu, Enter
  <2> DEFINE g == [f EXCEPT !.i = @ + 1, !.guy = NULL]
  <2>3. g \in Search /\ g.j = f.j /\ g.k = f.k /\ g.i = f.i + 1
    <3> DEFINE h == [f EXCEPT !.i = f.i + 1]
    <3>1. f.i + 1 \in Nat /\ NULL \in Threads \cup {NULL}
      BY <1>0
    <3>2. h \in Search /\ h.j = f.j /\ h.k = f.k /\ h.i = f.i + 1
      BY <1>0, <3>1, IndexUpdate
    <3>3. g = [h EXCEPT !.guy = NULL]
      OBVIOUS
    <3> HIDE DEF g, h
    <3>4. g \in Search /\ g.j = h.j /\ g.k = h.k /\ g.i = h.i
      BY <3>1, <3>2, <3>3, GuyUpdate
    <3> QED BY <3>2, <3>4
  <2>4. search' = [search EXCEPT ![t] = g]
    BY <2>1 DEF f
  <2> HIDE DEF g
  <2>5. g.k \in 1..3 /\ g.i # 0 /\ g.j \in DOMAIN struct[t].children
    BY <1>0, <2>1, <2>3
  <2> QED BY <1>1, <2>1, <2>3, <2>4, <2>5
<1>8. CASE join_found(t)
  <2>1. CASE Leave(t)
    BY <1>3, <2>1
  <2>2. CASE Enter(t, "joining") /\ search' = search
    BY <1>2, <1>8, <2>2 DEF join_found, Found, OnCpu, Enter
  <2> QED BY <1>8, <2>1, <2>2 DEF join_found
<1>9. CASE join_return(t) \/ detach_found(t)
  BY <1>3, <1>9 DEF join_return, detach_found
<1>10. ASSUME NEW p \in Words, thread_join(t, p) \/ thread_detach(t, p)
       PROVE  Goal
  BY <1>4, <1>10 DEF thread_join, thread_detach
<1> QED
  BY <1>5, <1>6, <1>7, <1>8, <1>9, <1>10 DEF SearchStep

\* Forgetting a child, field by field.
LEMMA ForgetFields ==
  ASSUME TablesInv, NEW t \in Threads, NEW j \in DOMAIN struct[t].children,
         struct' = [struct EXCEPT ![t].children = array_remove(@, j)]
  PROVE  /\ struct' \in [Threads -> Struct]
         /\ \A u \in Threads :
              /\ struct'[u].is_detached = struct[u].is_detached
              /\ struct'[u].has_exited = struct[u].has_exited
              /\ struct'[u].children = IF u = t THEN array_remove(struct[t].children, j)
                                       ELSE struct[u].children
<1> DEFINE k == array_remove(struct[t].children, j)
           y == [struct[t] EXCEPT !.children = k]
<1>1. struct \in [Threads -> Struct] /\ struct' = [struct EXCEPT ![t].children = k]
  BY DEF TablesInv
<1>2. k \in Seq(Threads)
  <2>1. struct[t].children \in Seq(Threads)
    BY <1>1 DEF Struct
  <2> QED BY <2>1, ArrayRemoveFacts
<1> HIDE DEF k
<1>3. /\ y \in Struct /\ y.has_exited = struct[t].has_exited
      /\ y.is_detached = struct[t].is_detached /\ y.children = k
  BY <1>1, <1>2, ChildrenUpdate
<1>4. /\ struct' \in [Threads -> Struct]
      /\ \A u \in Threads : struct'[u] = IF u = t THEN y ELSE struct[u]
  BY <1>1, <1>3
<1> HIDE DEF y
<1> QED BY <1>3, <1>4 DEF k

\* The last step of thread_exit, on structures s.
LEMMA ZombieFields ==
  ASSUME NEW s \in [Threads -> Struct], NEW t \in Threads
  PROVE  LET r == [s EXCEPT ![t].has_exited = 1] IN
         /\ r \in [Threads -> Struct]
         /\ \A u \in Threads :
              /\ r[u].is_detached = s[u].is_detached
              /\ r[u].has_exited = IF u = t THEN 1 ELSE s[u].has_exited
              /\ r[u].children = s[u].children
<1> DEFINE y == [s[t] EXCEPT !.has_exited = 1]
           r == [s EXCEPT ![t].has_exited = 1]
<1>1. s[t] \in Struct /\ 1 \in Nat /\ <<>> \in Seq(Threads)
  OBVIOUS
<1>2. /\ y \in Struct /\ y.has_exited = 1
      /\ y.is_detached = s[t].is_detached /\ y.children = s[t].children
  BY <1>1, ExitedUpdate
<1>3. r \in [Threads -> Struct]
  BY <1>2
<1>4. \A u \in Threads : r[u] = IF u = t THEN y ELSE s[u]
  OBVIOUS
<1> HIDE DEF y, r
<1>5. \A u \in Threads :
        /\ r[u].is_detached = s[u].is_detached
        /\ r[u].has_exited = IF u = t THEN 1 ELSE s[u].has_exited
        /\ r[u].children = s[u].children
  BY <1>2, <1>4
<1> QED BY <1>3, <1>5 DEF r

\* thread_exit, field by field: by then t has given up some children.
LEMMA ExitFields ==
  ASSUME TablesInv, NEW t \in Threads, thread_exit(t), ~Fault
  PROVE  /\ struct' \in [Threads -> Struct]
         /\ \A u \in Threads :
              /\ u # t => struct'[u].has_exited = struct[u].has_exited
              /\ u # t => struct'[u].children = struct[u].children
              /\ \/ struct'[u].is_detached = struct[u].is_detached
                 \/ u \in Range(struct[t].children)
         /\ \/ /\ struct'[t].is_detached = 0
               /\ struct'[t].has_exited = struct[t].has_exited
               /\ joinable' = Append(joinable, t)
               /\ stage' = [stage EXCEPT ![t] = "exited"]
               /\ hasty' = hasty
            \/ /\ struct'[t].is_detached # 0
               /\ joinable' = joinable
               /\ stage' = [stage EXCEPT ![t] = "zombie"]
               /\ hasty' = IF t \in Range(newguy) THEN hasty \cup {t} ELSE hasty
         /\ curthread' = NULL
         /\ UNCHANGED <<runqueue, sleepers, t_sleepaddr, panicked, newguy, search, joined>>
<1> DEFINE s == DetachLoop(t)
<1>1. DetachedFrom(struct, t, s)
  BY DetachLoopFacts DEF TablesInv
<1> HIDE DEF s
<1>2. /\ curthread' = NULL
      /\ UNCHANGED <<runqueue, sleepers, t_sleepaddr, panicked, newguy, search, joined>>
      /\ \/ /\ s[t].is_detached = 0 /\ struct' = s
            /\ joinable' = Append(joinable, t)
            /\ stage' = [stage EXCEPT ![t] = "exited"]
            /\ hasty' = hasty
         \/ /\ s[t].is_detached # 0 /\ struct' = [s EXCEPT ![t].has_exited = 1]
            /\ joinable' = joinable
            /\ stage' = [stage EXCEPT ![t] = "zombie"]
            /\ hasty' = IF t \in Range(newguy) THEN hasty \cup {t} ELSE hasty
  BY DEF thread_exit, BecomeZombie, Enter, s
<1>3. CASE struct' = s
  BY <1>1, <1>2, <1>3, ZombieFields DEF DetachedFrom
<1>4. CASE struct' = [s EXCEPT ![t].has_exited = 1]
  <2>1. s \in [Threads -> Struct]
    BY <1>1 DEF DetachedFrom
  <2> DEFINE z == [s EXCEPT ![t].has_exited = 1]
  <2>0. /\ z \in [Threads -> Struct]
        /\ \A u \in Threads :
              /\ z[u].is_detached = s[u].is_detached
              /\ z[u].has_exited = IF u = t THEN 1 ELSE s[u].has_exited
              /\ z[u].children = s[u].children
    BY <2>1, ZombieFields
  <2>2. /\ struct' \in [Threads -> Struct]
        /\ \A u \in Threads :
              /\ struct'[u].is_detached = s[u].is_detached
              /\ struct'[u].has_exited = IF u = t THEN 1 ELSE s[u].has_exited
              /\ struct'[u].children = s[u].children
    BY <1>4, <2>0
  <2>3. \A u \in Threads :
          /\ s[u].has_exited = struct[u].has_exited
          /\ u # t => s[u].children = struct[u].children
          /\ s[u].is_detached = struct[u].is_detached \/ u \in Range(struct[t].children)
    BY <1>1 DEF DetachedFrom
  <2>4. \/ /\ struct'[t].is_detached = 0
           /\ struct'[t].has_exited = struct[t].has_exited
           /\ joinable' = Append(joinable, t)
           /\ stage' = [stage EXCEPT ![t] = "exited"]
           /\ hasty' = hasty
        \/ /\ struct'[t].is_detached # 0
           /\ joinable' = joinable
           /\ stage' = [stage EXCEPT ![t] = "zombie"]
           /\ hasty' = IF t \in Range(newguy) THEN hasty \cup {t} ELSE hasty
    <3>1. CASE s[t].is_detached = 0 /\ struct' = s /\ joinable' = Append(joinable, t)
               /\ stage' = [stage EXCEPT ![t] = "exited"] /\ hasty' = hasty
      BY <2>3, <3>1
    <3> QED BY <1>2, <2>2, <3>1
  <2> QED BY <1>2, <2>2, <2>3, <2>4
<1> QED BY <1>2, <1>3, <1>4

LEMMA ResumeFields ==
  ASSUME TablesInv, NEW t \in Threads, exit_resume(t)
  PROVE  /\ struct' \in [Threads -> Struct]
         /\ \A u \in Threads :
              /\ u # t => struct'[u].has_exited = struct[u].has_exited
              /\ struct'[u].children = struct[u].children
              /\ struct'[u].is_detached = struct[u].is_detached
         /\ stage' = [stage EXCEPT ![t] = "zombie"]
         /\ curthread' = NULL
         /\ UNCHANGED <<runqueue, sleepers, t_sleepaddr, panicked, joinable, newguy, search,
                      history>>
<1>1. struct' = [struct EXCEPT ![t].has_exited = 1]
  BY DEF exit_resume, BecomeZombie
<1>2. /\ struct' \in [Threads -> Struct]
      /\ \A u \in Threads :
            /\ struct'[u].is_detached = struct[u].is_detached
            /\ struct'[u].has_exited = IF u = t THEN 1 ELSE struct[u].has_exited
            /\ struct'[u].children = struct[u].children
  BY <1>1, ZombieFields DEF TablesInv
<1> QED BY <1>2 DEF exit_resume, BecomeZombie

LEMMA TablesFamily ==
  ASSUME TablesInv, StagesInv, SearchInv, ~Fault,
         \/ \E t \in Threads, n \in Threads : thread_fork(t, n)
         \/ \E t \in Threads, w \in BOOLEAN : fork_return(t, w) /\ newguy[t] \in Threads
         \/ \E t \in Threads : SearchStep(t)
         \/ \E t \in Threads : thread_exit(t) \/ exit_resume(t)
  PROVE  TablesInv'
<1> USE DEF SwitchTypeOK, switchVars, tableVars, history
<1>0. CASE \E t \in Threads, n \in Threads : thread_fork(t, n)
  BY <1>0, TablesFork
<1>1. ASSUME NEW t \in Threads, NEW w \in BOOLEAN, fork_return(t, w), newguy[t] \in Threads
      PROVE  TablesInv'
  <2>1. struct' \in [Threads -> Struct]
    BY <1>1, ForkReturnFields
  <2> QED BY <1>1, <2>1 DEF TablesInv, fork_return
<1>2. ASSUME NEW t \in Threads, SearchStep(t)
      PROVE  TablesInv'
  <2>1. search' \in [Threads -> Search]
    BY <1>2, SearchRecord
  <2>2. UNCHANGED <<curthread, sleepers, t_sleepaddr, panicked, joinable, hasty>>
    BY <1>2, SearchMoves DEF Moves
  <2>3. /\ runqueue \in Seq(Threads) /\ struct \in [Threads -> Struct]
        /\ joined \subseteq Threads
    BY DEF TablesInv
  <2>4. stage[t] \in {"found", "joining"} =>
          search[t].j \in DOMAIN struct[t].children /\ Child(t) \in Threads
    <3>1. struct[t].children \in Seq(Threads)
      BY <2>3 DEF Struct
    <3> QED BY <3>1 DEF SearchInv, Searching, Child
  <2>5. runqueue' \in Seq(Threads) /\ struct' \in [Threads -> Struct] /\ joined' \subseteq Threads
    <3>1. CASE Looks(t)
      BY <2>3, <3>1 DEF Looks
    <3>2. CASE Queues(t)
      BY <2>3, <2>4, <3>2 DEF Queues
    <3>3. CASE Forgets(t)
      BY <2>3, <2>4, <3>3, ForgetFields DEF Forgets
    <3>4. CASE Detaches(t)
      BY <2>3, <2>4, <3>4, DetachedFacts DEF Detaches, DetachedFrom
    <3> QED BY <1>2, <3>1, <3>2, <3>3, <3>4, SearchOutcome
  <2> QED BY <2>1, <2>2, <2>5 DEF TablesInv
<1>4. ASSUME NEW t \in Threads, thread_exit(t)
      PROVE  TablesInv'
  <2>1. /\ struct' \in [Threads -> Struct] /\ curthread' = NULL
        /\ joinable' = Append(joinable, t) \/ joinable' = joinable
        /\ hasty' = hasty \/ hasty' = hasty \cup {t}
        /\ UNCHANGED <<runqueue, sleepers, t_sleepaddr, panicked, newguy, search, joined>>
    BY <1>4, ExitFields
  <2>2. joinable' \in Seq(Threads)
    <3>1. joinable \in Seq(Threads)
      BY DEF TablesInv
    <3>2. Append(joinable, t) \in Seq(Threads)
      BY <3>1
    <3> QED BY <2>1, <3>1, <3>2
  <2> QED BY <2>1, <2>2 DEF TablesInv
<1>5. ASSUME NEW t \in Threads, exit_resume(t)
      PROVE  TablesInv'
  BY <1>5, ResumeFields DEF TablesInv
<1> QED BY <1>0, <1>1, <1>2, <1>4, <1>5

-----------------------------------------------------------------------------
(* Children *)

\* Thread t may still fork, join, detach and exit.
Living(t) == stage[t] \in {"created", "new"} \/ Interruptible(t)

\* Thread c has not been joined, and is not past the last switch of thread_exit
\* unless it was hasty.
Awaited(c) ==
  /\ stage[c] \in {"new", "exited"} \/ Interruptible(c) \/ c \in hasty
  /\ c \notin joined

\* Thread c is the child that a thread_join of t has made runnable.
JoinOf(t, c) == stage[t] = "joining" /\ c = Child(t)

Kids(t) == Range(struct[t].children)

\* Each child of a living thread is awaited, or the one that it joins, and is
\* nobody else's child.
ChildrenInv ==
  /\ \A t \in Threads : Living(t) =>
       \A c \in Kids(t) : /\ struct[c].is_detached = 0
                          /\ JoinOf(t, c) \/ (Awaited(c) /\ struct[c].has_exited = 0)
  /\ \A t \in Threads : Living(t) => IsInjective(struct[t].children)
  /\ \A t, u \in Threads : Living(t) /\ Living(u) /\ t # u => Kids(t) \cap Kids(u) = {}
  /\ \A t \in Threads : stage[t] \in {"created", "new"} => struct[t].children = <<>>

\* The thread that a thread_fork has made runnable is awaited and nobody's
\* child until thread_fork enters it, and nobody else's fork.
ForkInv ==
  /\ \A t \in Threads : stage[t] = "forking" =>
       /\ newguy[t] \in Threads /\ Awaited(newguy[t])
       /\ \A u \in Threads : Living(u) => newguy[t] \notin Kids(u)
  /\ \A t, u \in Threads :
       /\ stage[t] \in {"creating", "forking"} /\ stage[u] \in {"creating", "forking"}
       /\ newguy[t] = newguy[u]
       => t = u

\* Who is joined has started, and nobody detaches it any more.
JoinedInv ==
  /\ \A c \in Threads : stage[c] \in {"unborn", "created"} => c \notin joined
  /\ \A c \in joined : struct[c].is_detached = 0

\* Who was hasty is dead.
HastyInv == \A c \in hasty : stage[c] \in {"zombie", "freed"}

FamilyInv == ChildrenInv /\ ForkInv /\ JoinedInv /\ HastyInv

LEMMA FamilyInit == Init => FamilyInv
<1> SUFFICES ASSUME Init PROVE FamilyInv
  OBVIOUS
<1>1. \A t \in Threads : struct[t].children = <<>>
  <2>1. PICK s \in FreshStruct :
          struct = [t \in Threads |-> [s EXCEPT !.t_pid = 1, !.parent = 0]]
    BY DEF Init
  <2>2. s \in Struct /\ s.children = <<>>
    BY FreshIsStruct
  <2>3. [s EXCEPT !.t_pid = 1, !.parent = 0].children = s.children
    BY <2>2 DEF Struct
  <2> QED BY <2>1, <2>2, <2>3
<1>2. \A t \in Threads : Kids(t) = {} /\ IsInjective(struct[t].children)
  BY <1>1 DEF Kids, Range, IsInjective
<1>3. joined = {} /\ hasty = {} /\ \A t \in Threads : stage[t] \in {"active", "unborn"}
  BY DEF Init
<1> QED BY <1>1, <1>2, <1>3 DEF FamilyInv, ChildrenInv, ForkInv, JoinedInv, HastyInv

LEMMA KidsAreThreads ==
  ASSUME TablesInv, NEW t \in Threads
  PROVE  struct[t].children \in Seq(Threads) /\ Kids(t) \subseteq Threads
<1>1. struct[t].children \in Seq(Threads)
  BY DEF TablesInv, Struct
<1> QED BY <1>1 DEF Kids, Range

\* Only stages change, and those as they leave Living and Awaited alone.
LEMMA FamilyStages ==
  ASSUME FamilyInv, TablesInv, UNCHANGED <<struct, joined, newguy, hasty>>,
         \A t \in Threads :
            /\ stage[t] = "joining" => search'[t] = search[t]
            /\ \/ stage'[t] = stage[t]
               \/ stage[t] = "new" /\ stage'[t] = "active"
               \/ stage[t] = "zombie" /\ stage'[t] = "freed"
               \/ {stage[t], stage'[t]} \subseteq Inner \ {"joining"}
  PROVE  FamilyInv'
<1>1. \A t \in Threads : /\ Living(t)' <=> Living(t)
                         /\ Awaited(t) => Awaited(t)'
                         /\ Kids(t)' = Kids(t)
  BY DEF Living, Awaited, Interruptible, Kids, Inner
<1>2. \A t \in Threads :
        stage'[t] \in {"creating", "forking", "unborn", "created", "new"} => stage'[t] = stage[t]
  BY DEF Inner
<1>3. ASSUME NEW t \in Threads, NEW c, JoinOf(t, c) PROVE JoinOf(t, c)'
  BY <1>3 DEF JoinOf, Child, Inner
<1>4. \A t \in Threads : Kids(t) \subseteq Threads
  BY KidsAreThreads
<1>5. ChildrenInv'
  <2>1. ASSUME NEW t \in Threads, Living(t)', NEW c \in Kids(t)'
        PROVE  /\ struct'[c].is_detached = 0
               /\ JoinOf(t, c)' \/ (Awaited(c)' /\ struct'[c].has_exited = 0)
    BY <1>1, <1>3, <1>4, <2>1 DEF FamilyInv, ChildrenInv
  <2> QED BY <1>1, <1>2, <2>1 DEF FamilyInv, ChildrenInv
<1>6. ForkInv'
  BY <1>1, <1>2 DEF FamilyInv, ForkInv
<1>7. JoinedInv' /\ HastyInv'
  <2>1. joined \subseteq Threads /\ hasty \subseteq Threads
    BY DEF TablesInv
  <2> QED BY <1>2, <2>1 DEF FamilyInv, JoinedInv, HastyInv, Inner
<1> QED BY <1>5, <1>6, <1>7 DEF FamilyInv

LEMMA FamilySwitch ==
  ASSUME FamilyInv, TablesInv, StagesInv, switch_to, ~Fault
  PROVE  FamilyInv'
<1>1. UNCHANGED <<struct, joined, newguy, hasty, search>>
  BY DEF switch_to, history
<1>2. ASSUME NEW t \in Threads, stage'[t] # stage[t]
      PROVE  \/ stage[t] = "new" /\ stage'[t] = "active"
             \/ stage[t] = "zombie" /\ stage'[t] = "freed"
  BY <1>2 DEF switch_to, StagesInv, Enter
<1> QED BY <1>1, <1>2, FamilyStages

\* A child of a living thread is not newly made.
LEMMA KidsKnown ==
  ASSUME FamilyInv, SearchInv, NEW t \in Threads, Living(t), NEW c \in Kids(t), c \in Threads
  PROVE  /\ Awaited(c) \/ c \in joined
         /\ stage[c] \notin {"unborn", "created"}
<1>1. Awaited(c) \/ c \in joined
  BY DEF FamilyInv, ChildrenInv, JoinOf, SearchInv
<1> QED BY <1>1 DEF FamilyInv, JoinedInv, HastyInv, Awaited, Interruptible

LEMMA FamilyFork ==
  ASSUME FamilyInv, TablesInv, StagesInv, SearchInv,
         NEW t \in Threads, NEW n \in Threads, thread_fork(t, n)
  PROVE  FamilyInv'
<1>1. PICK s \in FreshStruct : struct' = [struct EXCEPT ![n] = s]
  BY DEF thread_fork
<1>2. /\ stage[t] = "active" /\ stage[n] = "unborn" /\ t # n
      /\ stage' = [stage EXCEPT ![n] = "created", ![t] = "creating"]
      /\ newguy' = [newguy EXCEPT ![t] = n]
      /\ UNCHANGED <<search, joined, hasty>>
  BY DEF thread_fork, OnCpu, history
<1>3. s.children = <<>>
  BY FreshIsStruct
<1>4. \A u \in Threads : u # n => struct'[u] = struct[u]
  BY <1>1 DEF TablesInv
<1>5. struct'[n].children = <<>> /\ struct'[n] = s
  BY <1>1, <1>3 DEF TablesInv
<1>6. /\ \A u \in Threads : u # n => Kids(u)' = Kids(u) /\ struct'[u].children = struct[u].children
      /\ Kids(n)' = {} /\ IsInjective(struct'[n].children)
  BY <1>4, <1>5 DEF Kids, Range, IsInjective
<1>7. /\ stage' \in [Threads -> Stages]
      /\ stage'[n] = "created" /\ stage'[t] = "creating"
      /\ \A u \in Threads : u # n /\ u # t => stage'[u] = stage[u]
  BY <1>2 DEF StagesInv, Stages
<1>8. \A u \in Threads : u # n =>
        /\ Living(u)' <=> Living(u)
        /\ Awaited(u) => Awaited(u)'
  BY <1>2, <1>4, <1>7 DEF Living, Awaited, Interruptible
<1>9. \A u \in Threads : Awaited(u) => u # n
  BY <1>2 DEF FamilyInv, HastyInv, Awaited, Interruptible
<1>10. /\ \A u \in Threads : Kids(u) \subseteq Threads
       /\ \A u \in Threads : Living(u) => n \notin Kids(u)
  BY <1>2, KidsAreThreads, KidsKnown
<1>11. ChildrenInv'
  <2>1. ASSUME NEW u \in Threads, Living(u)', NEW c \in Kids(u)'
        PROVE  /\ struct'[c].is_detached = 0
               /\ JoinOf(u, c)' \/ (Awaited(c)' /\ struct'[c].has_exited = 0)
    <3>1. u # n /\ Living(u) /\ c \in Kids(u) /\ c \in Threads /\ c # n
      BY <1>6, <1>8, <1>10, <2>1
    <3>2. /\ struct[c].is_detached = 0
          /\ JoinOf(u, c) \/ (Awaited(c) /\ struct[c].has_exited = 0)
      BY <3>1 DEF FamilyInv, ChildrenInv
    <3>3. JoinOf(u, c) => JoinOf(u, c)'
      BY <1>2, <1>4, <1>7, <3>1 DEF JoinOf, Child
    <3> QED BY <1>4, <1>8, <3>1, <3>2, <3>3
  <2>2. \A u \in Threads : Living(u)' => IsInjective(struct'[u].children)
    BY <1>6, <1>8 DEF FamilyInv, ChildrenInv
  <2>3. \A u, v \in Threads : Living(u)' /\ Living(v)' /\ u # v => Kids(u)' \cap Kids(v)' = {}
    BY <1>6, <1>8 DEF FamilyInv, ChildrenInv
  <2>4. \A u \in Threads : stage'[u] \in {"created", "new"} => struct'[u].children = <<>>
    BY <1>5, <1>6, <1>7 DEF FamilyInv, ChildrenInv
  <2> QED BY <2>1, <2>2, <2>3, <2>4 DEF ChildrenInv
<1>12. ForkInv'
  <2>1. /\ newguy'[t] = n
        /\ \A u \in Threads : u # t => newguy'[u] = newguy[u]
    BY <1>2 DEF StagesInv
  <2>2. ASSUME NEW u \in Threads, stage[u] \in {"creating", "forking"}
        PROVE  newguy[u] \in Threads /\ newguy[u] # n
    BY <1>2, <1>9, <2>2 DEF FamilyInv, ForkInv, StagesInv
  <2>3. ASSUME NEW u \in Threads, stage'[u] = "forking"
        PROVE  /\ newguy'[u] \in Threads /\ Awaited(newguy[u])'
               /\ newguy'[u] = newguy[u]
               /\ \A v \in Threads : Living(v)' => newguy'[u] \notin Kids(v)'
    <3>1. stage[u] = "forking" /\ u # t /\ u # n /\ newguy'[u] = newguy[u]
      BY <1>7, <2>1, <2>3
    <3>2. /\ newguy[u] \in Threads /\ Awaited(newguy[u])
          /\ \A v \in Threads : Living(v) => newguy[u] \notin Kids(v)
      BY <3>1 DEF FamilyInv, ForkInv
    <3>3. Awaited(newguy[u])'
      <4> DEFINE c == newguy[u]
      <4>1. c \in Threads /\ c # n /\ Awaited(c)
        BY <1>9, <3>2
      <4>2. newguy'[u] = c
        BY <3>1
      <4>3. Awaited(c)'
        BY <1>8, <4>1, <4>2 DEF Awaited, Interruptible
      <4> QED BY <4>2, <4>3 DEF Awaited, Interruptible
    <3> QED BY <1>6, <1>8, <3>1, <3>2, <3>3
  <2>4. \A u, v \in Threads :
          /\ stage'[u] \in {"creating", "forking"} /\ stage'[v] \in {"creating", "forking"}
          /\ newguy'[u] = newguy'[v]
          => u = v
    BY <1>7, <2>1, <2>2 DEF FamilyInv, ForkInv
  <2> QED BY <2>3, <2>4 DEF ForkInv
<1>13. JoinedInv' /\ HastyInv'
  <2>1. n \notin joined
    BY <1>2 DEF FamilyInv, JoinedInv
  <2>2. joined \subseteq Threads /\ hasty \subseteq Threads
    BY DEF TablesInv
  <2> QED BY <1>2, <1>4, <1>7, <2>1, <2>2 DEF FamilyInv, JoinedInv, HastyInv
<1> QED BY <1>11, <1>12, <1>13 DEF FamilyInv

LEMMA FamilyEnqueue ==
  ASSUME FamilyInv, TablesInv, StagesInv, SearchInv,
         NEW t \in Threads, fork_enqueue(t)
  PROVE  FamilyInv'
<1> DEFINE n == newguy[t]
<1>1. /\ stage[t] = "creating"
      /\ stage' = [stage EXCEPT ![n] = "new", ![t] = "forking"]
      /\ UNCHANGED <<struct, newguy, search, joined, hasty>>
  BY DEF fork_enqueue, OnCpu, history
<1>2. n \in Threads /\ stage[n] = "created" /\ n # t
  BY <1>1 DEF StagesInv
<1> HIDE DEF n
<1>3. /\ stage'[n] = "new" /\ stage'[t] = "forking"
      /\ \A u \in Threads : u # n /\ u # t => stage'[u] = stage[u]
  BY <1>1, <1>2 DEF StagesInv
<1>4. \A u \in Threads : /\ Living(u)' <=> Living(u)
                         /\ Awaited(u) => Awaited(u)'
                         /\ Kids(u)' = Kids(u)
  BY <1>1, <1>2, <1>3 DEF Living, Awaited, Interruptible, Kids
<1>5. \A u \in Threads : Kids(u) \subseteq Threads
  BY KidsAreThreads
<1>6. ChildrenInv'
  <2>1. ASSUME NEW u \in Threads, Living(u)', NEW c \in Kids(u)'
        PROVE  /\ struct'[c].is_detached = 0
               /\ JoinOf(u, c)' \/ (Awaited(c)' /\ struct'[c].has_exited = 0)
    <3>1. Living(u) /\ c \in Kids(u) /\ c \in Threads
      BY <1>4, <1>5, <2>1
    <3>2. JoinOf(u, c) => JoinOf(u, c)'
      BY <1>1, <1>2, <1>3 DEF JoinOf, Child
    <3> QED BY <1>1, <1>4, <3>1, <3>2 DEF FamilyInv, ChildrenInv
  <2> QED BY <1>1, <1>2, <1>3, <1>4, <2>1 DEF FamilyInv, ChildrenInv
<1>7. Awaited(n)' /\ \A u \in Threads : Living(u) => n \notin Kids(u)
  <2>1. n \notin joined
    BY <1>2 DEF FamilyInv, JoinedInv
  <2>3. Awaited(n)'
    <3>1. n' = n
      BY <1>1 DEF n
    <3> QED BY <1>1, <1>3, <2>1, <3>1 DEF Awaited
  <2> QED BY <1>2, <2>3, KidsKnown
<1>8. ForkInv'
  <2>1. ASSUME NEW u \in Threads, stage'[u] = "forking"
        PROVE  /\ newguy[u] \in Threads /\ Awaited(newguy[u])'
               /\ \A v \in Threads : Living(v)' => newguy[u] \notin Kids(v)'
    <3>1. CASE u = t
      BY <1>1, <1>2, <1>4, <1>7, <3>1 DEF n
    <3>2. CASE u # t
      <4>1. stage[u] = "forking"
        BY <1>3, <2>1, <3>2
      <4>2. /\ newguy[u] \in Threads /\ Awaited(newguy[u])
            /\ \A v \in Threads : Living(v) => newguy[u] \notin Kids(v)
        BY <4>1 DEF FamilyInv, ForkInv
      <4> QED BY <1>1, <1>4, <4>2
    <3> QED BY <3>1, <3>2
  <2>2. \A u \in Threads : stage'[u] \in {"creating", "forking"} => stage[u] \in {"creating", "forking"}
    BY <1>1, <1>2, <1>3
  <2>3. \A u, v \in Threads :
          /\ stage'[u] \in {"creating", "forking"} /\ stage'[v] \in {"creating", "forking"}
          /\ newguy[u] = newguy[v]
          => u = v
    BY <2>2 DEF FamilyInv, ForkInv
  <2> QED BY <1>1, <2>1, <2>3 DEF ForkInv
<1>9. JoinedInv' /\ HastyInv'
  <2>1. hasty \subseteq Threads
    BY DEF TablesInv
  <2> QED BY <1>1, <1>2, <1>3, <2>1 DEF FamilyInv, JoinedInv, HastyInv
<1> QED BY <1>6, <1>8, <1>9 DEF FamilyInv

LEMMA FamilyFail ==
  ASSUME FamilyInv, TablesInv, StagesInv, NEW t \in Threads, fork_fail(t)
  PROVE  FamilyInv'
<1> DEFINE n == newguy[t]
<1>1. /\ stage[t] = "creating"
      /\ stage' = [stage EXCEPT ![n] = "freed", ![t] = "active"]
      /\ newguy' = [newguy EXCEPT ![t] = NULL]
      /\ UNCHANGED <<struct, search, joined, hasty>>
  BY DEF fork_fail, OnCpu, history
<1>2. n \in Threads /\ stage[n] = "created" /\ n # t
  BY <1>1 DEF StagesInv
<1> HIDE DEF n
<1>3. /\ stage'[n] = "freed" /\ stage'[t] = "active"
      /\ \A u \in Threads : u # n /\ u # t => stage'[u] = stage[u]
  BY <1>1, <1>2 DEF StagesInv
<1>4. \A u \in Threads : /\ Living(u)' => Living(u)
                         /\ Awaited(u) => Awaited(u)'
                         /\ Kids(u)' = Kids(u)
  BY <1>1, <1>2, <1>3 DEF Living, Awaited, Interruptible, Kids
<1>5. \A u \in Threads : Kids(u) \subseteq Threads
  BY KidsAreThreads
<1>6. ChildrenInv'
  <2>1. ASSUME NEW u \in Threads, Living(u)', NEW c \in Kids(u)'
        PROVE  /\ struct'[c].is_detached = 0
               /\ JoinOf(u, c)' \/ (Awaited(c)' /\ struct'[c].has_exited = 0)
    <3>1. Living(u) /\ c \in Kids(u) /\ c \in Threads
      BY <1>4, <1>5, <2>1
    <3>2. JoinOf(u, c) => JoinOf(u, c)'
      BY <1>1, <1>2, <1>3 DEF JoinOf, Child
    <3> QED BY <1>1, <1>4, <3>1, <3>2 DEF FamilyInv, ChildrenInv
  <2> QED BY <1>1, <1>2, <1>3, <1>4, <2>1 DEF FamilyInv, ChildrenInv
<1>7. ForkInv'
  <2>1. \A u \in Threads : stage'[u] \in {"creating", "forking"} =>
          stage[u] = stage'[u] /\ newguy'[u] = newguy[u]
    BY <1>1, <1>2, <1>3 DEF StagesInv
  <2>2. ASSUME NEW u \in Threads, stage'[u] = "forking"
        PROVE  /\ newguy'[u] \in Threads /\ Awaited(newguy[u])' /\ newguy'[u] = newguy[u]
               /\ \A v \in Threads : Living(v)' => newguy'[u] \notin Kids(v)'
    <3>1. stage[u] = "forking" /\ newguy'[u] = newguy[u]
      BY <2>1, <2>2
    <3>2. /\ newguy[u] \in Threads /\ Awaited(newguy[u])
          /\ \A v \in Threads : Living(v) => newguy[u] \notin Kids(v)
      BY <3>1 DEF FamilyInv, ForkInv
    <3>3. Awaited(newguy[u])'
      <4> DEFINE c == newguy[u]
      <4>1. c \in Threads /\ Awaited(c) /\ newguy'[u] = c
        BY <3>1, <3>2
      <4>2. Awaited(c)'
        BY <1>4, <4>1
      <4> QED BY <4>1, <4>2 DEF Awaited, Interruptible
    <3> QED BY <1>4, <3>1, <3>2, <3>3
  <2>3. \A u, v \in Threads :
          /\ stage'[u] \in {"creating", "forking"} /\ stage'[v] \in {"creating", "forking"}
          /\ newguy'[u] = newguy'[v]
          => u = v
    BY <2>1 DEF FamilyInv, ForkInv
  <2> QED BY <2>2, <2>3 DEF ForkInv
<1>8. JoinedInv' /\ HastyInv'
  <2>1. hasty \subseteq Threads
    BY DEF TablesInv
  <2> QED BY <1>1, <1>2, <1>3, <2>1 DEF FamilyInv, JoinedInv, HastyInv
<1> QED BY <1>6, <1>7, <1>8 DEF FamilyInv

LEMMA FamilyReturn ==
  ASSUME FamilyInv, TablesInv, StagesInv,
         NEW t \in Threads, NEW w \in BOOLEAN, fork_return(t, w), ~Fault
  PROVE  FamilyInv' /\ newguy[t] \in Threads
<1> DEFINE n == newguy[t]
           k == struct[t].children
<1>1. /\ stage[t] = "forking" /\ stage' = [stage EXCEPT ![t] = "active"]
      /\ newguy' = [newguy EXCEPT ![t] = NULL]
      /\ UNCHANGED <<search, joined, hasty>>
  BY DEF fork_return, OnCpu, history
<1>2. /\ n \in Threads /\ Awaited(n)
      /\ \A u \in Threads : Living(u) => n \notin Kids(u)
  BY <1>1 DEF FamilyInv, ForkInv
<1>3. \A u \in Threads :
        /\ struct'[u].is_detached = IF u = n THEN 0 ELSE struct[u].is_detached
        /\ struct'[u].has_exited = IF u = n THEN 0 ELSE struct[u].has_exited
        /\ struct'[u].children = IF u = t /\ w THEN Append(k, n) ELSE struct[u].children
  BY <1>2, ForkReturnFields
<1> HIDE DEF n, k
<1>4. Living(t) /\ k = struct[t].children /\ k \in Seq(Threads)
  BY <1>1, KidsAreThreads DEF Living, Interruptible, k
<1>5. /\ stage'[t] = "active"
      /\ \A u \in Threads : u # t => stage'[u] = stage[u]
  BY <1>1 DEF StagesInv
<1>6. \A u \in Threads : /\ Living(u)' <=> Living(u)
                         /\ Awaited(u) => Awaited(u)'
                         /\ u # t => Kids(u)' = Kids(u)
  BY <1>1, <1>3, <1>5 DEF Living, Awaited, Interruptible, Kids
<1>7. /\ Kids(t)' \subseteq Kids(t) \cup {n}
      /\ IsInjective(struct'[t].children)
  <2>1. Range(Append(k, n)) = Range(k) \cup {n}
        /\ (IsInjective(k) /\ n \notin Range(k) => IsInjective(Append(k, n)))
    BY <1>2, <1>4, AppendFacts
  <2>2. IsInjective(k) /\ n \notin Range(k)
    BY <1>2, <1>4 DEF FamilyInv, ChildrenInv, Kids
  <2> QED BY <1>3, <1>4, <2>1, <2>2 DEF Kids
<1>8. \A u \in Threads : Kids(u) \subseteq Threads
  BY KidsAreThreads
<1>9. ChildrenInv'
  <2>1. ASSUME NEW u \in Threads, Living(u)', NEW c \in Kids(u)'
        PROVE  /\ struct'[c].is_detached = 0
               /\ JoinOf(u, c)' \/ (Awaited(c)' /\ struct'[c].has_exited = 0)
    <3>1. CASE c = n
      BY <1>2, <1>3, <1>6, <3>1
    <3>2. CASE c # n
      <4>1. Living(u) /\ c \in Kids(u) /\ c \in Threads
        BY <1>6, <1>7, <1>8, <2>1, <3>2
      <4>2. /\ struct[c].is_detached = 0
            /\ JoinOf(u, c) \/ (Awaited(c) /\ struct[c].has_exited = 0)
        BY <4>1 DEF FamilyInv, ChildrenInv
      <4>3. JoinOf(u, c) => JoinOf(u, c)'
        BY <1>1, <1>3, <1>5 DEF JoinOf, Child
      <4> QED BY <1>3, <1>6, <3>2, <4>1, <4>2, <4>3
    <3> QED BY <3>1, <3>2
  <2>2. \A u \in Threads : Living(u)' => IsInjective(struct'[u].children)
    BY <1>3, <1>6, <1>7 DEF FamilyInv, ChildrenInv
  <2>3. \A u, v \in Threads : Living(u)' /\ Living(v)' /\ u # v => Kids(u)' \cap Kids(v)' = {}
    <3> SUFFICES ASSUME NEW u \in Threads, NEW v \in Threads, Living(u)', Living(v)', u # v
                 PROVE  Kids(u)' \cap Kids(v)' = {}
      OBVIOUS
    <3>1. Living(u) /\ Living(v) /\ Kids(u) \cap Kids(v) = {} /\ n \notin Kids(u) /\ n \notin Kids(v)
      BY <1>2, <1>6 DEF FamilyInv, ChildrenInv
    <3> QED BY <1>6, <1>7, <3>1
  <2>4. \A u \in Threads : stage'[u] \in {"created", "new"} => struct'[u].children = <<>>
    BY <1>3, <1>5 DEF FamilyInv, ChildrenInv
  <2> QED BY <2>1, <2>2, <2>3, <2>4 DEF ChildrenInv
<1>10. ForkInv'
  <2>1. \A u \in Threads : stage'[u] \in {"creating", "forking"} =>
          u # t /\ stage[u] = stage'[u] /\ newguy'[u] = newguy[u]
    BY <1>1, <1>5 DEF StagesInv
  <2>2. ASSUME NEW u \in Threads, stage'[u] = "forking"
        PROVE  /\ newguy'[u] \in Threads /\ Awaited(newguy[u])' /\ newguy'[u] = newguy[u]
               /\ \A v \in Threads : Living(v)' => newguy'[u] \notin Kids(v)'
    <3> DEFINE c == newguy[u]
    <3>1. u # t /\ stage[u] = "forking" /\ newguy'[u] = c
      BY <2>1, <2>2
    <3>2. /\ c \in Threads /\ Awaited(c) /\ c # n
          /\ \A v \in Threads : Living(v) => c \notin Kids(v)
      BY <1>1, <3>1 DEF FamilyInv, ForkInv, n
    <3>3. \A v \in Threads : Living(v)' => c \notin Kids(v)'
      BY <1>6, <1>7, <3>2
    <3>4. Awaited(c)'
      BY <1>6, <3>1, <3>2 DEF Awaited, Interruptible
    <3>5. Awaited(newguy[u])'
      BY <3>1, <3>4 DEF Awaited, Interruptible
    <3> QED BY <3>1, <3>2, <3>3, <3>5
  <2>3. \A u, v \in Threads :
          /\ stage'[u] \in {"creating", "forking"} /\ stage'[v] \in {"creating", "forking"}
          /\ newguy'[u] = newguy'[v]
          => u = v
    BY <2>1 DEF FamilyInv, ForkInv
  <2> QED BY <2>2, <2>3 DEF ForkInv
<1>11. JoinedInv' /\ HastyInv'
  <2>1. joined \subseteq Threads /\ hasty \subseteq Threads
    BY DEF TablesInv
  <2> QED BY <1>1, <1>3, <1>5, <2>1 DEF FamilyInv, JoinedInv, HastyInv
<1> QED BY <1>2, <1>9, <1>10, <1>11 DEF FamilyInv, n

\* Thread t gives up its child c, which was joined or is detached.
LEMMA FamilyDrop ==
  ASSUME FamilyInv, TablesInv, TablesInv', StagesInv, SearchInv,
         NEW t \in Threads, NEW c \in Kids(t),
         stage[t] \in {"found", "joining"}, stage' = [stage EXCEPT ![t] = "active"],
         UNCHANGED <<newguy, joined, hasty>>,
         Kids(t)' \subseteq Kids(t) \ {c}, IsInjective(struct'[t].children),
         stage[t] = "joining" => c = Child(t),
         \A u \in Threads :
           /\ struct'[u].has_exited = struct[u].has_exited
           /\ u # t => struct'[u].children = struct[u].children
           /\ struct'[u].is_detached = struct[u].is_detached \/ (u = c /\ Awaited(c)),
         \A u \in Threads : u # t => search'[u] = search[u]
  PROVE  FamilyInv'
<1>1. Living(t) /\ c \in Threads
  BY KidsAreThreads DEF Living, Interruptible
<1>2. /\ stage'[t] = "active"
      /\ \A u \in Threads : u # t => stage'[u] = stage[u]
  BY DEF StagesInv
<1>3. \A u \in Threads : /\ Living(u)' <=> Living(u)
                         /\ Awaited(u) => Awaited(u)'
                         /\ u # t => Kids(u)' = Kids(u)
  BY <1>2 DEF Living, Awaited, Interruptible, Kids
<1>4. \A u \in Threads : Kids(u) \subseteq Threads
  BY KidsAreThreads
<1>5. \A u \in Threads : Living(u) => c \notin Kids(u)' /\ Kids(u)' \subseteq Kids(u)
  BY <1>1, <1>3 DEF FamilyInv, ChildrenInv
<1>6. ChildrenInv'
  <2>1. ASSUME NEW u \in Threads, Living(u)', NEW x \in Kids(u)'
        PROVE  /\ struct'[x].is_detached = 0
               /\ JoinOf(u, x)' \/ (Awaited(x)' /\ struct'[x].has_exited = 0)
    <3>1. Living(u) /\ x \in Kids(u) /\ x \in Threads /\ x # c
      BY <1>3, <1>4, <1>5, <2>1
    <3>2. /\ struct[x].is_detached = 0
          /\ JoinOf(u, x) \/ (Awaited(x) /\ struct[x].has_exited = 0)
      BY <3>1 DEF FamilyInv, ChildrenInv
    <3>3. JoinOf(u, x) => JoinOf(u, x)'
      BY <1>2, <3>1 DEF JoinOf, Child
    <3> QED BY <1>3, <3>1, <3>2, <3>3
  <2>2. \A u \in Threads : Living(u)' => IsInjective(struct'[u].children)
    BY <1>3 DEF FamilyInv, ChildrenInv
  <2>3. \A u, v \in Threads : Living(u)' /\ Living(v)' /\ u # v => Kids(u)' \cap Kids(v)' = {}
    BY <1>3, <1>5 DEF FamilyInv, ChildrenInv
  <2>4. \A u \in Threads : stage'[u] \in {"created", "new"} => struct'[u].children = <<>>
    BY <1>2 DEF FamilyInv, ChildrenInv
  <2> QED BY <2>1, <2>2, <2>3, <2>4 DEF ChildrenInv
<1>7. ForkInv'
  <2>1. \A u \in Threads : stage'[u] \in {"creating", "forking"} => stage[u] = stage'[u]
    BY <1>2
  <2>2. ASSUME NEW u \in Threads, stage[u] = "forking"
        PROVE  /\ newguy[u] \in Threads /\ Awaited(newguy[u])'
               /\ \A v \in Threads : Living(v)' => newguy[u] \notin Kids(v)'
    <3>1. /\ newguy[u] \in Threads /\ Awaited(newguy[u])
          /\ \A v \in Threads : Living(v) => newguy[u] \notin Kids(v)
      BY <2>2 DEF FamilyInv, ForkInv
    <3>2. Awaited(newguy[u])'
      BY <1>3, <3>1 DEF Awaited, Interruptible
    <3> QED BY <1>3, <1>5, <3>1, <3>2
  <2> QED BY <2>1, <2>2 DEF FamilyInv, ForkInv
<1>8. JoinedInv' /\ HastyInv'
  <2>1. joined \subseteq Threads /\ hasty \subseteq Threads
    BY DEF TablesInv
  <2>2. Awaited(c) => c \notin joined
    BY DEF Awaited
  <2>3. \A u \in joined : struct'[u].is_detached = struct[u].is_detached
    BY <2>1, <2>2
  <2> QED BY <1>2, <2>1, <2>3 DEF FamilyInv, JoinedInv, HastyInv
<1> QED BY <1>6, <1>7, <1>8 DEF FamilyInv

\* A thread_join of t makes its child runnable.
LEMMA FamilyQueues ==
  ASSUME FamilyInv, TablesInv, StagesInv, SearchInv, NEW t \in Threads, Moves(t), Queues(t)
  PROVE  /\ FamilyInv'
         /\ Child(t) \in Threads /\ Awaited(Child(t)) /\ struct[Child(t)].has_exited = 0
<1> DEFINE c == Child(t)
<1>1. /\ stage[t] = "found" /\ joined' = joined \cup {c}
      /\ UNCHANGED <<struct, search, newguy, hasty>>
  BY DEF Queues, Moves
<1>2. /\ stage'[t] = "joining"
      /\ \A u \in Threads : u # t => stage'[u] = stage[u]
  BY DEF Queues, Moves, StagesInv
<1>3. c \in Kids(t) /\ c \in Threads /\ Living(t)
  <2>1. struct[t].children \in Seq(Threads) /\ search[t].j \in DOMAIN struct[t].children
    BY <1>1, KidsAreThreads DEF SearchInv, Searching
  <2> QED BY <1>1, <2>1 DEF Child, Kids, Range, Living, Interruptible
<1>4. Awaited(c) /\ struct[c].is_detached = 0 /\ struct[c].has_exited = 0
  BY <1>1, <1>3 DEF FamilyInv, ChildrenInv, JoinOf
<1>5. JoinOf(t, c)'
  BY <1>1, <1>2 DEF JoinOf, Child
<1>6. \A u \in Threads : stage[u] # "joining" => u = t \/ stage'[u] # "joining"
  BY <1>2
<1>7. \A u \in Threads : /\ Living(u)' <=> Living(u)
                         /\ Kids(u)' = Kids(u)
                         /\ Kids(u) \subseteq Threads
  BY <1>1, <1>2, KidsAreThreads DEF Living, Interruptible, Kids
<1> DEFINE Others == \A u \in Threads : u # c /\ Awaited(u) => Awaited(u)'
<1>8. Others
  BY <1>1, <1>2 DEF Awaited, Interruptible
<1>9. \A u \in Threads : u # t /\ Living(u) => c \notin Kids(u)
  BY <1>3 DEF FamilyInv, ChildrenInv
<1>10. PICK k \in Threads : k = c
  BY <1>3
<1> HIDE DEF c, Others
<1>11. ChildrenInv'
  <2>1. ASSUME NEW u \in Threads, Living(u)', NEW x \in Kids(u)'
        PROVE  /\ struct'[x].is_detached = 0
               /\ JoinOf(u, x)' \/ (Awaited(x)' /\ struct'[x].has_exited = 0)
    <3>1. Living(u) /\ x \in Kids(u) /\ x \in Threads
      BY <1>7, <2>1
    <3>2. /\ struct[x].is_detached = 0
          /\ JoinOf(u, x) \/ (Awaited(x) /\ struct[x].has_exited = 0)
      BY <3>1 DEF FamilyInv, ChildrenInv
    <3>3. CASE u = t
      <4>1. CASE x = c
        BY <1>1, <1>2, <3>2, <3>3, <4>1 DEF JoinOf, Child, c
      <4>2. CASE x # c
        BY <1>1, <1>8, <3>1, <3>2, <3>3, <4>2 DEF JoinOf, Others
      <4> QED BY <4>1, <4>2
    <3>4. CASE u # t
      <4>1. JoinOf(u, x) => JoinOf(u, x)'
        BY <1>1, <1>2, <3>1, <3>4 DEF JoinOf, Child
      <4>2. x # c
        BY <1>9, <3>1, <3>4
      <4> QED BY <1>1, <1>8, <3>1, <3>2, <4>1, <4>2 DEF Others
    <3> QED BY <3>3, <3>4
  <2> QED BY <1>1, <1>2, <1>7, <2>1 DEF FamilyInv, ChildrenInv
<1>12. ForkInv'
  <2>1. \A u \in Threads : stage'[u] \in {"creating", "forking"} => stage[u] = stage'[u]
    BY <1>2
  <2>2. ASSUME NEW u \in Threads, stage[u] = "forking"
        PROVE  /\ newguy[u] \in Threads /\ Awaited(newguy[u])'
               /\ \A v \in Threads : Living(v)' => newguy[u] \notin Kids(v)'
    <3>1. /\ newguy[u] \in Threads /\ Awaited(newguy[u]) /\ newguy[u] # c
          /\ \A v \in Threads : Living(v) => newguy[u] \notin Kids(v)
      BY <1>3, <2>2 DEF FamilyInv, ForkInv
    <3>2. Awaited(newguy[u])'
      BY <1>1, <1>8, <3>1 DEF Awaited, Interruptible, Others
    <3> QED BY <1>7, <3>1, <3>2
  <2> QED BY <1>1, <2>1, <2>2 DEF FamilyInv, ForkInv
<1>13. JoinedInv' /\ HastyInv'
  <2>1. joined \subseteq Threads /\ hasty \subseteq Threads
    BY DEF TablesInv
  <2>2. stage[c] \notin {"unborn", "created"}
    BY <1>3, KidsKnown
  <2> QED BY <1>1, <1>2, <1>3, <1>4, <2>1, <2>2 DEF FamilyInv, JoinedInv, HastyInv
<1> QED BY <1>3, <1>4, <1>11, <1>12, <1>13 DEF FamilyInv, c

LEMMA FamilySearch ==
  ASSUME FamilyInv, TablesInv, TablesInv', StagesInv, SearchInv,
         NEW t \in Threads, SearchStep(t), ~Fault
  PROVE  FamilyInv'
<1> DEFINE k == struct[t].children
           j == search[t].j
           c == k[j]
<1>1. Moves(t) /\ UNCHANGED <<newguy, hasty>>
  BY SearchMoves DEF Moves
<1>2. /\ \A u \in Threads : u # t => search'[u] = search[u]
      /\ \A u \in Threads : u # t => stage'[u] = stage[u]
  BY <1>1, SearchRecord DEF Moves, StagesInv
<1>3. stage[t] \in {"found", "joining"} =>
        /\ j \in DOMAIN k /\ k \in Seq(Threads) /\ IsInjective(k)
        /\ c \in Kids(t) /\ c \in Threads /\ c = Child(t)
        /\ Range(array_remove(k, j)) \subseteq Kids(t) \ {c}
        /\ IsInjective(array_remove(k, j))
  <2> SUFFICES ASSUME stage[t] \in {"found", "joining"}
               PROVE  /\ j \in DOMAIN k /\ k \in Seq(Threads) /\ IsInjective(k)
                      /\ c \in Kids(t) /\ c \in Threads /\ c = Child(t)
                      /\ Range(array_remove(k, j)) \subseteq Kids(t) \ {c}
                      /\ IsInjective(array_remove(k, j))
    OBVIOUS
  <2>1. j \in DOMAIN k /\ k \in Seq(Threads)
    BY KidsAreThreads DEF SearchInv, Searching
  <2>2. IsInjective(k)
    BY DEF FamilyInv, ChildrenInv, Living, Interruptible
  <2>3. c \in Kids(t) /\ c \in Threads /\ c = Child(t)
    BY <2>1 DEF Kids, Range, Child
  <2> HIDE DEF j, k, c
  <2>4. /\ Range(array_remove(k, j)) \subseteq Range(k)
        /\ IsInjective(array_remove(k, j)) /\ k[j] \notin Range(array_remove(k, j))
    BY <2>1, <2>2, ArrayRemoveFacts
  <2> QED BY <2>1, <2>2, <2>3, <2>4 DEF Kids, c, k
<1>4. stage'[t] = "active" => stage' = [stage EXCEPT ![t] = "active"]
  BY <1>1 DEF Moves, StagesInv, Inner
<1>5. CASE Looks(t)
  <2>1. UNCHANGED <<struct, joined>> /\ stage[t] # "joining" /\ stage'[t] # "joining"
    BY <1>5 DEF Looks
  <2>2. {stage[t], stage'[t]} \subseteq Inner \ {"joining"}
    BY <1>1, <2>1 DEF Moves, StagesInv, Inner
  <2> QED BY <1>1, <1>2, <2>1, <2>2, FamilyStages
<1>6. CASE Queues(t)
  BY <1>1, <1>6, FamilyQueues
<1>7. CASE Forgets(t)
  <2>1. /\ stage[t] = "joining" /\ stage'[t] = "active" /\ joined' = joined
        /\ struct' = [struct EXCEPT ![t].children = array_remove(@, j)]
    BY <1>7 DEF Forgets
  <2>2. \A u \in Threads :
          /\ struct'[u].is_detached = struct[u].is_detached
          /\ struct'[u].has_exited = struct[u].has_exited
          /\ struct'[u].children = IF u = t THEN array_remove(k, j) ELSE struct[u].children
    BY <1>3, <2>1, ForgetFields
  <2>3. Kids(t)' \subseteq Kids(t) \ {c} /\ IsInjective(struct'[t].children)
    BY <1>3, <2>1, <2>2 DEF Kids
  <2> HIDE DEF j, k, c
  <2> QED BY <1>1, <1>2, <1>3, <1>4, <2>1, <2>2, <2>3, FamilyDrop
<1>8. CASE Detaches(t)
  <2>1. /\ stage[t] = "found" /\ stage'[t] = "active" /\ joined' = joined
        /\ struct' = Detached(struct, t, j)
    BY <1>8 DEF Detaches
  <2>2. Awaited(c) /\ struct[c].is_detached = 0
    BY <1>3, <2>1 DEF FamilyInv, ChildrenInv, JoinOf, Living, Interruptible
  <2>3. Detached(struct, t, j) # struct
    <3>1. struct[c].is_detached # 1
      BY <2>2
    <3>2. Detached(struct, t, j)
            = [struct EXCEPT ![t].children = array_remove(@, j), ![c].is_detached = 1]
      BY <3>1 DEF Detached
    <3>3. struct \in [Threads -> Struct] /\ c \in Threads
      BY <1>3, <2>1 DEF TablesInv
    <3> DEFINE s1 == [struct EXCEPT ![t].children = array_remove(@, j)]
               y == [s1[c] EXCEPT !.is_detached = 1]
    <3>4. s1 \in [Threads -> Struct]
      <4>1. array_remove(k, j) \in Seq(Threads)
        BY <1>3, <2>1, ArrayRemoveFacts
      <4>2. [struct[t] EXCEPT !.children = array_remove(k, j)] \in Struct
        BY <3>3, <4>1, ChildrenUpdate
      <4> QED BY <3>3, <4>2
    <3>5. y.is_detached = 1
      BY <3>3, <3>4, DetachedUpdate
    <3>6. Detached(struct, t, j) = [s1 EXCEPT ![c] = y]
      BY <3>2
    <3> HIDE DEF s1, y, c, j
    <3>7. Detached(struct, t, j)[c] = y
      BY <3>3, <3>4, <3>6
    <3> QED BY <3>1, <3>5, <3>7
  <2>4. \A u \in Threads :
          /\ struct'[u].has_exited = struct[u].has_exited
          /\ struct'[u].is_detached = IF u = c THEN 1 ELSE struct[u].is_detached
          /\ struct'[u].children = IF u = t THEN array_remove(k, j) ELSE struct[u].children
    BY <1>3, <2>1, <2>3, DetachedFields DEF TablesInv
  <2>5. Kids(t)' \subseteq Kids(t) \ {c} /\ IsInjective(struct'[t].children)
    BY <1>3, <2>1, <2>4 DEF Kids
  <2> HIDE DEF j, k, c
  <2> QED BY <1>1, <1>2, <1>3, <1>4, <2>1, <2>2, <2>4, <2>5, FamilyDrop
<1> QED BY <1>5, <1>6, <1>7, <1>8, SearchOutcome

\* Thread t leaves the living.  If it is then detached it was, or was its own
\* child, and nobody else awaits it but a thread_fork for which it was too hasty.
LEMMA FamilyLeave ==
  ASSUME FamilyInv, TablesInv, StagesInv, SearchInv, NEW t \in Threads,
         UNCHANGED <<newguy, search, joined>>,
         \A u \in Threads :
           /\ u # t => struct'[u].has_exited = struct[u].has_exited
           /\ u # t => struct'[u].children = struct[u].children
           /\ \/ struct'[u].is_detached = struct[u].is_detached
              \/ u \in Kids(t) /\ stage[t] = "active",
         \/ /\ stage[t] = "active" /\ stage' = [stage EXCEPT ![t] = "exited"]
            /\ struct'[t].has_exited = struct[t].has_exited /\ hasty' = hasty
         \/ /\ stage[t] = "active" /\ stage' = [stage EXCEPT ![t] = "zombie"]
            /\ struct'[t].is_detached # 0
            /\ hasty' = IF t \in Range(newguy) THEN hasty \cup {t} ELSE hasty
         \/ /\ stage[t] = "exited" /\ stage' = [stage EXCEPT ![t] = "zombie"]
            /\ t \in joined /\ hasty' = hasty
  PROVE  FamilyInv'
<1>1. /\ stage'[t] \in {"exited", "zombie"}
      /\ stage'[t] = "exited" => stage[t] = "active" /\ hasty' = hasty
      /\ \A u \in Threads : u # t => stage'[u] = stage[u]
      /\ hasty \subseteq hasty' /\ hasty' \subseteq hasty \cup {t}
      /\ t \in hasty' => t \in hasty \/ stage'[t] = "zombie"
  BY DEF StagesInv
<1>2. \A u \in Threads : /\ Living(u)' => Living(u) /\ u # t
                         /\ u # t => Kids(u)' = Kids(u)
  BY <1>1 DEF Living, Interruptible, Kids
<1>3. \A u \in Threads : Kids(u) \subseteq Threads
  BY KidsAreThreads
<1>4. \A u \in Threads : Awaited(u) /\ u # t => Awaited(u)'
  BY <1>1 DEF Awaited, Interruptible
<1>5. \A u \in Threads : u \in Kids(t) /\ stage[t] = "active" =>
        u \notin joined /\ \A v \in Threads : v # t /\ Living(v) => u \notin Kids(v)
  <2> SUFFICES ASSUME NEW u \in Kids(t), stage[t] = "active"
               PROVE  u \notin joined /\ \A v \in Threads : v # t /\ Living(v) => u \notin Kids(v)
    OBVIOUS
  <2>1. Living(t)
    BY DEF Living, Interruptible
  <2> QED BY <2>1 DEF FamilyInv, ChildrenInv, JoinOf, Awaited
<1>6. t \notin joined /\ stage'[t] = "exited" => Awaited(t)'
  BY DEF Awaited
<1>7. ChildrenInv'
  <2>1. ASSUME NEW u \in Threads, Living(u)', NEW x \in Kids(u)'
        PROVE  /\ struct'[x].is_detached = 0
               /\ JoinOf(u, x)' \/ (Awaited(x)' /\ struct'[x].has_exited = 0)
    <3>1. Living(u) /\ u # t /\ x \in Kids(u) /\ x \in Threads
      BY <1>2, <1>3, <2>1
    <3>2. /\ struct[x].is_detached = 0
          /\ JoinOf(u, x) \/ (Awaited(x) /\ struct[x].has_exited = 0)
      BY <3>1 DEF FamilyInv, ChildrenInv
    <3>3. struct'[x].is_detached = 0
      BY <1>5, <3>1, <3>2
    <3>4. JoinOf(u, x) => JoinOf(u, x)'
      BY <1>1, <3>1 DEF JoinOf, Child
    <3>5. CASE x # t
      BY <1>4, <3>1, <3>2, <3>3, <3>4, <3>5
    <3>6. CASE x = t
      <4>1. CASE JoinOf(u, x)
        BY <3>3, <3>4, <4>1
      <4>2. CASE Awaited(x) /\ struct[x].has_exited = 0
        <5>1. x \notin joined
          BY <4>2 DEF Awaited
        <5>2. stage'[t] = "exited" /\ struct'[t].has_exited = struct[t].has_exited
          BY <1>1, <3>3, <3>6, <5>1 DEF StagesInv
        <5> QED BY <1>6, <3>3, <3>6, <4>2, <5>1, <5>2
      <4> QED BY <3>2, <4>1, <4>2
    <3> QED BY <3>5, <3>6
  <2>2. \A u \in Threads : Living(u)' => IsInjective(struct'[u].children)
    BY <1>2 DEF FamilyInv, ChildrenInv
  <2>3. \A u, v \in Threads : Living(u)' /\ Living(v)' /\ u # v => Kids(u)' \cap Kids(v)' = {}
    BY <1>2 DEF FamilyInv, ChildrenInv
  <2>4. \A u \in Threads : stage'[u] \in {"created", "new"} => struct'[u].children = <<>>
    BY <1>1 DEF FamilyInv, ChildrenInv
  <2> QED BY <2>1, <2>2, <2>3, <2>4 DEF ChildrenInv
<1>8. ForkInv'
  <2>1. \A u \in Threads : stage'[u] \in {"creating", "forking"} => stage[u] = stage'[u]
    BY <1>1
  <2>2. ASSUME NEW u \in Threads, stage[u] = "forking"
        PROVE  /\ newguy[u] \in Threads /\ Awaited(newguy[u])'
               /\ \A v \in Threads : Living(v)' => newguy[u] \notin Kids(v)'
    <3>1. /\ newguy[u] \in Threads /\ Awaited(newguy[u])
          /\ \A v \in Threads : Living(v) => newguy[u] \notin Kids(v)
      BY <2>2 DEF FamilyInv, ForkInv
    <3>2. Awaited(newguy[u])'
      <4>1. CASE newguy[u] # t
        BY <1>4, <3>1, <4>1 DEF Awaited, Interruptible
      <4>2. CASE newguy[u] = t
        <5>1. t \in Range(newguy)
          BY <4>2 DEF Range, StagesInv
        <5>2. t \notin joined
          BY <3>1, <4>2 DEF Awaited
        <5>3. stage'[t] = "exited" \/ t \in hasty'
          BY <5>1, <5>2 DEF StagesInv
        <5> QED BY <4>2, <5>2, <5>3 DEF Awaited, Interruptible
      <4> QED BY <4>1, <4>2
    <3> QED BY <1>2, <3>1, <3>2
  <2> QED BY <2>1, <2>2 DEF FamilyInv, ForkInv
<1>9. JoinedInv' /\ HastyInv'
  <2>1. joined \subseteq Threads /\ hasty \subseteq Threads
    BY DEF TablesInv
  <2>2. JoinedInv'
    BY <1>1, <1>5, <2>1 DEF FamilyInv, JoinedInv
  <2>3. t \notin hasty
    BY DEF FamilyInv, HastyInv
  <2>4. HastyInv'
    BY <1>1, <2>1, <2>3 DEF FamilyInv, HastyInv
  <2> QED BY <2>2, <2>4
<1> QED BY <1>7, <1>8, <1>9 DEF FamilyInv

LEMMA FamilyExit ==
  ASSUME FamilyInv, TablesInv, StagesInv, SearchInv, NEW t \in Threads, thread_exit(t), ~Fault
  PROVE  FamilyInv'
<1>1. stage[t] = "active"
  BY DEF thread_exit, OnCpu
<1>2. /\ \A u \in Threads :
           /\ u # t => struct'[u].has_exited = struct[u].has_exited
           /\ u # t => struct'[u].children = struct[u].children
           /\ \/ struct'[u].is_detached = struct[u].is_detached
              \/ u \in Kids(t) /\ stage[t] = "active"
      /\ \/ /\ struct'[t].has_exited = struct[t].has_exited
            /\ stage' = [stage EXCEPT ![t] = "exited"] /\ hasty' = hasty
         \/ /\ struct'[t].is_detached # 0
            /\ stage' = [stage EXCEPT ![t] = "zombie"]
            /\ hasty' = IF t \in Range(newguy) THEN hasty \cup {t} ELSE hasty
      /\ UNCHANGED <<newguy, search, joined>>
  BY <1>1, ExitFields DEF Kids
<1> QED BY <1>1, <1>2, FamilyLeave

LEMMA FamilyResume ==
  ASSUME FamilyInv, TablesInv, StagesInv, SearchInv, NEW t \in Threads, exit_resume(t),
         t \in joined
  PROVE  FamilyInv'
<1>1. stage[t] = "exited"
  BY DEF exit_resume
<1>2. /\ \A u \in Threads :
            /\ u # t => struct'[u].has_exited = struct[u].has_exited
            /\ struct'[u].children = struct[u].children
            /\ struct'[u].is_detached = struct[u].is_detached
      /\ stage' = [stage EXCEPT ![t] = "zombie"]
      /\ UNCHANGED <<newguy, search, joined, hasty>>
  BY ResumeFields DEF history
<1> QED BY <1>1, <1>2, FamilyLeave

-----------------------------------------------------------------------------
(* Turns *)

\* What TurnsAccounted promises.
Due(t) ==
  LET j == IF t \in joined THEN 1 ELSE 0 IN
  IF stage[t] = "new" \/ Interruptible(t) THEN 1 + j
  ELSE IF stage[t] = "exited" THEN j ELSE 0

TurnInv == \A t \in Threads \ hasty : Turns(t) = Due(t)

LEMMA DueIsAccounted ==
  ASSUME StagesInv
  PROVE  (~panicked => TurnInv) => TurnsAccounted
<1> SUFFICES ASSUME NEW t \in Threads
             PROVE  LET j == IF t \in joined THEN 1 ELSE 0 IN
                    Due(t) = CASE stage[t] = "new" \/ Interruptible(t) -> 1 + j
                               [] stage[t] = "exited" -> j
                               [] stage[t] \in {"unborn", "created", "zombie", "freed"} -> 0
  BY DEF TurnInv, TurnsAccounted
<1>1. stage[t] \in Stages
  BY DEF StagesInv
<1> DEFINE j == IF t \in joined THEN 1 ELSE 0
<1>2. CASE stage[t] = "new" \/ Interruptible(t)
  BY <1>2 DEF Due, Interruptible
<1>3. CASE stage[t] = "exited"
  BY <1>3 DEF Due, Interruptible
<1>4. CASE stage[t] \in {"unborn", "created", "zombie", "freed"}
  BY <1>4 DEF Due, Interruptible
<1> QED BY <1>1, <1>2, <1>3, <1>4 DEF Stages, Interruptible

LEMMA TurnsParts ==
  ASSUME TablesInv, NEW t \in Threads
  PROVE  /\ Occurrences(t, runqueue) \in Nat /\ Occurrences(t, sleepers) \in Nat
         /\ Turns(t) \in Nat
         /\ Turns(t) = Occurrences(t, runqueue) + Occurrences(t, sleepers)
                         + (IF curthread = t THEN 1 ELSE 0)
<1>1. Occurrences(t, runqueue) \in Nat /\ Occurrences(t, sleepers) \in Nat
  BY OccurrencesNat DEF TablesInv, SwitchTypeOK
<1> QED BY <1>1 DEF Turns

\* Threads that move between the tables and the CPU keep their turns.
LEMMA TurnsSwitch ==
  ASSUME TablesInv, NEW u \in Threads,
         \/ scheduler
         \/ \E t \in Threads : thread_yield(t)
         \/ \E a \in Addrs : curthread \in Threads /\ thread_sleep(a, sleepers)
                             /\ UNCHANGED runqueue
         \/ \E a \in Addrs : thread_wakeup(a) /\ UNCHANGED curthread
  PROVE  Turns(u)' = Turns(u)
<1>1. /\ runqueue \in Seq(Threads) /\ sleepers \in Seq(Threads)
      /\ Occurrences(u, runqueue) \in Nat /\ Occurrences(u, sleepers) \in Nat
      /\ Turns(u) = Occurrences(u, runqueue) + Occurrences(u, sleepers)
                      + (IF curthread = u THEN 1 ELSE 0)
  BY TurnsParts DEF TablesInv, SwitchTypeOK
<1>2. Turns(u)' = Occurrences(u, runqueue') + Occurrences(u, sleepers')
                    + (IF curthread' = u THEN 1 ELSE 0)
  BY DEF Turns
<1>3. u # NULL
  BY ThreadAssumption
<1>4. CASE scheduler
  <2>1. /\ curthread = NULL /\ runqueue # <<>> /\ curthread' = Head(runqueue)
        /\ runqueue' = Tail(runqueue) /\ sleepers' = sleepers
    BY <1>4 DEF scheduler
  <2>2. Occurrences(u, runqueue) = (IF u = Head(runqueue) THEN 1 ELSE 0)
                                     + Occurrences(u, Tail(runqueue))
    BY <1>1, <2>1, OccurrencesTail
  <2>3. Occurrences(u, Tail(runqueue)) \in Nat
    BY <1>1, <2>1, HeadTailFacts, OccurrencesNat
  <2> QED BY <1>1, <1>2, <1>3, <2>1, <2>2, <2>3
<1>5. ASSUME NEW t \in Threads, thread_yield(t) PROVE Turns(u)' = Turns(u)
  <2>1. /\ curthread = t /\ curthread' = NULL
        /\ runqueue' = Append(runqueue, t) /\ sleepers' = sleepers
    BY <1>5 DEF thread_yield, Running
  <2>2. Occurrences(u, Append(runqueue, t))
          = Occurrences(u, runqueue) + (IF u = t THEN 1 ELSE 0)
    BY <1>1, OccurrencesAppend
  <2> QED BY <1>1, <1>2, <1>3, <2>1, <2>2
<1>6. ASSUME NEW a \in Addrs, curthread \in Threads, thread_sleep(a, sleepers),
             UNCHANGED runqueue
      PROVE  Turns(u)' = Turns(u)
  <2>1. curthread' = NULL /\ sleepers' = Append(sleepers, curthread)
    BY <1>6 DEF thread_sleep
  <2>2. Occurrences(u, Append(sleepers, curthread))
          = Occurrences(u, sleepers) + (IF u = curthread THEN 1 ELSE 0)
    BY <1>1, <1>6, OccurrencesAppend
  <2> QED BY <1>1, <1>2, <1>3, <1>6, <2>1, <2>2
<1>7. ASSUME NEW a \in Addrs, thread_wakeup(a), UNCHANGED curthread
      PROVE  Turns(u)' = Turns(u)
  <2>1. /\ sleepers' = StillAsleep(a) /\ runqueue' = runqueue \o Awakened(a)
    BY <1>7 DEF thread_wakeup
  <2>2. StillAsleep(a) \in Seq(Threads) /\ Awakened(a) \in Seq(Threads)
    BY WakeupType DEF TablesInv
  <2>3. SleepersOn(a) \in SUBSET (DOMAIN sleepers)
    BY DEF SleepersOn
  <2>4. Occurrences(u, Awakened(a)) + Occurrences(u, StillAsleep(a)) = Occurrences(u, sleepers)
    BY <1>1, <2>3, OccurrencesSplit DEF StillAsleep, Awakened
  <2>5. Occurrences(u, runqueue \o Awakened(a))
          = Occurrences(u, runqueue) + Occurrences(u, Awakened(a))
    BY <1>1, <2>2, OccurrencesConcat
  <2>6. Occurrences(u, Awakened(a)) \in Nat /\ Occurrences(u, StillAsleep(a)) \in Nat
    BY <2>2, OccurrencesNat
  <2> QED BY <1>1, <1>2, <1>7, <2>1, <2>4, <2>5, <2>6
<1> QED BY <1>4, <1>5, <1>6, <1>7

\* A thread that is put into the run queue has one more turn.
LEMMA TurnsQueued ==
  ASSUME TablesInv, NEW c \in Threads, runqueue' = Append(runqueue, c),
         UNCHANGED <<curthread, sleepers>>, NEW u \in Threads
  PROVE  Turns(u)' = Turns(u) + (IF u = c THEN 1 ELSE 0)
<1>1. Turns(u)' = Occurrences(u, runqueue') + Occurrences(u, sleepers')
                    + (IF curthread' = u THEN 1 ELSE 0)
  BY DEF Turns
<1>2. Occurrences(u, Append(runqueue, c)) = Occurrences(u, runqueue) + (IF u = c THEN 1 ELSE 0)
  BY OccurrencesAppend DEF TablesInv, SwitchTypeOK
<1> QED BY <1>1, <1>2, TurnsParts

\* One that leaves the CPU for no table has one less.
LEMMA TurnsUsed ==
  ASSUME TablesInv, NEW t \in Threads, curthread = t, curthread' = NULL,
         UNCHANGED <<runqueue, sleepers>>, NEW u \in Threads
  PROVE  Turns(u)' = Turns(u) - (IF u = t THEN 1 ELSE 0)
<1>1. Turns(u)' = Occurrences(u, runqueue') + Occurrences(u, sleepers')
                    + (IF curthread' = u THEN 1 ELSE 0)
  BY DEF Turns
<1>2. u # NULL
  BY ThreadAssumption
<1> QED BY <1>1, <1>2, TurnsParts

LEMMA TurnsUnchanged ==
  ASSUME UNCHANGED <<curthread, runqueue, sleepers>>, NEW u \in Threads
  PROVE  Turns(u)' = Turns(u)
BY DEF Turns

LEMMA TurnInit == Init => TurnInv
<1> SUFFICES ASSUME Init, NEW t \in Threads PROVE Turns(t) = Due(t)
  BY DEF TurnInv
<1>1. runqueue = <<>> /\ sleepers = <<>> /\ curthread = Boot /\ joined = {}
  BY DEF Init
<1>2. stage[t] = IF t = Boot THEN "active" ELSE "unborn"
  BY DEF Init
<1>3. Occurrences(t, <<>>) = 0
  BY OccurrencesEmpty
<1> QED BY <1>1, <1>2, <1>3 DEF Turns, Due, Interruptible

LEMMA DueUnchanged ==
  ASSUME UNCHANGED <<stage, joined>>, NEW u \in Threads
  PROVE  Due(u)' = Due(u)
BY DEF Due, Interruptible

\* The steps of ThreadSwitch.  A thread that the scheduler takes was due a
\* turn, so it is not among the zombies that are destroyed.
LEMMA TurnKept ==
  ASSUME TurnInv, TablesInv, StagesInv, ~Fault,
         \/ switch_to
         \/ \E t \in Threads : yield(t)
         \/ \E t \in Threads, a \in Addrs : sleep(t, a) \/ sleep_return(t, a)
         \/ \E a \in Addrs : wakeup(a)
  PROVE  TurnInv'
<1>0. hasty' = hasty
  BY DEF switch_to, yield, sleep, sleep_return, wakeup, lifeVars, history
<1> SUFFICES ASSUME NEW u \in Threads, u \notin hasty PROVE Turns(u)' = Due(u)'
  BY <1>0 DEF TurnInv
<1>a. Turns(u) = Due(u)
  BY DEF TurnInv
<1>1. CASE switch_to
  <2>1. Turns(u)' = Turns(u)
    BY <1>1, TurnsSwitch DEF switch_to
  <2>2. Due(u)' = Due(u)
    <3>1. joined' = joined
      BY <1>1 DEF switch_to, history
    <3>2. \/ stage'[u] = stage[u]
          \/ stage[u] = "new" /\ stage'[u] = "active"
          \/ stage[u] = "zombie" /\ stage'[u] = "freed"
      BY <1>1 DEF switch_to, StagesInv, Enter
    <3> QED BY <3>1, <3>2 DEF Due, Interruptible
  <2> QED BY <1>a, <2>1, <2>2
<1>2. ASSUME NEW t \in Threads, yield(t) PROVE Turns(u)' = Due(u)'
  <2>1. Turns(u)' = Turns(u)
    BY <1>2, TurnsSwitch DEF yield
  <2>2. Due(u)' = Due(u)
    BY <1>2, DueUnchanged DEF yield, lifeVars, history
  <2> QED BY <1>a, <2>1, <2>2
<1>3. ASSUME NEW t \in Threads, NEW a \in Addrs, sleep(t, a) PROVE Turns(u)' = Due(u)'
  <2>1. curthread \in Threads /\ thread_sleep(a, sleepers) /\ UNCHANGED runqueue
    BY <1>3 DEF sleep, OnCpu, Running
  <2>2. Turns(u)' = Turns(u)
    BY <2>1, TurnsSwitch
  <2>3. Due(u)' = Due(u)
    BY <1>3, DueUnchanged DEF sleep, lifeVars, history
  <2> QED BY <1>a, <2>2, <2>3
<1>4. ASSUME NEW t \in Threads, NEW a \in Addrs, sleep_return(t, a) PROVE Turns(u)' = Due(u)'
  <2>1. curthread \in Threads /\ UNCHANGED runqueue
        /\ \/ UNCHANGED <<curthread, sleepers>>
           \/ thread_sleep(a, sleepers)
    BY <1>4 DEF sleep_return, Resumed
  <2>2. Turns(u)' = Turns(u)
    BY <2>1, TurnsSwitch, TurnsUnchanged
  <2>3. Due(u)' = Due(u)
    BY <1>4, DueUnchanged DEF sleep_return, lifeVars, history
  <2> QED BY <1>a, <2>2, <2>3
<1>5. ASSUME NEW a \in Addrs, wakeup(a) PROVE Turns(u)' = Due(u)'
  <2>1. Turns(u)' = Turns(u)
    BY <1>5, TurnsSwitch DEF wakeup
  <2>2. Due(u)' = Due(u)
    BY <1>5, DueUnchanged DEF wakeup, lifeVars, history
  <2> QED BY <1>a, <2>1, <2>2
<1> QED BY <1>1, <1>2, <1>3, <1>4, <1>5

LEMMA TurnFork ==
  ASSUME TurnInv, TablesInv, StagesInv, JoinedInv, ForkInv, ~Fault,
         \/ \E t \in Threads, n \in Threads : thread_fork(t, n)
         \/ \E t \in Threads : fork_enqueue(t) \/ fork_fail(t)
         \/ \E t \in Threads, w \in BOOLEAN : fork_return(t, w)
  PROVE  TurnInv'
<1>h. hasty' = hasty
  BY DEF thread_fork, fork_enqueue, fork_fail, fork_return, history
<1> SUFFICES ASSUME NEW u \in Threads, u \notin hasty PROVE Turns(u)' = Due(u)'
  BY <1>h DEF TurnInv
<1>0. Turns(u) = Due(u)
  BY DEF TurnInv
<1>1. ASSUME NEW t \in Threads, NEW n \in Threads, thread_fork(t, n)
      PROVE  Turns(u)' = Due(u)'
  <2>1. /\ stage[t] = "active" /\ stage[n] = "unborn" /\ joined' = joined
        /\ stage' = [stage EXCEPT ![n] = "created", ![t] = "creating"]
        /\ UNCHANGED <<curthread, runqueue, sleepers>>
    BY <1>1 DEF thread_fork, OnCpu, switchVars, history
  <2>2. Due(u)' = Due(u)
    BY <2>1 DEF Due, Interruptible, StagesInv
  <2> QED BY <1>0, <2>1, <2>2, TurnsUnchanged
<1>2. ASSUME NEW t \in Threads, fork_enqueue(t)
      PROVE  Turns(u)' = Due(u)'
  <2> DEFINE n == newguy[t]
  <2>1. /\ stage[t] = "creating" /\ joined' = joined
        /\ stage' = [stage EXCEPT ![n] = "new", ![t] = "forking"]
        /\ runqueue' = Append(runqueue, n)
        /\ UNCHANGED <<curthread, sleepers>>
    BY <1>2 DEF fork_enqueue, OnCpu, history
  <2>2. n \in Threads /\ stage[n] = "created" /\ n # t
    BY <2>1 DEF StagesInv
  <2>3. n \notin joined
    BY <2>2 DEF JoinedInv
  <2> HIDE DEF n
  <2>4. Turns(u)' = Turns(u) + (IF u = n THEN 1 ELSE 0)
    BY <2>1, <2>2, TurnsQueued
  <2>5. CASE u = n
    <3>1. Due(u) = 0
      BY <2>2, <2>3, <2>5 DEF Due, Interruptible
    <3>2. Due(u)' = 1
      BY <2>1, <2>2, <2>3, <2>5 DEF Due, Interruptible, StagesInv
    <3> QED BY <1>0, <2>4, <2>5, <3>1, <3>2
  <2>6. CASE u # n
    <3>1. Due(u)' = Due(u)
      BY <2>1, <2>2, <2>6 DEF Due, Interruptible, StagesInv
    <3> QED BY <1>0, <2>4, <2>6, <3>1, TurnsParts
  <2> QED BY <2>5, <2>6
<1>3. ASSUME NEW t \in Threads, fork_fail(t)
      PROVE  Turns(u)' = Due(u)'
  <2>1. /\ stage[t] = "creating" /\ joined' = joined
        /\ stage' = [stage EXCEPT ![newguy[t]] = "freed", ![t] = "active"]
        /\ UNCHANGED <<curthread, runqueue, sleepers>>
    BY <1>3 DEF fork_fail, OnCpu, switchVars, history
  <2>2. stage[newguy[t]] = "created" /\ newguy[t] # t
    BY <2>1 DEF StagesInv
  <2>3. Due(u)' = Due(u)
    BY <2>1, <2>2 DEF Due, Interruptible, StagesInv
  <2> QED BY <1>0, <2>1, <2>3, TurnsUnchanged
<1>4. ASSUME NEW t \in Threads, NEW w \in BOOLEAN, fork_return(t, w)
      PROVE  Turns(u)' = Due(u)'
  <2>1. /\ stage[t] = "forking" /\ joined' = joined
        /\ stage' = [stage EXCEPT ![t] = "active"]
        /\ UNCHANGED <<curthread, runqueue, sleepers>>
    BY <1>4 DEF fork_return, OnCpu, switchVars, history
  <2>2. Due(u)' = Due(u)
    BY <2>1 DEF Due, Interruptible, StagesInv
  <2> QED BY <1>0, <2>1, <2>2, TurnsUnchanged
<1> QED BY <1>1, <1>2, <1>3, <1>4

\* The spare turn that thread_join gives is the one that the joined thread is
\* due from then on.
LEMMA TurnSearch ==
  ASSUME TurnInv, TablesInv, StagesInv, SearchInv, FamilyInv,
         NEW t \in Threads, SearchStep(t), ~Fault
  PROVE  TurnInv'
<1>1. Moves(t) /\ UNCHANGED <<curthread, sleepers, hasty>>
  BY SearchMoves DEF Moves
<1>2. \A u \in Threads : stage'[u] = stage[u] \/ {stage[u], stage'[u]} \subseteq Inner
  BY <1>1 DEF Moves, StagesInv
<1> SUFFICES ASSUME NEW u \in Threads, u \notin hasty PROVE Turns(u)' = Due(u)'
  BY <1>1 DEF TurnInv
<1>3. Turns(u) = Due(u)
  BY DEF TurnInv
<1>4. CASE UNCHANGED <<runqueue, joined>>
  <2>1. Turns(u)' = Turns(u)
    BY <1>1, <1>4, TurnsUnchanged
  <2>2. Due(u)' = Due(u)
    BY <1>2, <1>4 DEF Due, Interruptible, Inner
  <2> QED BY <1>3, <2>1, <2>2
<1>5. CASE Queues(t)
  <2> DEFINE c == Child(t)
  <2>1. c \in Threads /\ Awaited(c) /\ struct[c].has_exited = 0
    BY <1>1, <1>5, FamilyQueues
  <2>2. joined' = joined \cup {c} /\ runqueue' = Append(runqueue, c)
    BY <1>5, <2>1 DEF Queues
  <2>3. c # u \/ stage[c] \in {"new", "exited"} \/ Interruptible(c)
    BY <2>1 DEF Awaited
  <2>4. c \notin joined
    BY <2>1 DEF Awaited
  <2> HIDE DEF c
  <2>5. Turns(u)' = Turns(u) + (IF u = c THEN 1 ELSE 0)
    BY <1>1, <2>1, <2>2, TurnsQueued
  <2>6. Due(u)' = Due(u) + (IF u = c THEN 1 ELSE 0)
    <3>1. /\ stage'[u] \in {"new"} \/ Interruptible(u)'
               <=> stage[u] \in {"new"} \/ Interruptible(u)
          /\ stage'[u] = "exited" <=> stage[u] = "exited"
      BY <1>2 DEF Interruptible, Inner
    <3>2. CASE u = c
      BY <2>2, <2>3, <2>4, <3>1, <3>2 DEF Due
    <3>3. CASE u # c
      <4>1. u \in joined' <=> u \in joined
        BY <2>2, <3>3
      <4>2. Due(u)' = Due(u) /\ Due(u) \in Nat
        BY <3>1, <4>1 DEF Due
      <4> QED BY <3>3, <4>2
    <3> QED BY <3>2, <3>3
  <2> QED BY <1>3, <2>5, <2>6
<1> QED
  BY <1>4, <1>5, SearchOutcome DEF Looks, Forgets, Detaches

\* Each of the two switches of thread_exit uses up a turn.
LEMMA TurnExit ==
  ASSUME TurnInv, TablesInv, StagesInv, FamilyInv, NEW t \in Threads, thread_exit(t), ~Fault
  PROVE  TurnInv'
<1>1. /\ stage[t] = "active" /\ curthread = t
  BY DEF thread_exit, OnCpu, Running
<1>2. /\ struct'[t].is_detached = struct[t].is_detached \/ t \in Kids(t)
      /\ \/ stage' = [stage EXCEPT ![t] = "exited"]
         \/ struct'[t].is_detached # 0 /\ stage' = [stage EXCEPT ![t] = "zombie"]
      /\ curthread' = NULL
      /\ UNCHANGED <<runqueue, sleepers, joined>>
      /\ hasty \subseteq hasty'
  BY ExitFields DEF Kids
<1>3. struct'[t].is_detached # 0 => t \notin joined
  BY <1>1, <1>2 DEF FamilyInv, ChildrenInv, JoinedInv, JoinOf, Awaited, Living, Interruptible
<1> SUFFICES ASSUME NEW u \in Threads, u \notin hasty PROVE Turns(u)' = Due(u)'
  BY <1>2 DEF TurnInv
<1>4. Turns(u) = Due(u) /\ Turns(u)' = Turns(u) - (IF u = t THEN 1 ELSE 0)
      /\ Turns(u) \in Nat
  BY <1>1, <1>2, TurnsUsed, TurnsParts DEF TurnInv
<1>5. CASE u = t
  <2>1. Due(u) = 1 + (IF t \in joined THEN 1 ELSE 0)
    BY <1>1, <1>5 DEF Due, Interruptible
  <2>2. Due(u)' = IF t \in joined THEN 1 ELSE 0
    BY <1>1, <1>2, <1>3, <1>5 DEF Due, Interruptible, StagesInv
  <2> QED BY <1>4, <1>5, <2>1, <2>2
<1>6. CASE u # t
  <2>1. Due(u)' = Due(u)
    BY <1>2, <1>6 DEF Due, Interruptible, StagesInv
  <2> QED BY <1>4, <1>6, <2>1
<1> QED BY <1>5, <1>6

\* Whoever comes back from the first switch of thread_exit was joined.
LEMMA ResumedWasJoined ==
  ASSUME TurnInv, TablesInv, HastyInv, NEW t \in Threads, exit_resume(t)
  PROVE  t \in joined /\ Turns(t) = 1
<1>1. curthread = t /\ stage[t] = "exited"
  BY DEF exit_resume
<1>2. Turns(t) = IF t \in joined THEN 1 ELSE 0
  BY <1>1 DEF TurnInv, HastyInv, Due, Interruptible
<1>3. Turns(t) # 0
  <2>1. /\ Occurrences(t, runqueue) \in Nat /\ Occurrences(t, sleepers) \in Nat
        /\ Turns(t) = Occurrences(t, runqueue) + Occurrences(t, sleepers) + 1
    BY <1>1, TurnsParts
  <2> QED BY <2>1
<1> QED BY <1>2, <1>3

LEMMA TurnResume ==
  ASSUME TurnInv, TablesInv, StagesInv, HastyInv, NEW t \in Threads, exit_resume(t)
  PROVE  TurnInv'
<1>1. curthread = t /\ stage[t] = "exited"
  BY DEF exit_resume
<1>2. /\ stage' = [stage EXCEPT ![t] = "zombie"] /\ curthread' = NULL
      /\ UNCHANGED <<runqueue, sleepers, joined, hasty>>
  BY ResumeFields DEF history
<1> SUFFICES ASSUME NEW u \in Threads, u \notin hasty PROVE Turns(u)' = Due(u)'
  BY <1>2 DEF TurnInv
<1>3. Turns(u) = Due(u) /\ Turns(u)' = Turns(u) - (IF u = t THEN 1 ELSE 0)
      /\ Turns(u) \in Nat
  BY <1>1, <1>2, TurnsUsed, TurnsParts DEF TurnInv
<1>4. CASE u = t
  <2>1. Due(u)' = 0
    BY <1>2, <1>4 DEF Due, Interruptible, StagesInv
  <2> QED BY <1>3, <1>4, <2>1, ResumedWasJoined
<1>5. CASE u # t
  <2>1. Due(u)' = Due(u)
    BY <1>2, <1>5 DEF Due, Interruptible, StagesInv
  <2> QED BY <1>3, <1>5, <2>1
<1> QED BY <1>4, <1>5

-----------------------------------------------------------------------------
(* Types *)

ForkTyped == \A t \in Threads : stage[t] = "forking" => newguy[t] \in Threads

\* Inductive together with CountInv.
TypesInv == TablesInv /\ ForkTyped /\ SearchInv

LEMMA TypesInit == Init => TypesInv
<1> SUFFICES ASSUME Init PROVE TypesInv
  OBVIOUS
<1>1. \A t \in Threads : stage[t] \in {"active", "unborn"}
  BY DEF Init
<1> QED BY <1>1, TablesInit DEF TypesInv, ForkTyped, SearchInv, Looking, Searching

\* Who searches or is in thread_fork goes on as it was.
LEMMA TypesFrame ==
  ASSUME ForkTyped, SearchInv, joined \subseteq joined',
         \A t \in Threads :
           /\ stage'[t] = "forking" => stage[t] = "forking" /\ newguy'[t] = newguy[t]
           /\ stage'[t] \in Searching =>
                /\ stage'[t] = stage[t] /\ search'[t] = search[t]
                /\ struct'[t].children = struct[t].children
  PROVE  ForkTyped' /\ SearchInv'
<1>1. ForkTyped'
  BY DEF ForkTyped
<1>2. SearchInv'
  BY DEF SearchInv, Searching, Looking, Child
<1> QED BY <1>1, <1>2

LEMMA TypesSearch ==
  ASSUME CountInv, TablesInv, ForkTyped, SearchInv,
         NEW t \in Threads, SearchStep(t), ~Fault
  PROVE  ForkTyped' /\ SearchInv'
<1>0. StagesInv /\ struct \in [Threads -> Struct]
  BY DEF CountInv, TablesInv
<1>1. Moves(t) /\ newguy' = newguy
  BY SearchMoves DEF Moves
<1>2. /\ \A u \in Threads : u # t => search'[u] = search[u]
      /\ stage'[t] \in Looking => search'[t].k \in 1..3 /\ search'[t].i # 0
      /\ stage'[t] \in Searching => search'[t].j \in DOMAIN struct[t].children
  BY <1>0, SearchRecord
<1>3. /\ stage'[t] \in Inner
      /\ \A u \in Threads : u # t => stage'[u] = stage[u]
  BY <1>0, <1>1 DEF Moves, StagesInv
<1>4. ForkTyped'
  BY <1>1, <1>3 DEF ForkTyped, Inner
<1>5. /\ \A u \in Threads : u # t => struct'[u].children = struct[u].children
      /\ stage'[t] \in Searching => struct'[t].children = struct[t].children
      /\ joined \subseteq joined'
      /\ stage'[t] = "joining" => Child(t) \in joined' /\ search' = search
  <2>1. CASE Looks(t)
    BY <2>1 DEF Looks
  <2>2. CASE Queues(t)
    BY <2>2 DEF Queues
  <2>3. stage[t] \in Searching => search[t].j \in DOMAIN struct[t].children
    BY DEF SearchInv
  <2>4. CASE Forgets(t)
    <3>1. search[t].j \in DOMAIN struct[t].children
      BY <2>3, <2>4 DEF Forgets, Searching
    <3> QED BY <2>4, <3>1, ForgetFields DEF Forgets, Searching, Looking
  <2>5. CASE Detaches(t)
    <3>1. search[t].j \in DOMAIN struct[t].children
      BY <2>3, <2>5 DEF Detaches, Searching
    <3>2. DetachedFrom(struct, t, struct')
      BY <1>0, <2>5, <3>1, DetachedFacts DEF Detaches
    <3> QED BY <2>5, <3>2 DEF Detaches, DetachedFrom, Searching, Looking
  <2> QED BY <1>0, <2>1, <2>2, <2>4, <2>5, SearchOutcome
<1>6. SearchInv'
  <2>1. ASSUME NEW u \in Threads, u # t
        PROVE  /\ stage'[u] \in Looking => search'[u].k \in 1..3 /\ search'[u].i # 0
               /\ stage'[u] \in Searching => search'[u].j \in DOMAIN struct'[u].children
               /\ stage'[u] = "joining" => Child(u)' \in joined'
    BY <1>2, <1>3, <1>5, <2>1 DEF SearchInv, Child
  <2>2. stage'[t] = "joining" => Child(t)' = Child(t)
    BY <1>5 DEF Child, Searching
  <2> QED BY <1>2, <1>5, <2>1, <2>2 DEF SearchInv
<1> QED BY <1>4, <1>6

\* The steps of thread_fork and of thread_exit.
LEMMA TypesFork ==
  ASSUME CountInv, TablesInv, ForkTyped, SearchInv, ~Fault,
         \/ \E t, n \in Threads : thread_fork(t, n)
         \/ \E t \in Threads : fork_enqueue(t) \/ fork_fail(t)
         \/ \E t \in Threads, w \in BOOLEAN : fork_return(t, w)
         \/ \E t \in Threads : thread_exit(t) \/ exit_resume(t)
  PROVE  ForkTyped' /\ SearchInv'
<1> USE DEF Searching, Looking
<1>0. /\ StagesInv /\ struct \in [Threads -> Struct]
      /\ stage \in [Threads -> Stages] /\ newguy \in [Threads -> Threads \cup {NULL}]
  BY DEF CountInv, TablesInv, StagesInv
<1>1. ASSUME NEW t \in Threads, NEW n \in Threads, thread_fork(t, n)
      PROVE  ForkTyped' /\ SearchInv'
  <2>1. /\ stage[t] = "active" /\ stage[n] = "unborn"
        /\ stage' = [stage EXCEPT ![n] = "created", ![t] = "creating"]
        /\ newguy' = [newguy EXCEPT ![t] = n]
        /\ UNCHANGED <<search, joined>>
        /\ \E s \in FreshStruct : struct' = [struct EXCEPT ![n] = s]
    BY <1>1 DEF thread_fork, OnCpu, history
  <2> QED BY <1>0, <2>1, TypesFrame
<1>2. ASSUME NEW t \in Threads, fork_enqueue(t)
      PROVE  ForkTyped' /\ SearchInv'
  <2>1. /\ stage[t] = "creating"
        /\ stage' = [stage EXCEPT ![newguy[t]] = "new", ![t] = "forking"]
        /\ UNCHANGED <<search, joined, newguy, struct>>
    BY <1>2 DEF fork_enqueue, OnCpu, history
  <2>2. newguy[t] \in Threads
    BY <1>0, <2>1 DEF StagesInv
  <2>3. ForkTyped'
    BY <1>0, <2>1, <2>2 DEF ForkTyped
  <2>4. SearchInv'
    BY <1>0, <2>1, <2>2 DEF SearchInv, Child
  <2> QED BY <2>3, <2>4
<1>3. ASSUME NEW t \in Threads, fork_fail(t)
      PROVE  ForkTyped' /\ SearchInv'
  <2>1. /\ stage[t] = "creating"
        /\ stage' = [stage EXCEPT ![newguy[t]] = "freed", ![t] = "active"]
        /\ newguy' = [newguy EXCEPT ![t] = NULL]
        /\ UNCHANGED <<search, joined, struct>>
    BY <1>3 DEF fork_fail, OnCpu, history
  <2> QED BY <1>0, <2>1, TypesFrame
<1>4. ASSUME NEW t \in Threads, NEW w \in BOOLEAN, fork_return(t, w)
      PROVE  ForkTyped' /\ SearchInv'
  <2>1. /\ stage[t] = "forking" /\ stage' = [stage EXCEPT ![t] = "active"]
        /\ newguy' = [newguy EXCEPT ![t] = NULL]
        /\ UNCHANGED <<search, joined>>
    BY <1>4 DEF fork_return, OnCpu, history
  <2>2. newguy[t] \in Threads
    BY <2>1 DEF ForkTyped
  <2>3. \A u \in Threads : u # t => struct'[u].children = struct[u].children
    BY <1>4, <2>2, ForkReturnFields
  <2> QED BY <1>0, <2>1, <2>3, TypesFrame
<1>5. ASSUME NEW t \in Threads, thread_exit(t)
      PROVE  ForkTyped' /\ SearchInv'
  <2>1. /\ \A u \in Threads : u # t => struct'[u].children = struct[u].children
        /\ \/ stage' = [stage EXCEPT ![t] = "exited"]
           \/ stage' = [stage EXCEPT ![t] = "zombie"]
        /\ UNCHANGED <<newguy, search, joined>>
    BY <1>5, ExitFields
  <2> QED BY <1>0, <2>1, TypesFrame
<1>6. ASSUME NEW t \in Threads, exit_resume(t)
      PROVE  ForkTyped' /\ SearchInv'
  <2>1. /\ \A u \in Threads : struct'[u].children = struct[u].children
        /\ stage' = [stage EXCEPT ![t] = "zombie"]
        /\ UNCHANGED <<newguy, search, joined>>
    BY <1>6, ResumeFields DEF history
  <2> QED BY <1>0, <2>1, TypesFrame
<1> QED BY <1>1, <1>2, <1>3, <1>4, <1>5, <1>6

\* The steps that leave all but the stages alone.
LEMMA TypesQuiet ==
  ASSUME CountInv, ForkTyped, SearchInv,
         \/ UNCHANGED vars \/ Fault
         \/ switch_to
         \/ \E t \in Threads : yield(t)
         \/ \E t \in Threads, a \in Addrs : sleep(t, a) \/ sleep_return(t, a)
         \/ \E a \in Addrs : wakeup(a)
  PROVE  ForkTyped' /\ SearchInv'
<1>1. UNCHANGED <<struct, search, newguy, joined>>
  BY DEF vars, Fault, switch_to, yield, sleep, sleep_return, wakeup, lifeVars, history
<1>2. \A t \in Threads : stage'[t] = stage[t] \/ stage'[t] \in {"active", "freed"}
  BY DEF vars, Fault, switch_to, yield, sleep, sleep_return, wakeup, lifeVars, CountInv,
         StagesInv, Enter
<1> QED BY <1>1, <1>2, TypesFrame DEF Searching, Looking

LEMMA FaultTables ==
  ASSUME TablesInv, Fault
  PROVE  TablesInv'
<1>1. /\ panicked' = TRUE /\ sleepers' = <<>> /\ runqueue' = <<>>
      /\ UNCHANGED <<curthread, t_sleepaddr, joinable, struct, search, joined, hasty>>
  BY DEF Fault, thread_panic, lifeVars, tableVars, history
<1>2. <<>> \in Seq(Threads)
  OBVIOUS
<1> QED BY <1>1, <1>2 DEF TablesInv, SwitchTypeOK

LEMMA TypesStep == CountInv /\ TypesInv /\ [Next]_vars => TypesInv'
<1> SUFFICES ASSUME CountInv, TypesInv, [Next]_vars PROVE TypesInv'
  OBVIOUS
<1>0. TablesInv /\ ForkTyped /\ SearchInv /\ StagesInv
  BY DEF TypesInv, CountInv
<1>1. CASE UNCHANGED vars
  <2>1. TablesInv'
    BY <1>0, <1>1 DEF TablesInv, SwitchTypeOK, vars, switchVars, lifeVars, tableVars, history
  <2> QED BY <1>0, <1>1, <2>1, TypesQuiet DEF TypesInv
<1>2. CASE Fault
  BY <1>0, <1>2, FaultTables, TypesQuiet DEF TypesInv
<1>3. CASE /\ ~Fault
           /\ \/ switch_to
              \/ \E t \in Threads : yield(t)
              \/ \E t \in Threads, a \in Addrs : sleep(t, a) \/ sleep_return(t, a)
              \/ \E a \in Addrs : wakeup(a)
  <2>1. UNCHANGED <<struct, search, joined, hasty>>
    BY <1>3 DEF switch_to, yield, sleep, sleep_return, wakeup, lifeVars, history
  <2> QED BY <1>0, <1>3, <2>1, TablesSwitch, TypesQuiet DEF TypesInv
<1>4. CASE ~Fault /\ \E t \in Threads : fork_enqueue(t) \/ fork_fail(t)
  <2>1. UNCHANGED <<struct, search, joined, hasty>>
    BY <1>4 DEF fork_enqueue, fork_fail, history
  <2> QED BY <1>0, <1>4, <2>1, TablesSwitch, TypesFork DEF TypesInv
<1>5. CASE ~Fault /\ \E t, n \in Threads : thread_fork(t, n)
  BY <1>0, <1>5, TablesFamily, TypesFork DEF TypesInv
<1>6. CASE ~Fault /\ \E t \in Threads, w \in BOOLEAN : fork_return(t, w)
  <2>1. PICK t \in Threads, w \in BOOLEAN : fork_return(t, w)
    BY <1>6
  <2>2. newguy[t] \in Threads
    BY <1>0, <2>1 DEF fork_return, OnCpu, ForkTyped
  <2> QED BY <1>0, <1>6, <2>1, <2>2, TablesFamily, TypesFork DEF TypesInv
<1>7. CASE ~Fault /\ \E t \in Threads : SearchStep(t)
  BY <1>0, <1>7, TablesFamily, TypesSearch DEF TypesInv
<1>8. CASE ~Fault /\ \E t \in Threads : thread_exit(t) \/ exit_resume(t)
  BY <1>0, <1>8, TablesFamily, TypesFork DEF TypesInv
<1> QED
  BY <1>1, <1>2, <1>3, <1>4, <1>5, <1>6, <1>7, <1>8 DEF Next, SearchStep

LEMMA TypesAlways == Spec => []TypesInv
BY TypesInit, CountAlways, TypesStep, PTL DEF Spec

LEMMA LifeTyped ==
  ASSUME CountInv, TypesInv
  PROVE  LifeTypeOK
<1>1. numthreads \in Nat /\ vn_refs \in Nat
  BY SetsFinite, FS_CardinalityType DEF CountInv
<1> QED
  BY <1>1 DEF LifeTypeOK, CountInv, StagesInv, TypesInv, TablesInv

(* Every variable of the life of threads keeps its type, the structures     *)
(* included that fork, join, detach and exit rewrite, whatever fresh memory *)
(* holds; and no search takes an entry from a table at an index out of it.  *)
THEOREM LifeTypeCorrect == Spec => []LifeTypeOK
BY LifeTyped, CountAlways, TypesAlways, PTL

-----------------------------------------------------------------------------
(* The two invariants together *)

LifeInv == FamilyInv /\ (~panicked => TurnInv)

LEMMA LifeQuiet ==
  ASSUME CountInv, TablesInv, FamilyInv, TurnInv, ~Fault,
         \/ switch_to
         \/ \E t \in Threads : yield(t)
         \/ \E t \in Threads, a \in Addrs : sleep(t, a) \/ sleep_return(t, a)
         \/ \E a \in Addrs : wakeup(a)
  PROVE  FamilyInv' /\ TurnInv'
<1>1. CASE switch_to
  BY <1>1, FamilySwitch, TurnKept DEF CountInv
<1>2. CASE \/ \E t \in Threads : yield(t)
           \/ \E t \in Threads, a \in Addrs : sleep(t, a) \/ sleep_return(t, a)
           \/ \E a \in Addrs : wakeup(a)
  <2>1. UNCHANGED <<struct, joined, newguy, stage, search, hasty>>
    BY <1>2 DEF yield, sleep, sleep_return, wakeup, lifeVars, history
  <2>2. FamilyInv'
    BY <2>1, FamilyStages
  <2>3. TurnInv'
    BY <1>2, TurnKept DEF CountInv
  <2> QED BY <2>2, <2>3
<1> QED BY <1>1, <1>2

LEMMA LifeBusy ==
  ASSUME CountInv, TypesInv, FamilyInv, TurnInv, TypesInv', ~Fault,
         \/ \E t, n \in Threads : thread_fork(t, n)
         \/ \E t \in Threads : fork_enqueue(t) \/ fork_fail(t)
         \/ \E t \in Threads, w \in BOOLEAN : fork_return(t, w)
         \/ \E t \in Threads : SearchStep(t)
         \/ \E t \in Threads : thread_exit(t) \/ exit_resume(t)
  PROVE  FamilyInv' /\ TurnInv'
<1>0. /\ StagesInv /\ TablesInv /\ TablesInv' /\ SearchInv
      /\ ForkInv /\ JoinedInv /\ HastyInv
  BY DEF CountInv, TypesInv, FamilyInv
<1>1. CASE \E t, n \in Threads : thread_fork(t, n)
  BY <1>0, <1>1, FamilyFork, TurnFork
<1>2. CASE \E t \in Threads : fork_enqueue(t) \/ fork_fail(t)
  BY <1>0, <1>2, FamilyEnqueue, FamilyFail, TurnFork
<1>3. CASE \E t \in Threads, w \in BOOLEAN : fork_return(t, w)
  BY <1>0, <1>3, FamilyReturn, TurnFork
<1>4. CASE \E t \in Threads : SearchStep(t)
  BY <1>0, <1>4, FamilySearch, TurnSearch
<1>5. CASE \E t \in Threads : thread_exit(t)
  BY <1>0, <1>5, FamilyExit, TurnExit
<1>6. CASE \E t \in Threads : exit_resume(t)
  BY <1>0, <1>6, FamilyResume, TurnResume, ResumedWasJoined
<1> QED BY <1>1, <1>2, <1>3, <1>4, <1>5, <1>6

\* Nothing runs after a panic.
LEMMA StepsRun == Next => ~panicked
BY DEF Next, switch_to, scheduler, yield, thread_yield, sleep, sleep_return, Resumed, wakeup,
       InterruptsOn, thread_fork, fork_enqueue, fork_fail, fork_return, thread_join,
       thread_detach, FindChild, search_test, search_get, search_read, join_found,
       join_return, detach_found, Found, thread_exit, exit_resume, OnCpu, Running

LEMMA LifeStep == CountInv /\ TypesInv /\ LifeInv /\ TypesInv' /\ [Next]_vars => LifeInv'
<1> SUFFICES ASSUME CountInv, TypesInv, LifeInv, TypesInv', [Next]_vars
             PROVE  LifeInv'
  OBVIOUS
<1>0. TablesInv /\ FamilyInv
  BY DEF TypesInv, LifeInv
<1>1. CASE UNCHANGED lifeVars /\ (UNCHANGED switchVars \/ Fault)
  <2>1. UNCHANGED <<struct, joined, newguy, stage, search, hasty>>
    BY <1>1 DEF lifeVars, history
  <2>2. FamilyInv'
    BY <1>0, <2>1, FamilyStages
  <2>3. CASE Fault
    BY <2>2, <2>3 DEF LifeInv, Fault, thread_panic
  <2>4. CASE UNCHANGED switchVars
    <3>1. UNCHANGED <<curthread, runqueue, sleepers, panicked>>
      BY <2>4 DEF switchVars
    <3>2. \A u \in Threads : Turns(u)' = Turns(u) /\ Due(u)' = Due(u)
      BY <2>1, <3>1, TurnsUnchanged, DueUnchanged
    <3> QED BY <2>1, <2>2, <3>1, <3>2 DEF LifeInv, TurnInv
  <2> QED BY <1>1, <2>3, <2>4
<1>2. CASE Next /\ ~Fault
  <2>1. TurnInv
    BY <1>2, StepsRun DEF LifeInv
  <2>2. FamilyInv' /\ TurnInv'
    BY <1>0, <1>2, <2>1, LifeQuiet, LifeBusy DEF Next, SearchStep
  <2> QED BY <2>2 DEF LifeInv
<1>3. Fault => UNCHANGED lifeVars
  BY DEF Fault
<1> QED BY <1>1, <1>2, <1>3 DEF vars

LEMMA LifeInit == Init => LifeInv
BY FamilyInit, TurnInit DEF LifeInv

LEMMA LifeAlways == Spec => []LifeInv
BY LifeInit, CountAlways, TypesAlways, LifeStep, PTL DEF Spec

LEMMA LifeImplies ==
  ASSUME CountInv, TypesInv, LifeInv
  PROVE  TurnsAccounted /\ ChildrenAlive
<1>1. TurnsAccounted
  BY DueIsAccounted DEF LifeInv, CountInv
<1>2. ChildrenAlive
  BY DEF LifeInv, FamilyInv, ChildrenInv, ChildrenAlive, Living, Awaited, JoinOf, Kids,
         Interruptible
<1> QED BY <1>1, <1>2

(* However threads fork, join, detach, exit, sleep and wake each other, a   *)
(* thread has the turns on the CPU that its life still needs and, once it   *)
(* is dead, none; unless it was hasty.  This for any number of threads and  *)
(* whatever fresh memory holds.                                             *)
THEOREM TurnsCorrect == Spec => []TurnsAccounted
BY LifeAlways, LifeImplies, CountAlways, TypesAlways, PTL

(* No thread has a child that was destroyed, except one that was hasty and  *)
(* the one that a thread_join has just made runnable.                       *)
THEOREM ChildrenCorrect == Spec => []ChildrenAlive
BY LifeAlways, LifeImplies, CountAlways, TypesAlways, PTL

-----------------------------------------------------------------------------
(* Where the kernel stops *)

\* A freed thread that was not hasty has no turn left.
LEMMA FreedIsNowhere ==
  ASSUME TablesInv, TurnInv, NEW c \in Threads, c \notin hasty,
         stage[c] \in {"zombie", "freed"}
  PROVE  c \notin Range(runqueue) /\ c \notin Range(sleepers)
<1>1. Due(c) = 0
  BY DEF Due, Interruptible
<1>2. Turns(c) = 0
  BY <1>1 DEF TurnInv
<1>3. Occurrences(c, runqueue) = 0 /\ Occurrences(c, sleepers) = 0
  BY <1>2, TurnsParts
<1> QED BY <1>3, OccurrencesPositive DEF TablesInv, SwitchTypeOK

\* A freed child of a living thread is the one it joins, unless it was hasty.
LEMMA FreedChild ==
  ASSUME ChildrenInv, NEW t \in Threads, Interruptible(t), NEW c \in Kids(t),
         c \in Freed, c \notin hasty
  PROVE  stage[t] = "joining"
BY DEF ChildrenInv, Living, Awaited, JoinOf, Interruptible, Freed

\* What the loop of thread_exit reads are children and entries of the tables.
LEMMA LoopReadsFacts ==
  ASSUME TablesInv, NEW t \in Threads, NEW c \in LoopReads(t)
  PROVE  \/ c \in Kids(t)
         \/ c \in Range(sleepers) \cup Range(zombies) \cup Range(joinable)
<1> DEFINE n == Len(struct[t].children)
           after == CHOOSE f : Rounds(t, n, f)
<1>1. n \in Nat /\ struct \in [Threads -> Struct]
  BY KidsAreThreads DEF TablesInv
<1>2. Rounds(t, n, after)
  BY <1>1, RoundsExist
<1>3. DetachRounds(t) = after
  BY DEF DetachRounds, Rounds
<1>4. PICK i \in 1..n : c \in RoundReads(after[i - 1], t, i)
  BY <1>3 DEF LoopReads
<1>5. i - 1 \in 0..n
  BY <1>1
<1> DEFINE s == after[i - 1]
<1>6. DetachedFrom(struct, t, s)
  BY <1>1, <1>2, <1>5, RoundsFacts
<1>7. Range(s[t].children) \subseteq Kids(t)
  BY <1>6 DEF DetachedFrom, Kids
<1> HIDE DEF s, after, n
<1>8. \/ c \in Range(s[t].children)
      \/ \E k \in 1..3 : c \in Range(Tables[k])
  BY <1>4 DEF s, RoundReads, DetachReads
<1>9. \A k \in 1..3 :
        Range(Tables[k]) \subseteq Range(sleepers) \cup Range(zombies) \cup Range(joinable)
  BY DEF Tables
<1> QED BY <1>7, <1>8, <1>9

\* The step that stops the kernel, by who takes it.
LEMMA StopCases ==
  ASSUME Next, panicked' = TRUE
  PROVE  /\ Fault
         /\ \/ curthread = NULL /\ runqueue # <<>> /\ stage[Head(runqueue)] \in {"zombie", "freed"}
            \/ \E t \in Threads :
                 /\ curthread = t
                 /\ \/ stage[t] = "forking" /\ newguy[t] \in Freed
                    \/ stage[t] = "active" /\ Range(struct[t].children) \cap Freed # {}
                    \/ stage[t] = "getting"
                    \/ stage[t] = "reading" /\ search[t].guy \in Freed
                    \/ stage[t] \in {"found", "joining"} /\ Child(t) \in Freed
                    \/ stage[t] = "active" /\ t # Boot /\ LoopReads(t) \cap Freed # {}
<1>1. panicked # panicked'
  BY StepsRun
<1>2. CASE switch_to
  BY <1>1, <1>2 DEF switch_to, scheduler
<1>3. CASE \/ \E t \in Threads : yield(t)
           \/ \E t \in Threads, a \in Addrs : sleep(t, a) \/ sleep_return(t, a)
           \/ \E a \in Addrs : wakeup(a)
           \/ \E t, n \in Threads : thread_fork(t, n)
           \/ \E t \in Threads : fork_enqueue(t) \/ fork_fail(t) \/ exit_resume(t)
  BY <1>1, <1>3
  DEF yield, thread_yield, sleep, sleep_return, wakeup, thread_fork, fork_enqueue, fork_fail,
      exit_resume, switchVars
<1>4. ASSUME NEW t \in Threads, NEW w \in BOOLEAN, fork_return(t, w)
      PROVE  Fault /\ curthread = t /\ stage[t] = "forking" /\ newguy[t] \in Freed
  BY <1>1, <1>4 DEF fork_return, OnCpu, Running, switchVars
<1>5. ASSUME NEW t \in Threads, NEW p \in Words, thread_join(t, p) \/ thread_detach(t, p)
      PROVE  /\ Fault /\ curthread = t
             /\ stage[t] = "active" /\ Range(struct[t].children) \cap Freed # {}
  BY <1>1, <1>5 DEF thread_join, thread_detach, FindChild, OnCpu, Running, switchVars
<1>6. ASSUME NEW t \in Threads, search_test(t) PROVE FALSE
  BY <1>1, <1>6 DEF search_test, switchVars
<1>7. ASSUME NEW t \in Threads, search_get(t)
      PROVE  Fault /\ curthread = t /\ stage[t] = "getting"
  BY <1>1, <1>7 DEF search_get, OnCpu, Running, switchVars
<1>8. ASSUME NEW t \in Threads, search_read(t)
      PROVE  Fault /\ curthread = t /\ stage[t] = "reading" /\ search[t].guy \in Freed
  BY <1>1, <1>8 DEF search_read, OnCpu, Running, switchVars
<1>9. ASSUME NEW t \in Threads, join_found(t) \/ join_return(t) \/ detach_found(t)
      PROVE  Fault /\ curthread = t /\ stage[t] \in {"found", "joining"} /\ Child(t) \in Freed
  BY <1>1, <1>9
  DEF join_found, join_return, detach_found, Found, OnCpu, Running, switchVars
<1>10. ASSUME NEW t \in Threads, thread_exit(t)
       PROVE  /\ Fault /\ curthread = t
              /\ stage[t] = "active" /\ t # Boot /\ LoopReads(t) \cap Freed # {}
  BY <1>1, <1>10 DEF thread_exit, OnCpu, Running
<1> QED
  BY <1>2, <1>3, <1>4, <1>5, <1>6, <1>7, <1>8, <1>9, <1>10 DEF Next

LEMMA StopsStep ==
  ASSUME CountInv, TypesInv, LifeInv, StopsInSearches, [Next]_vars
  PROVE  StopsInSearches'
<1>0. /\ StagesInv /\ TablesInv /\ SearchInv /\ panicked \in BOOLEAN
      /\ ChildrenInv /\ ForkInv
  BY DEF CountInv, TypesInv, LifeInv, FamilyInv, TablesInv, SwitchTypeOK
<1>1. CASE UNCHANGED vars
  BY <1>1 DEF StopsInSearches, vars, switchVars, lifeVars, tableVars, history, Child, Freed
<1>2. CASE Next /\ panicked' # TRUE
  BY <1>2 DEF StopsInSearches
<1>3. CASE Next /\ panicked' = TRUE /\ hasty' # {}
  BY <1>3 DEF StopsInSearches
<1>4. CASE Next /\ panicked' = TRUE /\ hasty' = {}
  <2>1. Fault /\ UNCHANGED <<curthread, stage, struct, search, joinable, hasty>>
    BY <1>4, StopCases DEF Fault, lifeVars, tableVars, history
  <2>2. hasty = {} /\ TurnInv
    BY <1>4, <2>1, StepsRun DEF LifeInv
  <2>3. ~(curthread = NULL /\ runqueue # <<>> /\ stage[Head(runqueue)] \in {"zombie", "freed"})
    <3>1. runqueue \in Seq(Threads)
      BY <1>0 DEF TablesInv, SwitchTypeOK
    <3>2. runqueue # <<>> => Head(runqueue) \in Threads /\ Head(runqueue) \in Range(runqueue)
      BY <3>1 DEF Range
    <3> QED BY <1>0, <2>2, <3>2, FreedIsNowhere
  <2>4. PICK t \in Threads :
          /\ curthread = t
          /\ \/ stage[t] = "forking" /\ newguy[t] \in Freed
             \/ stage[t] = "active" /\ Range(struct[t].children) \cap Freed # {}
             \/ stage[t] = "getting"
             \/ stage[t] = "reading" /\ search[t].guy \in Freed
             \/ stage[t] \in {"found", "joining"} /\ Child(t) \in Freed
             \/ stage[t] = "active" /\ t # Boot /\ LoopReads(t) \cap Freed # {}
    BY <1>4, <2>3, StopCases
  <2>5. ~(stage[t] = "forking" /\ newguy[t] \in Freed)
    BY <1>0, <2>2 DEF ForkInv, Awaited, Freed, Interruptible
  <2>6. stage[t] = "active" => Kids(t) \cap Freed = {}
    BY <1>0, <2>2, FreedChild DEF Interruptible
  <2>7. ~(stage[t] = "found" /\ Child(t) \in Freed)
    <3>1. stage[t] = "found" => Child(t) \in Kids(t)
      BY <1>0 DEF SearchInv, Searching, Child, Kids, Range
    <3> QED BY <1>0, <2>2, <3>1, FreedChild DEF Interruptible
  <2>8. stage[t] = "active" /\ LoopReads(t) \cap Freed # {} => Range(joinable) \cap Freed # {}
    <3>1. SUFFICES ASSUME stage[t] = "active", NEW c \in LoopReads(t) \cap Freed
                   PROVE  c \in Range(joinable)
      OBVIOUS
    <3>2. c \in Threads /\ stage[c] = "freed"
      BY DEF Freed
    <3>3. c \notin Range(sleepers) /\ c \notin Range(zombies)
      BY <1>0, <2>2, <3>2, FreedIsNowhere DEF StagesInv
    <3> QED BY <1>0, <2>6, <3>1, <3>3, LoopReadsFacts
  <2>9. /\ curthread = t
        /\ \/ stage[t] = "getting"
           \/ stage[t] = "reading" /\ search[t].guy \in Freed
           \/ stage[t] = "joining" /\ Child(t) \in Freed
           \/ stage[t] = "active" /\ t # Boot /\ Range(joinable) \cap Freed # {}
    BY <2>4, <2>5, <2>6, <2>7, <2>8 DEF Kids
  <2>10. Child(t)' = Child(t) /\ Freed' = Freed
    BY <2>1 DEF Child, Freed
  <2> QED BY <2>1, <2>9, <2>10 DEF StopsInSearches
<1> QED BY <1>1, <1>2, <1>3, <1>4

(* Whatever threads do, the kernel stops only in the searches that           *)
(* thread_join and thread_detach make beyond the children, and where         *)
(* thread_join reads the status of a child that has ended since; unless a    *)
(* thread was hasty.                                                         *)
THEOREM StopsCorrect == Spec => []StopsInSearches
<1>1. Init => StopsInSearches
  BY DEF Init, StopsInSearches
<1> QED
  BY <1>1, StopsStep, LifeAlways, CountAlways, TypesAlways, PTL DEF Spec

=============================================================================
