------------------------- MODULE MatrixThreadsProofs -------------------------
(***************************************************************************)
(* Proofs about MatrixThreads, for any number of threads, any dimensions   *)
(* that it divides, any matrices and all builds: every variable keeps its  *)
(* type, no update is lost, and what main finds after its joins are the    *)
(* products.                                                               *)
(*                                                                         *)
(* The sums of the properties are folds, which are CHOOSEn recursive       *)
(* functions on subsets.  Total is such a sum with its function in view:   *)
(* the lemmas Total... say that it exists, that the order of its additions *)
(* does not matter, and how it splits.  Instead of an induction on sets    *)
(* each takes a smallest subset on which it fails.                         *)
(***************************************************************************)
EXTENDS MatrixThreads, FiniteSetTheorems, WellFoundedInduction, TLAPS

-----------------------------------------------------------------------------
(* The mutex *)

InMutex(t) == pc[t] \in {"load", "store", "unlock"}

\* What a thread has loaded is still in the result when it stores: nobody else
\* stores between the load and the store of the += in the loops.
LoadIsFresh ==
  \A t \in Threads : pc[t] = "store" => register[t] = result[Job(t, done[t]).cell]

\* Inductive: who is between lock and unlock holds the mutex, so there is one
\* such thread at most, and what it has loaded is still there.
MutexInv ==
  /\ pc \in [Threads -> {"none", "lock", "load", "store", "unlock", "exited"}]
  /\ DOMAIN register = Threads
  /\ DOMAIN done = Threads
  /\ \A t \in Threads : InMutex(t) => my_mutex = t
  /\ LoadIsFresh

LEMMA MutexInit == Init => MutexInv
BY DEF Init, MutexInv, InMutex, LoadIsFresh

\* The round a thread is in depends on the program, the matrices and how many
\* rounds it has done, which only its own unlock changes.
LEMMA SameJob ==
  ASSUME UNCHANGED <<input, program>>, NEW t, NEW s
  PROVE  Job(t, s)' = Job(t, s)
BY DEF Job, matvec_DOTPRODUCT, matvec_SAXPY, matvec_matrix_DOTPRODUCT,
       matvec_matrix_SAXPY, VectorTerm, MatrixTerm, VectorRounds, MatrixRounds

LEMMA LoopPc == \A s : Loop(s) \in {"lock", "exited"}
BY DEF Loop

LEMMA MutexStep == MutexInv /\ [Next]_vars => MutexInv'
<1> SUFFICES ASSUME MutexInv, [Next]_vars PROVE MutexInv'
  OBVIOUS
<1> USE DEF MutexInv
<1>0. \A t, s : UNCHANGED <<input, program>> => Job(t, s)' = Job(t, s)
  BY SameJob
<1>1. CASE pthread_create
  <2>1. \A t \in Threads : InMutex(t)' => InMutex(t) /\ pc'[t] = pc[t]
    BY <1>1, LoopPc DEF pthread_create, InMutex
  <2>2. LoadIsFresh'
    BY <1>0, <1>1, <2>1 DEF pthread_create, LoadIsFresh, InMutex
  <2>3. pc' \in [Threads -> {"none", "lock", "load", "store", "unlock", "exited"}]
    BY <1>1, LoopPc DEF pthread_create
  <2> QED BY <1>1, <2>1, <2>2, <2>3 DEF pthread_create, InMutex
<1>2. CASE pthread_join
  BY <1>0, <1>2 DEF pthread_join, InMutex, LoadIsFresh
<1>3. ASSUME NEW t \in Threads, pthread_mutex_lock(t) PROVE MutexInv'
  <2>1. LoadIsFresh'
    BY <1>0, <1>3 DEF pthread_mutex_lock, LoadIsFresh
  <2>2. \A u \in Threads : InMutex(u)' => my_mutex' = u
    <3>1. my_mutex \notin Threads
      BY <1>3 DEF pthread_mutex_lock, Free, Threads
    <3> QED BY <1>3, <3>1 DEF pthread_mutex_lock, InMutex
  <2> QED BY <1>3, <2>1, <2>2 DEF pthread_mutex_lock
<1>4. ASSUME NEW t \in Threads, load(t) PROVE MutexInv'
  <2>1. LoadIsFresh'
    BY <1>0, <1>4 DEF load, LoadIsFresh
  <2> QED BY <1>4, <2>1 DEF load, InMutex
<1>5. ASSUME NEW t \in Threads, store(t) PROVE MutexInv'
  <2>1. \A u \in Threads : pc'[u] # "store"
    BY <1>5 DEF store, InMutex
  <2> QED BY <1>5, <2>1 DEF store, InMutex, LoadIsFresh
<1>6. ASSUME NEW t \in Threads, pthread_mutex_unlock(t) PROVE MutexInv'
  <2>1. \A u \in Threads : ~InMutex(u)'
    BY <1>6, LoopPc DEF pthread_mutex_unlock, InMutex
  <2>2. pc' \in [Threads -> {"none", "lock", "load", "store", "unlock", "exited"}]
    BY <1>6, LoopPc DEF pthread_mutex_unlock
  <2> QED BY <1>6, <2>1, <2>2 DEF pthread_mutex_unlock, InMutex, LoadIsFresh
<1>7. CASE UNCHANGED vars
  BY <1>0, <1>7 DEF vars, InMutex, LoadIsFresh
<1> QED
  BY <1>1, <1>2, <1>3, <1>4, <1>5, <1>6, <1>7 DEF Next, main, Function

-----------------------------------------------------------------------------
(* Sums *)

\* A nonempty set of natural numbers has a least element.
LEMMA LeastNumber ==
  ASSUME NEW T \in SUBSET Nat, T # {}
  PROVE  \E m \in T : \A k \in T : m <= k
<1> DEFINE R == {ss \in Nat \X Nat : ss[1] < ss[2]}
<1>1. IsWellFoundedOn(R, Nat)
  BY NatLessThanWellFounded, Zenon DEF OpToRel
<1>2. PICK m \in T : \A k \in T : ~(<<k, m>> \in R)
  <2> HIDE DEF R
  <2> QED BY <1>1, WFMin
<1>3. ASSUME NEW k \in T PROVE m <= k
  <2>1. k \in Nat /\ m \in Nat
    OBVIOUS
  <2>2. <<k, m>> \in Nat \X Nat /\ <<k, m>>[1] = k /\ <<k, m>>[2] = m
    BY <2>1
  <2>3. ~(k < m)
    BY <1>2, <2>2
  <2> QED BY <2>1, <2>3
<1> QED BY <1>3

\* A set of subsets of a finite set has a smallest one.
LEMMA LeastSubset ==
  ASSUME NEW S, IsFiniteSet(S), NEW Bad \in SUBSET (SUBSET S), Bad # {}
  PROVE  \E b \in Bad : \A u \in Bad : u \subseteq b => u = b
<1> DEFINE T == {Cardinality(u) : u \in Bad}
<1>1. \A u \in SUBSET S : IsFiniteSet(u) /\ Cardinality(u) \in Nat
  BY FS_Subset, FS_CardinalityType
<1>2. T \in SUBSET Nat /\ T # {}
  BY <1>1
<1>3. PICK m \in T : \A k \in T : m <= k
  <2> HIDE DEF T
  <2> QED BY <1>2, LeastNumber
<1>4. PICK b \in Bad : m = Cardinality(b)
  OBVIOUS
<1>5. ASSUME NEW u \in Bad, u \subseteq b PROVE u = b
  <2>1. Cardinality(b) <= Cardinality(u)
    BY <1>3, <1>4
  <2>2. IsFiniteSet(b) /\ Cardinality(u) <= Cardinality(b)
        /\ (Cardinality(b) = Cardinality(u) => b = u)
    BY <1>1, <1>5, FS_Subset
  <2> QED BY <1>1, <2>1, <2>2
<1> QED BY <1>4, <1>5

Pick(s) == CHOOSE x \in s : TRUE

\* f lists the sums of g over the subsets of S.
Totals(g, S, f) ==
  f = [s \in SUBSET S |-> IF s = {} THEN 0 ELSE g[Pick(s)] + f[s \ {Pick(s)}]]

Total(g, S) == (CHOOSE f : Totals(g, S, f))[S]

LEMMA TotalsExist ==
  ASSUME NEW S, IsFiniteSet(S), NEW g
  PROVE  \E f : Totals(g, S, f)
<1> DEFINE Level(n) == {s \in SUBSET S : Cardinality(s) <= n}
           Good(n, f) == f = [s \in Level(n) |->
                                IF s = {} THEN 0 ELSE g[Pick(s)] + f[s \ {Pick(s)}]]
           Bad == {n \in Nat : ~ \E f : Good(n, f)}
<1>0. /\ \A s \in SUBSET S : IsFiniteSet(s) /\ Cardinality(s) \in Nat
                             /\ (Cardinality(s) = 0 <=> s = {})
      /\ Cardinality(S) \in Nat
  BY FS_Subset, FS_CardinalityType, FS_EmptySet
<1>1. \A s \in SUBSET S : s # {} =>
        Pick(s) \in s /\ Cardinality(s \ {Pick(s)}) = Cardinality(s) - 1
  BY <1>0, FS_RemoveElement DEF Pick
<1>2. ASSUME Bad # {} PROVE FALSE
  <2>1. PICK b \in Bad : \A k \in Bad : b <= k
    BY <1>2, LeastNumber
  <2>2. b \in Nat /\ ~ \E f : Good(b, f)
    OBVIOUS
  <2>3. CASE b = 0
    <3> DEFINE f == [s \in Level(0) |-> 0]
               h == [s \in Level(0) |-> IF s = {} THEN 0 ELSE g[Pick(s)] + f[s \ {Pick(s)}]]
    <3>1. \A s \in Level(0) : s = {}
      BY <1>0
    <3>2. \A s \in Level(0) : f[s] = h[s]
      BY <3>1
    <3>3. f = h
      <4> HIDE DEF Level
      <4> QED BY <3>2
    <3>4. Good(0, f)
      BY <3>3
    <3> QED BY <2>2, <2>3, <3>4
  <2>4. CASE b # 0
    <3>1. b - 1 \in Nat /\ b - 1 \notin Bad
      <4> HIDE DEF Bad, Good
      <4> QED BY <2>1, <2>2, <2>4
    <3>2. PICK f : Good(b - 1, f)
      <4> HIDE DEF Good
      <4> QED BY <3>1
    <3> DEFINE e == [s \in Level(b) |-> IF s \in Level(b - 1) THEN f[s]
                                        ELSE g[Pick(s)] + f[s \ {Pick(s)}]]
               h == [s \in Level(b) |-> IF s = {} THEN 0 ELSE g[Pick(s)] + e[s \ {Pick(s)}]]
    <3>3. \A s \in Level(b - 1) : f[s] = IF s = {} THEN 0 ELSE g[Pick(s)] + f[s \ {Pick(s)}]
      <4> HIDE DEF Level
      <4> QED BY <3>2
    <3>4. ASSUME NEW s \in Level(b) PROVE e[s] = h[s]
      <4>1. CASE s = {}
        <5>1. s \in Level(b - 1)
          BY <1>0, <3>1, <4>1
        <5> HIDE DEF Level
        <5> QED BY <3>3, <4>1, <5>1
      <4>2. CASE s # {}
        <5>1. s \ {Pick(s)} \in Level(b - 1) /\ s \ {Pick(s)} \in Level(b)
          BY <1>0, <1>1, <2>2, <4>2
        <5> HIDE DEF Level
        <5>2. e[s \ {Pick(s)}] = f[s \ {Pick(s)}]
          BY <5>1
        <5>3. e[s] = g[Pick(s)] + f[s \ {Pick(s)}]
          BY <3>3, <4>2
        <5> QED BY <4>2, <5>2, <5>3
      <4> QED BY <4>1, <4>2
    <3>5. e = h
      <4> HIDE DEF Level
      <4> QED BY <3>4
    <3>6. Good(b, e)
      BY <3>5
    <3> QED BY <2>2, <3>6
  <2> QED BY <2>3, <2>4
<1>3. PICK f : Good(Cardinality(S), f)
  BY <1>0, <1>2
<1>4. Level(Cardinality(S)) = SUBSET S
  BY FS_Subset
<1> QED BY <1>3, <1>4 DEF Totals

LEMMA TotalsEmpty ==
  ASSUME NEW S, NEW g, NEW f, Totals(g, S, f)
  PROVE  f[{}] = 0
BY DEF Totals

LEMMA TotalsEntry ==
  ASSUME NEW S, NEW g, NEW f, Totals(g, S, f), NEW s \in SUBSET S, s # {}
  PROVE  /\ Pick(s) \in s /\ s \ {Pick(s)} \in SUBSET S /\ s \ {Pick(s)} # s
         /\ f[s] = g[Pick(s)] + f[s \ {Pick(s)}]
<1>1. Pick(s) \in s
  BY DEF Pick
<1> QED BY <1>1 DEF Totals

\* The sums depend on the entries of g alone, and on the order in which they
\* are added they do not.
LEMMA TotalsAgree ==
  ASSUME NEW S, NEW R, IsFiniteSet(S), NEW g, NEW h, NEW f, NEW e,
         Totals(g, S, f), Totals(h, R, e), S \subseteq R, \A x \in S : g[x] = h[x]
  PROVE  \A s \in SUBSET S : f[s] = e[s]
<1> DEFINE Bad == {s \in SUBSET S : f[s] # e[s]}
<1>1. SUFFICES ASSUME Bad # {} PROVE FALSE
  OBVIOUS
<1>2. PICK b \in Bad : \A u \in Bad : u \subseteq b => u = b
  <2>1. Bad \in SUBSET (SUBSET S)
    OBVIOUS
  <2> HIDE DEF Bad
  <2> QED BY <1>1, <2>1, LeastSubset
<1>3. b \in SUBSET S /\ b \in SUBSET R /\ f[b] # e[b]
  OBVIOUS
<1>4. b # {}
  BY <1>3, TotalsEmpty
<1> DEFINE x == Pick(b)
<1>5. /\ x \in b /\ b \ {x} \in SUBSET S /\ b \ {x} # b
      /\ f[b] = g[x] + f[b \ {x}] /\ e[b] = h[x] + e[b \ {x}]
  BY <1>3, <1>4, TotalsEntry
<1> HIDE DEF x
<1>6. b \ {x} \notin Bad
  BY <1>2, <1>5
<1>7. f[b \ {x}] = e[b \ {x}]
  BY <1>5, <1>6
<1> QED BY <1>3, <1>5, <1>7

LEMMA TotalIs ==
  ASSUME NEW S, IsFiniteSet(S), NEW g, NEW f, Totals(g, S, f)
  PROVE  Total(g, S) = f[S]
<1> DEFINE e == CHOOSE e : Totals(g, S, e)
<1>1. Totals(g, S, e)
  OBVIOUS
<1> HIDE DEF e
<1>2. \A s \in SUBSET S : f[s] = e[s]
  BY <1>1, TotalsAgree
<1>3. f[S] = e[S]
  BY <1>2
<1> QED BY <1>3 DEF Total, e

LEMMA TotalSame ==
  ASSUME NEW S, IsFiniteSet(S), NEW g, NEW h, \A x \in S : g[x] = h[x]
  PROVE  Total(g, S) = Total(h, S)
<1>1. PICK f : Totals(g, S, f)
  BY TotalsExist
<1>2. PICK e : Totals(h, S, e)
  BY TotalsExist
<1>3. \A s \in SUBSET S : f[s] = e[s]
  BY <1>1, <1>2, TotalsAgree
<1>4. f[S] = e[S]
  BY <1>3
<1> QED BY <1>1, <1>2, <1>4, TotalIs

LEMMA TotalsNat ==
  ASSUME NEW S, IsFiniteSet(S), NEW g, \A x \in S : g[x] \in Nat, NEW f, Totals(g, S, f)
  PROVE  \A s \in SUBSET S : f[s] \in Nat
<1> DEFINE Bad == {s \in SUBSET S : f[s] \notin Nat}
<1>1. SUFFICES ASSUME Bad # {} PROVE FALSE
  OBVIOUS
<1>2. PICK b \in Bad : \A u \in Bad : u \subseteq b => u = b
  <2>1. Bad \in SUBSET (SUBSET S)
    OBVIOUS
  <2> HIDE DEF Bad
  <2> QED BY <1>1, <2>1, LeastSubset
<1>3. b \in SUBSET S /\ f[b] \notin Nat
  OBVIOUS
<1>4. b # {}
  <2> SUFFICES ASSUME b = {} PROVE FALSE
    OBVIOUS
  <2>1. f[b] = 0
    BY TotalsEmpty
  <2> QED BY <1>3, <2>1
<1> DEFINE x == Pick(b)
<1>5. /\ x \in b /\ b \ {x} \in SUBSET S /\ b \ {x} # b /\ f[b] = g[x] + f[b \ {x}]
  BY <1>3, <1>4, TotalsEntry
<1> HIDE DEF x
<1>6. f[b \ {x}] \in Nat
  BY <1>2, <1>5
<1>7. g[x] \in Nat
  BY <1>3, <1>5
<1> QED BY <1>3, <1>5, <1>6, <1>7

\* Any element may be taken out of a sum first.
LEMMA TotalsTake ==
  ASSUME NEW S, IsFiniteSet(S), NEW g, \A x \in S : g[x] \in Nat, NEW f, Totals(g, S, f),
         NEW y \in S
  PROVE  f[S] = g[y] + f[S \ {y}]
<1> DEFINE Bad == {s \in SUBSET S : \E z \in s : f[s] # g[z] + f[s \ {z}]}
<1>1. SUFFICES ASSUME Bad # {} PROVE FALSE
  <2>1. S \in SUBSET S
    OBVIOUS
  <2> QED BY <2>1
<1>2. PICK b \in Bad : \A u \in Bad : u \subseteq b => u = b
  <2>1. Bad \in SUBSET (SUBSET S)
    OBVIOUS
  <2> HIDE DEF Bad
  <2> QED BY <1>1, <2>1, LeastSubset
<1>3. b \in SUBSET S
  OBVIOUS
<1>4. PICK z \in b : f[b] # g[z] + f[b \ {z}]
  OBVIOUS
<1> DEFINE x == Pick(b)
<1>5. /\ x \in b /\ b \ {x} \in SUBSET S /\ b \ {x} # b /\ f[b] = g[x] + f[b \ {x}]
  <2>1. b # {}
    BY <1>4
  <2> QED BY <1>3, <2>1, TotalsEntry
<1> HIDE DEF x
<1>6. x # z
  BY <1>4, <1>5
<1>7. /\ b \ {x} \notin Bad /\ z \in b \ {x}
      /\ b \ {z} \notin Bad /\ x \in b \ {z} /\ b \ {z} \in SUBSET S
  BY <1>2, <1>3, <1>4, <1>5, <1>6
<1>8. /\ f[b \ {x}] = g[z] + f[(b \ {x}) \ {z}]
      /\ f[b \ {z}] = g[x] + f[(b \ {z}) \ {x}]
  BY <1>5, <1>7
<1>9. (b \ {x}) \ {z} = (b \ {z}) \ {x} /\ (b \ {x}) \ {z} \in SUBSET S
  BY <1>3
<1> DEFINE r == f[(b \ {x}) \ {z}]
<1>10. r \in Nat /\ g[x] \in Nat /\ g[z] \in Nat
  BY <1>3, <1>4, <1>5, <1>9, TotalsNat
<1>11. f[b] = g[x] + (g[z] + r) /\ f[b \ {z}] = g[x] + r
  BY <1>5, <1>8, <1>9
<1> HIDE DEF r
<1> QED BY <1>4, <1>10, <1>11

LEMMA TotalFacts ==
  ASSUME NEW S, IsFiniteSet(S), NEW g, \A x \in S : g[x] \in Nat
  PROVE  /\ Total(g, S) \in Nat
         /\ S = {} => Total(g, S) = 0
         /\ \A y \in S : Total(g, S) = g[y] + Total(g, S \ {y})
<1>1. PICK f : Totals(g, S, f)
  BY TotalsExist
<1>2. Total(g, S) = f[S]
  BY <1>1, TotalIs
<1>3. f[S] \in Nat /\ (S = {} => f[S] = 0) /\ \A y \in S : f[S] = g[y] + f[S \ {y}]
  <2>1. S \in SUBSET S
    OBVIOUS
  <2>2. \A s \in SUBSET S : f[s] \in Nat
    BY <1>1, TotalsNat
  <2>3. \A y \in S : f[S] = g[y] + f[S \ {y}]
    BY <1>1, TotalsTake
  <2>4. f[{}] = 0
    BY <1>1, TotalsEmpty
  <2> QED BY <2>1, <2>2, <2>3, <2>4
<1>4. ASSUME NEW y \in S PROVE Total(g, S \ {y}) = f[S \ {y}]
  <2>1. IsFiniteSet(S \ {y})
    BY FS_RemoveElement
  <2>2. PICK e : Totals(g, S \ {y}, e)
    BY <2>1, TotalsExist
  <2>3. S \ {y} \subseteq S /\ S \ {y} \in SUBSET (S \ {y})
    OBVIOUS
  <2>4. \A u \in SUBSET (S \ {y}) : e[u] = f[u]
    <3> DEFINE R == S \ {y}
    <3>1. R \subseteq S /\ IsFiniteSet(R) /\ Totals(g, R, e)
      BY <2>1, <2>2
    <3> HIDE DEF R
    <3>2. \A u \in SUBSET R : e[u] = f[u]
      BY <1>1, <3>1, TotalsAgree
    <3> QED BY <3>2 DEF R
  <2> QED BY <2>1, <2>2, <2>3, <2>4, TotalIs
<1> QED BY <1>2, <1>3, <1>4

LEMMA TotalChange ==
  ASSUME NEW S, IsFiniteSet(S), NEW g, NEW h, \A x \in S : g[x] \in Nat /\ h[x] \in Nat,
         NEW y \in S, \A x \in S : x # y => g[x] = h[x]
  PROVE  Total(h, S) = Total(g, S) + (h[y] - g[y])
<1>1. IsFiniteSet(S \ {y})
  BY FS_RemoveElement
<1>2. Total(g, S \ {y}) = Total(h, S \ {y}) /\ Total(g, S \ {y}) \in Nat
  BY <1>1, TotalSame, TotalFacts
<1>3. Total(g, S) = g[y] + Total(g, S \ {y}) /\ Total(h, S) = h[y] + Total(h, S \ {y})
  BY TotalFacts
<1> QED BY <1>2, <1>3

LEMMA TotalZero ==
  ASSUME NEW S, IsFiniteSet(S), NEW g, \A x \in S : g[x] = 0
  PROVE  Total(g, S) = 0
<1> DEFINE Bad == {s \in SUBSET S : Total(g, s) # 0}
<1>1. SUFFICES ASSUME Bad # {} PROVE FALSE
  <2>1. S \in SUBSET S
    OBVIOUS
  <2> QED BY <2>1
<1>2. PICK b \in Bad : \A u \in Bad : u \subseteq b => u = b
  <2>1. Bad \in SUBSET (SUBSET S)
    OBVIOUS
  <2> HIDE DEF Bad
  <2> QED BY <1>1, <2>1, LeastSubset
<1>3. b \in SUBSET S /\ Total(g, b) # 0
  OBVIOUS
<1>4. IsFiniteSet(b) /\ \A x \in b : g[x] \in Nat
  BY <1>3, FS_Subset
<1>5. PICK y \in b : TRUE
  BY <1>3, <1>4, TotalFacts
<1>6. b \ {y} \in SUBSET S /\ b \ {y} # b /\ g[y] = 0
  BY <1>3, <1>5
<1>7. Total(g, b \ {y}) = 0
  BY <1>2, <1>6
<1>8. Total(g, b) = g[y] + Total(g, b \ {y})
  BY <1>4, TotalFacts
<1> QED BY <1>3, <1>6, <1>7, <1>8

\* The sum over the elements that f brings to those of another set.
LEMMA TotalMove ==
  ASSUME NEW S, IsFiniteSet(S), NEW R, NEW f \in [S -> R],
         \A x, y \in S : f[x] = f[y] => x = y, \A z \in R : \E x \in S : f[x] = z,
         NEW g, NEW h, \A x \in S : g[x] \in Nat /\ g[x] = h[f[x]]
  PROVE  Total(g, S) = Total(h, R)
<1> DEFINE Image(s) == {f[x] : x \in s}
           Bad == {s \in SUBSET S : Total(g, s) # Total(h, Image(s))}
<1>1. Image(S) = R
  OBVIOUS
<1>2. SUFFICES ASSUME Bad # {} PROVE FALSE
  <2>1. S \in SUBSET S
    OBVIOUS
  <2> HIDE DEF Image
  <2>2. Total(g, S) = Total(h, Image(S))
    BY <2>1
  <2> QED BY <1>1, <2>2
<1>3. PICK b \in Bad : \A u \in Bad : u \subseteq b => u = b
  <2>1. Bad \in SUBSET (SUBSET S)
    OBVIOUS
  <2> HIDE DEF Bad
  <2> QED BY <1>2, <2>1, LeastSubset
<1>4. b \in SUBSET S /\ Total(g, b) # Total(h, Image(b))
  <2> HIDE DEF Image
  <2> QED OBVIOUS
<1>5. IsFiniteSet(b) /\ \A x \in b : g[x] \in Nat
  BY <1>4, FS_Subset
<1>6. IsFiniteSet(Image(b)) /\ \A z \in Image(b) : h[z] \in Nat
  <2>1. IsFiniteSet(Image(b))
    <3>1. [x \in b |-> f[x]] \in Surjection(b, Image(b))
      BY DEF Surjection
    <3> QED BY <1>5, <3>1, FS_Surjection
  <2>2. \A z \in Image(b) : h[z] \in Nat
    BY <1>4
  <2> QED BY <2>1, <2>2
<1>7. PICK y \in b : TRUE
  <2>1. CASE b = {}
    <3>1. Image(b) = {}
      BY <2>1
    <3>2. Total(g, b) = 0 /\ Total(h, Image(b)) = 0
      <4> HIDE DEF Image
      <4> QED BY <1>5, <1>6, <2>1, <3>1, TotalFacts
    <3> QED BY <1>4, <3>2
  <2> QED BY <2>1
<1>8. /\ b \ {y} \in SUBSET S /\ b \ {y} # b /\ b \ {y} \subseteq b
      /\ f[y] \in Image(b) /\ g[y] = h[f[y]]
  BY <1>4, <1>7
<1>9. Image(b \ {y}) = Image(b) \ {f[y]}
  BY <1>4, <1>7
<1> HIDE DEF Image
<1>10. Total(g, b \ {y}) = Total(h, Image(b \ {y}))
  BY <1>3, <1>8
<1>11. /\ Total(g, b) = g[y] + Total(g, b \ {y})
       /\ Total(h, Image(b)) = h[f[y]] + Total(h, Image(b) \ {f[y]})
  BY <1>5, <1>6, <1>7, <1>8, TotalFacts
<1> QED BY <1>4, <1>8, <1>9, <1>10, <1>11

LEMMA TotalUnion ==
  ASSUME NEW R, IsFiniteSet(R), NEW A \in SUBSET R, NEW B \in SUBSET R, A \cap B = {},
         NEW g, \A x \in R : g[x] \in Nat
  PROVE  Total(g, A \cup B) = Total(g, A) + Total(g, B)
<1> DEFINE Bad == {s \in SUBSET B : Total(g, A \cup s) # Total(g, A) + Total(g, s)}
<1>0. \A s \in SUBSET R : /\ IsFiniteSet(s) /\ Total(g, s) \in Nat
                          /\ s = {} => Total(g, s) = 0
                          /\ \A y \in s : Total(g, s) = g[y] + Total(g, s \ {y})
  <2> SUFFICES ASSUME NEW s \in SUBSET R
               PROVE  /\ IsFiniteSet(s) /\ Total(g, s) \in Nat
                      /\ s = {} => Total(g, s) = 0
                      /\ \A y \in s : Total(g, s) = g[y] + Total(g, s \ {y})
    OBVIOUS
  <2>1. IsFiniteSet(s) /\ \A x \in s : g[x] \in Nat
    BY FS_Subset
  <2> QED BY <2>1, TotalFacts
<1>1. SUFFICES ASSUME Bad # {} PROVE FALSE
  <2>1. B \in SUBSET B
    OBVIOUS
  <2> QED BY <2>1
<1>2. PICK b \in Bad : \A u \in Bad : u \subseteq b => u = b
  <2>1. Bad \in SUBSET (SUBSET B) /\ IsFiniteSet(B)
    BY <1>0
  <2> HIDE DEF Bad
  <2> QED BY <1>1, <2>1, LeastSubset
<1>3. /\ b \in SUBSET B /\ Total(g, A \cup b) # Total(g, A) + Total(g, b)
      /\ b \in SUBSET R /\ A \cup b \in SUBSET R
  OBVIOUS
<1>4. b # {}
  <2> SUFFICES ASSUME b = {} PROVE FALSE
    OBVIOUS
  <2>1. A \cup b = A
    OBVIOUS
  <2>2. Total(g, b) = 0 /\ Total(g, A) \in Nat
    BY <1>0, <1>3
  <2> QED BY <1>3, <2>1, <2>2
<1>5. PICK y \in b : TRUE
  BY <1>4
<1>6. /\ b \ {y} \in SUBSET B /\ b \ {y} # b /\ b \ {y} \subseteq b /\ b \ {y} \in SUBSET R
      /\ (A \cup b) \ {y} = A \cup (b \ {y}) /\ g[y] \in Nat
  BY <1>3, <1>5
<1>7. Total(g, A \cup (b \ {y})) = Total(g, A) + Total(g, b \ {y})
  BY <1>2, <1>6
<1>8. /\ Total(g, A \cup b) = g[y] + Total(g, A \cup (b \ {y}))
      /\ Total(g, b) = g[y] + Total(g, b \ {y})
      /\ Total(g, A) \in Nat /\ Total(g, b \ {y}) \in Nat
  <2>1. y \in A \cup b
    BY <1>5
  <2>2. Total(g, A \cup b) = g[y] + Total(g, (A \cup b) \ {y})
    BY <1>0, <1>3, <2>1
  <2>3. Total(g, b) = g[y] + Total(g, b \ {y})
    BY <1>0, <1>3, <1>5
  <2>4. Total(g, A) \in Nat /\ Total(g, b \ {y}) \in Nat
    BY <1>0, <1>6
  <2> QED BY <1>6, <2>2, <2>3, <2>4
<1> QED BY <1>3, <1>6, <1>7, <1>8

\* A sum is that of the sums of its disjoint parts.
LEMMA TotalParts ==
  ASSUME NEW S, IsFiniteSet(S), NEW R, IsFiniteSet(R), NEW P \in [S -> SUBSET R],
         \A x, y \in S : x # y => P[x] \cap P[y] = {}, \A z \in R : \E x \in S : z \in P[x],
         NEW g, \A z \in R : g[z] \in Nat,
         NEW h, \A x \in S : h[x] = Total(g, P[x])
  PROVE  Total(h, S) = Total(g, R)
<1> DEFINE All(s) == UNION {P[x] : x \in s}
           Bad == {s \in SUBSET S : Total(h, s) # Total(g, All(s))}
<1>0. /\ All(S) = R /\ All({}) = {}
      /\ \A s \in SUBSET S : All(s) \in SUBSET R
  OBVIOUS
<1>1. \A s \in SUBSET R : IsFiniteSet(s) /\ Total(g, s) \in Nat
  <2> SUFFICES ASSUME NEW s \in SUBSET R PROVE IsFiniteSet(s) /\ Total(g, s) \in Nat
    OBVIOUS
  <2>1. IsFiniteSet(s) /\ \A x \in s : g[x] \in Nat
    BY FS_Subset
  <2> QED BY <2>1, TotalFacts
<1>2. SUFFICES ASSUME Bad # {} PROVE FALSE
  <2>1. S \in SUBSET S
    OBVIOUS
  <2> HIDE DEF All
  <2>2. Total(h, S) = Total(g, All(S))
    BY <2>1
  <2> QED BY <1>0, <2>2
<1>3. PICK b \in Bad : \A u \in Bad : u \subseteq b => u = b
  <2>1. Bad \in SUBSET (SUBSET S)
    OBVIOUS
  <2> HIDE DEF Bad
  <2> QED BY <1>2, <2>1, LeastSubset
<1>4. b \in SUBSET S /\ Total(h, b) # Total(g, All(b))
  <2> HIDE DEF All
  <2> QED OBVIOUS
<1>5. IsFiniteSet(b) /\ \A x \in b : h[x] = Total(g, P[x]) /\ h[x] \in Nat
  <2>1. IsFiniteSet(b)
    BY <1>4, FS_Subset
  <2>2. \A x \in b : P[x] \in SUBSET R
    BY <1>4
  <2> QED BY <1>1, <1>4, <2>1, <2>2
<1>6. PICK y \in b : TRUE
  <2>1. CASE b = {}
    <3>1. All(b) = {} /\ IsFiniteSet({}) /\ \A z \in {} : g[z] \in Nat
      BY <1>0, <2>1, FS_EmptySet
    <3>2. Total(h, b) = 0 /\ Total(g, All(b)) = 0
      <4> HIDE DEF All
      <4> QED BY <1>5, <2>1, <3>1, TotalFacts
    <3> QED BY <1>4, <3>2
  <2> QED BY <2>1
<1> DEFINE c == b \ {y}
<1>7. /\ c \in SUBSET S /\ c # b /\ c \subseteq b
      /\ P[y] \in SUBSET R /\ h[y] = Total(g, P[y])
  BY <1>4, <1>6
<1>8. All(b) = P[y] \cup All(c) /\ P[y] \cap All(c) = {} /\ All(c) \in SUBSET R
  <2>1. All(b) = P[y] \cup All(c)
    BY <1>6
  <2>2. \A x \in c : P[y] \cap P[x] = {}
    BY <1>4, <1>6
  <2>3. P[y] \cap All(c) = {}
    BY <2>2
  <2> QED BY <1>0, <1>7, <2>1, <2>3
<1>9. Total(h, b) = h[y] + Total(h, c)
  BY <1>5, <1>6, TotalFacts
<1> HIDE DEF All, c
<1>10. Total(h, c) = Total(g, All(c))
  BY <1>3, <1>7
<1>11. Total(g, All(b)) = Total(g, P[y]) + Total(g, All(c))
  BY <1>7, <1>8, TotalUnion
<1> QED BY <1>4, <1>7, <1>9, <1>10, <1>11

\* The term that round s of thread t adds to cell c.
Terms(t, S) == [s \in S |-> Job(t, s).term]

\* The sum of NoLostUpdate over the rounds of a thread.
LEMMA InnerSum ==
  ASSUME NEW t, NEW S, IsFiniteSet(S)
  PROVE  MapThenSumSet(LAMBDA s : Job(t, s).term, S) = Total(Terms(t, S), S)
<1> DEFINE it(f) == f = [s \in SUBSET S |->
                      IF s = {} THEN 0 ELSE Job(t, Pick(s)).term + f[s \ {Pick(s)}]]
           iter == CHOOSE f : it(f)
<1>1. MapThenSumSet(LAMBDA s : Job(t, s).term, S) = iter[S]
  BY DEF MapThenSumSet, MapThenFoldSet, Pick
<1>2. ASSUME NEW f PROVE it(f) <=> Totals(Terms(t, S), S, f)
  <2> DEFINE a == [s \in SUBSET S |->
                      IF s = {} THEN 0 ELSE Job(t, Pick(s)).term + f[s \ {Pick(s)}]]
             b == [s \in SUBSET S |->
                      IF s = {} THEN 0 ELSE Terms(t, S)[Pick(s)] + f[s \ {Pick(s)}]]
  <2>1. \A s \in SUBSET S : s # {} => Pick(s) \in S
    BY DEF Pick
  <2>2. \A s \in SUBSET S : s # {} => Terms(t, S)[Pick(s)] = Job(t, Pick(s)).term
    BY <2>1 DEF Terms
  <2>3. \A s \in SUBSET S : a[s] = b[s]
    BY <2>2
  <2>4. a = b
    BY <2>3
  <2> QED BY <2>4 DEF Totals
<1>3. PICK f : Totals(Terms(t, S), S, f)
  BY TotalsExist
<1>4. it(iter)
  <2>1. it(f)
    BY <1>2, <1>3
  <2> HIDE DEF it
  <2> QED BY <2>1
<1> HIDE DEF it, iter
<1>5. Totals(Terms(t, S), S, iter)
  BY <1>2, <1>4
<1> QED BY <1>1, <1>5, TotalIs

-----------------------------------------------------------------------------
(* Quotients and remainders *)

LEMMA Grows ==
  ASSUME NEW b \in Nat, NEW x \in Int, NEW y \in Int, x <= y
  PROVE  x * b <= y * b
BY SMT

LEMMA DivMod ==
  ASSUME NEW a \in Nat, NEW b \in Nat \ {0}
  PROVE  /\ a \div b \in Nat /\ a % b \in 0..b-1
         /\ a = (a \div b) * b + (a % b)
BY SMT

LEMMA DivUnique ==
  ASSUME NEW b \in Nat \ {0}, NEW q \in Nat, NEW r \in 0..b-1
  PROVE  /\ (q * b + r) \div b = q
         /\ (q * b + r) % b = r
<1> DEFINE a == q * b + r
<1>1. a \in Nat
  BY SMT
<1>2. /\ a \div b \in Nat /\ a % b \in 0..b-1
      /\ a = (a \div b) * b + (a % b)
  BY <1>1, DivMod
<1> DEFINE x == a \div b
           y == a % b
<1>3. x \in Nat /\ y \in 0..b-1 /\ q * b + r = x * b + y
  BY <1>2
<1> HIDE DEF x, y
<1>4. ~(x < q)
  <2>1. SUFFICES ASSUME x + 1 <= q PROVE FALSE
    BY <1>3
  <2>2. (x + 1) * b <= q * b
    BY <2>1, <1>3, Grows
  <2>3. (x + 1) * b = x * b + b
    BY <1>3
  <2>4. x * b \in Int /\ q * b \in Int
    BY <1>3
  <2> QED BY <1>3, <2>2, <2>3, <2>4
<1>5. ~(q < x)
  <2>1. SUFFICES ASSUME q + 1 <= x PROVE FALSE
    BY <1>3
  <2>2. (q + 1) * b <= x * b
    BY <2>1, <1>3, Grows
  <2>3. (q + 1) * b = q * b + b
    BY <1>3
  <2>4. x * b \in Int /\ q * b \in Int
    BY <1>3
  <2> QED BY <1>3, <2>2, <2>3, <2>4
<1>6. x = q /\ y = r
  <2>1. x = q
    BY <1>3, <1>4, <1>5
  <2>2. x * b \in Int
    BY <1>3
  <2> QED BY <1>3, <2>1, <2>2
<1> QED BY <1>6 DEF x, y

LEMMA DivBound ==
  ASSUME NEW a \in Nat, NEW b \in Nat \ {0}, NEW q \in Nat, a < q * b
  PROVE  a \div b \in 0..q-1
<1> DEFINE x == a \div b
           y == a % b
<1>1. x \in Nat /\ y \in 0..b-1 /\ a = x * b + y
  BY DivMod
<1> HIDE DEF x, y
<1>2. ~(q <= x)
  <2>1. SUFFICES ASSUME q <= x PROVE FALSE
    OBVIOUS
  <2>2. q * b <= x * b
    BY <1>1, <2>1, Grows
  <2>3. x * b \in Int /\ q * b \in Int
    BY <1>1
  <2> QED BY <1>1, <2>2, <2>3
<1>3. a \div b \in Nat
  BY DivMod
<1> QED BY <1>1, <1>2, <1>3 DEF x

LEMMA BlockFacts ==
  /\ Block(N) \in Nat \ {0} /\ N = THREAD_COUNT * Block(N)
  /\ Block(K) \in Nat /\ K = THREAD_COUNT * Block(K)
<1> DEFINE T == THREAD_COUNT
<1>1. /\ T \in Nat \ {0} /\ N \in Nat \ {0} /\ K \in Nat /\ N % T = 0 /\ K % T = 0
  BY MatrixAssumption
<1>2. Block(N) \in Nat /\ N = Block(N) * T + (N % T)
  BY <1>1, DivMod DEF Block
<1>3. Block(K) \in Nat /\ K = Block(K) * T + (K % T)
  BY <1>1, DivMod DEF Block
<1> HIDE DEF T
<1>4. N = Block(N) * T /\ K = Block(K) * T
  BY <1>1, <1>2, <1>3
<1>5. Block(N) # 0
  BY <1>1, <1>4
<1>6. Block(N) * T = T * Block(N) /\ Block(K) * T = T * Block(K)
  BY <1>1, <1>2, <1>3
<1> QED BY <1>2, <1>3, <1>4, <1>5, <1>6 DEF T

\* The columns of thread me.
LEMMA ColumnBound ==
  ASSUME NEW b \in Nat, NEW me \in Threads, NEW j \in 0..b-1
  PROVE  j + me * b \in 0..THREAD_COUNT * b - 1
<1>1. me \in Nat /\ THREAD_COUNT \in Nat /\ me + 1 <= THREAD_COUNT
  BY MatrixAssumption DEF Threads
<1>2. (me + 1) * b <= THREAD_COUNT * b
  BY <1>1, Grows
<1>3. (me + 1) * b = me * b + b
  BY <1>1
<1>4. me * b \in Nat
  BY <1>1
<1>5. THREAD_COUNT * b \in Nat
  BY <1>1
<1> QED BY <1>2, <1>3, <1>4, <1>5

\* A number below q * p is a pair of digits.
LEMMA Pairs ==
  ASSUME NEW p \in Nat \ {0}, NEW q \in Nat
  PROVE  /\ \A s \in 0..q*p-1 :
              /\ s \div p \in 0..q-1 /\ s % p \in 0..p-1
              /\ s = (s \div p) * p + (s % p)
         /\ \A i \in 0..q-1, j \in 0..p-1 :
              /\ i * p + j \in 0..q*p-1
              /\ (i * p + j) \div p = i /\ (i * p + j) % p = j
<1>0. q * p \in Nat
  OBVIOUS
<1>1. ASSUME NEW s \in 0..q*p-1
      PROVE  /\ s \div p \in 0..q-1 /\ s % p \in 0..p-1
             /\ s = (s \div p) * p + (s % p)
  <2>1. s \in Nat /\ s < q * p
    BY <1>0
  <2> QED BY <2>1, DivMod, DivBound
<1>2. ASSUME NEW i \in 0..q-1, NEW j \in 0..p-1
      PROVE  /\ i * p + j \in 0..q*p-1
             /\ (i * p + j) \div p = i /\ (i * p + j) % p = j
  <2>1. i \in Nat /\ i + 1 <= q
    OBVIOUS
  <2>2. (i + 1) * p <= q * p
    BY <2>1, Grows
  <2>3. (i + 1) * p = i * p + p
    BY <2>1
  <2>4. i * p \in Nat
    BY <2>1
  <2>5. i * p + j \in 0..q*p-1
    BY <1>0, <2>2, <2>3, <2>4
  <2> QED BY <2>1, <2>5, DivUnique
<1> QED BY <1>1, <1>2

LEMMA Regroup ==
  ASSUME NEW p \in Int, NEW m \in Int, NEW x \in Int, NEW y \in Int, NEW z \in Int
  PROVE  x * (m * p) + (y * p + z) = (x * m + y) * p + z
BY SMT

LEMMA Products ==
  ASSUME NEW p \in Nat \ {0}, NEW m \in Nat \ {0}, NEW q \in Nat
  PROVE  /\ m * p \in Nat \ {0} /\ q * (m * p) \in Nat /\ q * m \in Nat
         /\ q * (m * p) = (q * m) * p
<1>1. m * p >= 1 * p
  BY Grows
<1>2. m * p \in Nat /\ q * m \in Nat
  OBVIOUS
<1>3. q * (m * p) \in Nat
  BY <1>2
<1>4. q * (m * p) = (q * m) * p
  BY SMT
<1> QED BY <1>1, <1>2, <1>3, <1>4

\* A number below q * (m * p) is three digits.
LEMMA TripleTo ==
  ASSUME NEW p \in Nat \ {0}, NEW m \in Nat \ {0}, NEW q \in Nat,
         NEW x \in 0..q-1, NEW y \in 0..m-1, NEW z \in 0..p-1
  PROVE  /\ x * (m * p) + (y * p + z) \in 0..q*(m*p)-1
         /\ (x * (m * p) + (y * p + z)) \div (m * p) = x
         /\ ((x * (m * p) + (y * p + z)) \div p) % m = y
         /\ (x * (m * p) + (y * p + z)) % p = z
<1>1. y * p + z \in 0..m*p-1
  BY Pairs
<1>2. /\ x * (m * p) + (y * p + z) \in 0..q*(m*p)-1
      /\ (x * (m * p) + (y * p + z)) \div (m * p) = x
  BY Products, <1>1, Pairs
<1>3. x * m + y \in 0..q*m-1 /\ (x * m + y) % m = y
  BY Pairs
<1>4. x * (m * p) + (y * p + z) = (x * m + y) * p + z
  BY Regroup
<1> DEFINE u == x * m + y
           s == x * (m * p) + (y * p + z)
<1>5. u \in 0..(q*m)-1 /\ s = u * p + z /\ u % m = y
  BY <1>3, <1>4
<1>6. q * m \in Nat
  BY Products
<1>7. (u * p + z) \div p = u /\ (u * p + z) % p = z
  <2> HIDE DEF u, s
  <2> QED BY <1>5, <1>6, Pairs
<1>8. s \div p = u /\ s % p = z
  <2> HIDE DEF u, s
  <2> QED BY <1>5, <1>7
<1>9. (s \div p) % m = y
  <2> HIDE DEF u, s
  <2> QED BY <1>5, <1>8
<1> QED BY <1>2, <1>8, <1>9

LEMMA TripleOf ==
  ASSUME NEW p \in Nat \ {0}, NEW m \in Nat \ {0}, NEW q \in Nat, NEW s \in 0..q*(m*p)-1
  PROVE  /\ s \div (m * p) \in 0..q-1 /\ (s \div p) % m \in 0..m-1 /\ s % p \in 0..p-1
         /\ s = (s \div (m * p)) * (m * p) + (((s \div p) % m) * p + (s % p))
<1>0. q * m \in Nat /\ s \in 0..(q*m)*p-1
  BY Products
<1>1. /\ s \div p \in 0..(q*m)-1 /\ s % p \in 0..p-1
      /\ s = (s \div p) * p + (s % p)
  BY <1>0, Pairs
<1> DEFINE u == s \div p
           z == s % p
<1>2. u \in 0..q*m-1 /\ z \in 0..p-1 /\ s = u * p + z
  BY <1>1
<1> HIDE DEF u, z
<1>3. u \div m \in 0..q-1 /\ u % m \in 0..m-1 /\ u = (u \div m) * m + (u % m)
  BY <1>2, Pairs
<1> DEFINE x == u \div m
           y == u % m
<1>4. x \in 0..q-1 /\ y \in 0..m-1 /\ u = x * m + y
  BY <1>3
<1> HIDE DEF x, y
<1>5. x * (m * p) + (y * p + z) = (x * m + y) * p + z
  BY Regroup, <1>2, <1>4
<1>6. s = x * (m * p) + (y * p + z)
  BY <1>2, <1>4, <1>5
<1>7. s \div (m * p) = x
  BY TripleTo, <1>2, <1>4, <1>6
<1> QED BY <1>2, <1>4, <1>6, <1>7 DEF u, z, x, y

-----------------------------------------------------------------------------
(* Rounds: the row and column of a round of the vector product, the row,    *)
(* inner index and column of one of the matrix product, and back            *)

VRow(s) == IF program.vector = "DOTPRODUCT" THEN s \div Block(N) ELSE s % M
VCol(s) == IF program.vector = "DOTPRODUCT" THEN s % Block(N) ELSE s \div M
VRound(i, j) == IF program.vector = "DOTPRODUCT" THEN i * Block(N) + j ELSE j * M + i

MRow(s) == IF program.matrix = "DOTPRODUCT" THEN s \div (N * Block(K)) ELSE s % M
MIn(s)  == IF program.matrix = "DOTPRODUCT" THEN (s \div Block(K)) % N ELSE (s \div M) % N
MCol(s) == IF program.matrix = "DOTPRODUCT" THEN s % Block(K) ELSE s \div (M * N)
MRound(i, j, k) ==
  IF program.matrix = "DOTPRODUCT" THEN i * (N * Block(K)) + (j * Block(K) + k)
                                   ELSE k * (N * M) + (j * M + i)

LEMMA VectorDigits ==
  /\ \A s \in 0..M*Block(N)-1 :
       VRow(s) \in 0..M-1 /\ VCol(s) \in 0..Block(N)-1 /\ s = VRound(VRow(s), VCol(s))
  /\ \A i \in 0..M-1, j \in 0..Block(N)-1 :
       /\ VRound(i, j) \in 0..M*Block(N)-1
       /\ VRow(VRound(i, j)) = i /\ VCol(VRound(i, j)) = j
<1> DEFINE b == Block(N)
<1>0. b \in Nat \ {0} /\ M \in Nat \ {0} /\ M * b = b * M
  <2>1. b \in Nat \ {0} /\ M \in Nat \ {0}
    BY BlockFacts, MatrixAssumption
  <2> HIDE DEF b
  <2> QED BY <2>1
<1>1. CASE program.vector = "DOTPRODUCT"
  <2> HIDE DEF b
  <2>1. /\ \A s \in 0..M*b-1 :
              /\ s \div b \in 0..M-1 /\ s % b \in 0..b-1
              /\ s = (s \div b) * b + (s % b)
        /\ \A i \in 0..M-1, j \in 0..b-1 :
              /\ i * b + j \in 0..M*b-1
              /\ (i * b + j) \div b = i /\ (i * b + j) % b = j
    BY <1>0, Pairs
  <2>2. /\ \A s : VRow(s) = s \div b /\ VCol(s) = s % b
        /\ \A i, j : VRound(i, j) = i * b + j
    BY <1>1 DEF VRow, VCol, VRound, b
  <2>3. \A s \in 0..M*b-1 :
          VRow(s) \in 0..M-1 /\ VCol(s) \in 0..b-1 /\ s = VRound(VRow(s), VCol(s))
    BY <2>1, <2>2
  <2>4. \A i \in 0..M-1, j \in 0..b-1 :
          /\ VRound(i, j) \in 0..M*b-1
          /\ VRow(VRound(i, j)) = i /\ VCol(VRound(i, j)) = j
    BY <2>1, <2>2
  <2> QED BY <2>3, <2>4 DEF b
<1>2. CASE program.vector # "DOTPRODUCT"
  <2> HIDE DEF b
  <2>1. /\ \A s \in 0..b*M-1 :
              /\ s \div M \in 0..b-1 /\ s % M \in 0..M-1
              /\ s = (s \div M) * M + (s % M)
        /\ \A i \in 0..b-1, j \in 0..M-1 :
              /\ i * M + j \in 0..b*M-1
              /\ (i * M + j) \div M = i /\ (i * M + j) % M = j
    BY <1>0, Pairs
  <2>2. /\ \A s : VRow(s) = s % M /\ VCol(s) = s \div M
        /\ \A i, j : VRound(i, j) = j * M + i
    BY <1>2 DEF VRow, VCol, VRound
  <2>3. \A s \in 0..b*M-1 :
          VRow(s) \in 0..M-1 /\ VCol(s) \in 0..b-1 /\ s = VRound(VRow(s), VCol(s))
    BY <2>1, <2>2
  <2>4. \A i \in 0..M-1, j \in 0..b-1 :
          /\ VRound(i, j) \in 0..b*M-1
          /\ VRow(VRound(i, j)) = i /\ VCol(VRound(i, j)) = j
    BY <2>1, <2>2
  <2> QED BY <1>0, <2>3, <2>4 DEF b
<1> QED BY <1>1, <1>2

LEMMA MatrixDigits ==
  ASSUME Block(K) # 0
  PROVE
  /\ \A s \in 0..M*N*Block(K)-1 :
       /\ MRow(s) \in 0..M-1 /\ MIn(s) \in 0..N-1 /\ MCol(s) \in 0..Block(K)-1
       /\ s = MRound(MRow(s), MIn(s), MCol(s))
  /\ \A i \in 0..M-1, j \in 0..N-1, k \in 0..Block(K)-1 :
       /\ MRound(i, j, k) \in 0..M*N*Block(K)-1
       /\ MRow(MRound(i, j, k)) = i /\ MIn(MRound(i, j, k)) = j /\ MCol(MRound(i, j, k)) = k
<1> DEFINE b == Block(K)
<1>0. /\ b \in Nat \ {0} /\ M \in Nat \ {0} /\ N \in Nat \ {0}
      /\ M * N * b = M * (N * b) /\ M * N * b = b * (N * M) /\ M * N = N * M
  <2>1. b \in Nat \ {0} /\ M \in Nat \ {0} /\ N \in Nat \ {0}
    BY BlockFacts, MatrixAssumption
  <2> HIDE DEF b
  <2>2. M * N * b = M * (N * b)
    BY <2>1, SMT
  <2>3. M * N * b = b * (N * M)
    BY <2>1, SMT
  <2> QED BY <2>1, <2>2, <2>3
<1>1. CASE program.matrix = "DOTPRODUCT"
  <2> HIDE DEF b
  <2>0. b \in Nat \ {0} /\ N \in Nat \ {0} /\ M \in Nat
    BY <1>0
  <2>1. ASSUME NEW s \in 0..M*(N*b)-1
        PROVE  /\ s \div (N * b) \in 0..M-1 /\ (s \div b) % N \in 0..N-1 /\ s % b \in 0..b-1
               /\ s = (s \div (N * b)) * (N * b) + (((s \div b) % N) * b + (s % b))
    BY <2>0, TripleOf
  <2>5. ASSUME NEW x \in 0..M-1, NEW y \in 0..N-1, NEW z \in 0..b-1
        PROVE  /\ x * (N * b) + (y * b + z) \in 0..M*(N*b)-1
               /\ (x * (N * b) + (y * b + z)) \div (N * b) = x
               /\ ((x * (N * b) + (y * b + z)) \div b) % N = y
               /\ (x * (N * b) + (y * b + z)) % b = z
    BY <2>0, TripleTo
  <2>2. /\ \A s : MRow(s) = s \div (N * b) /\ MIn(s) = (s \div b) % N /\ MCol(s) = s % b
        /\ \A i, j, k : MRound(i, j, k) = i * (N * b) + (j * b + k)
    BY <1>1 DEF MRow, MIn, MCol, MRound, b
  <2>3. \A s \in 0..M*(N*b)-1 :
          /\ MRow(s) \in 0..M-1 /\ MIn(s) \in 0..N-1 /\ MCol(s) \in 0..b-1
          /\ s = MRound(MRow(s), MIn(s), MCol(s))
    BY <2>1, <2>2
  <2>4. \A i \in 0..M-1, j \in 0..N-1, k \in 0..b-1 :
          /\ MRound(i, j, k) \in 0..M*(N*b)-1 /\ MRow(MRound(i, j, k)) = i
          /\ MIn(MRound(i, j, k)) = j /\ MCol(MRound(i, j, k)) = k
    BY <2>5, <2>2
  <2> QED BY <1>0, <2>3, <2>4 DEF b
<1>2. CASE program.matrix # "DOTPRODUCT"
  <2> HIDE DEF b
  <2>0. M \in Nat \ {0} /\ N \in Nat \ {0} /\ b \in Nat
    BY <1>0
  <2>1. ASSUME NEW s \in 0..b*(N*M)-1
        PROVE  /\ s \div (N * M) \in 0..b-1 /\ (s \div M) % N \in 0..N-1 /\ s % M \in 0..M-1
               /\ s = (s \div (N * M)) * (N * M) + (((s \div M) % N) * M + (s % M))
    BY <2>0, TripleOf
  <2>5. ASSUME NEW x \in 0..b-1, NEW y \in 0..N-1, NEW z \in 0..M-1
        PROVE  /\ x * (N * M) + (y * M + z) \in 0..b*(N*M)-1
               /\ (x * (N * M) + (y * M + z)) \div (N * M) = x
               /\ ((x * (N * M) + (y * M + z)) \div M) % N = y
               /\ (x * (N * M) + (y * M + z)) % M = z
    BY <2>0, TripleTo
  <2>2. /\ \A s : MRow(s) = s % M /\ MIn(s) = (s \div M) % N /\ MCol(s) = s \div (N * M)
        /\ \A i, j, k : MRound(i, j, k) = k * (N * M) + (j * M + i)
    BY <1>0, <1>2 DEF MRow, MIn, MCol, MRound
  <2>3. \A s \in 0..b*(N*M)-1 :
          /\ MRow(s) \in 0..M-1 /\ MIn(s) \in 0..N-1 /\ MCol(s) \in 0..b-1
          /\ s = MRound(MRow(s), MIn(s), MCol(s))
    BY <2>1, <2>2
  <2>4. \A i \in 0..M-1, j \in 0..N-1, k \in 0..b-1 :
          /\ MRound(i, j, k) \in 0..b*(N*M)-1 /\ MRow(MRound(i, j, k)) = i
          /\ MIn(MRound(i, j, k)) = j /\ MCol(MRound(i, j, k)) = k
    BY <2>5, <2>2
  <2> QED BY <1>0, <2>3, <2>4 DEF b
<1> QED BY <1>1, <1>2

\* The rounds of the two calls are natural numbers; without columns there are
\* no rounds of the matrix product.
LEMMA RoundsFacts ==
  /\ VectorRounds \in Nat /\ MatrixRounds \in Nat /\ Rounds \in Nat
  /\ Rounds = VectorRounds + MatrixRounds
  /\ program.vector # "none" => VectorRounds = M * Block(N)
  /\ program.matrix # "none" => MatrixRounds = M * N * Block(K)
  /\ \A s \in 0..VectorRounds-1 : s \in 0..M*Block(N)-1
  /\ \A r \in 0..MatrixRounds-1 : r \in 0..M*N*Block(K)-1 /\ Block(K) # 0
<1>1. M \in Nat /\ N \in Nat /\ Block(N) \in Nat /\ Block(K) \in Nat
  BY BlockFacts, MatrixAssumption
<1>2. M * Block(N) \in Nat /\ M * N \in Nat
  BY <1>1
<1>3. M * N * Block(K) \in Nat
  BY <1>1, <1>2
<1>4. VectorRounds \in {0, M * Block(N)} /\ MatrixRounds \in {0, M * N * Block(K)}
  BY DEF VectorRounds, MatrixRounds
<1>5. VectorRounds \in Nat /\ MatrixRounds \in Nat
  BY <1>2, <1>3, <1>4
<1>6. Block(K) = 0 => M * N * Block(K) = 0
  BY <1>2
<1>7. \A s \in 0..VectorRounds-1 : s \in 0..M*Block(N)-1
  BY <1>2, <1>4
<1>8. \A r \in 0..MatrixRounds-1 : r \in 0..M*N*Block(K)-1 /\ Block(K) # 0
  BY <1>3, <1>4, <1>6
<1> QED BY <1>5, <1>7, <1>8 DEF Rounds, VectorRounds, MatrixRounds

LEMMA VectorJob ==
  ASSUME NEW me, NEW s \in 0..VectorRounds-1
  PROVE  Job(me, s) = VectorTerm(me, VRow(s), VCol(s))
<1>1. s < VectorRounds
  BY RoundsFacts
<1> QED BY <1>1 DEF Job, VRow, VCol, matvec_DOTPRODUCT, matvec_SAXPY

LEMMA MatrixJob ==
  ASSUME NEW me, NEW s \in VectorRounds..Rounds-1
  PROVE  /\ s - VectorRounds \in 0..MatrixRounds-1
         /\ Job(me, s) = MatrixTerm(me, MRow(s - VectorRounds), MIn(s - VectorRounds),
                                    MCol(s - VectorRounds))
<1>1. ~(s < VectorRounds) /\ s - VectorRounds \in 0..MatrixRounds-1
  BY RoundsFacts
<1> QED
  BY <1>1 DEF Job, MRow, MIn, MCol, matvec_matrix_DOTPRODUCT, matvec_matrix_SAXPY

LEMMA InputFacts ==
  ASSUME input \in Inputs
  PROVE  /\ \A i \in 0..M-1, j \in 0..N-1 : input.A[i][j] \in Nat
         /\ \A j \in 0..N-1, k \in 0..K-1 : input.B[j][k] \in Nat
         /\ \A j \in 0..N-1 : input.v[j] \in Nat
<1>1. /\ input.A \in [0..M-1 -> [0..N-1 -> 0..9]]
      /\ input.B \in [0..N-1 -> [0..K-1 -> 0..9]]
      /\ input.v \in [0..N-1 -> 0..9]
  BY MatrixAssumption
<1>2. \A i \in 0..M-1 : input.A[i] \in [0..N-1 -> 0..9]
  BY <1>1
<1>3. \A j \in 0..N-1 : input.B[j] \in [0..K-1 -> 0..9]
  BY <1>1
<1>4. \A n \in 0..9 : n \in Nat
  OBVIOUS
<1>5. \A i \in 0..M-1, j \in 0..N-1 : input.A[i][j] \in 0..9
  BY <1>2
<1>6. \A j \in 0..N-1, k \in 0..K-1 : input.B[j][k] \in 0..9
  BY <1>3
<1> QED BY <1>1, <1>4, <1>5, <1>6

LEMMA JobFacts ==
  ASSUME input \in Inputs, NEW me \in Threads, NEW s \in 0..Rounds-1
  PROVE  Job(me, s).cell \in Cells /\ Job(me, s).term \in Nat
<1>1. CASE s \in 0..VectorRounds-1
  <2> DEFINE i == VRow(s)
             c == VCol(s) + me * Block(N)
  <2>1. i \in 0..M-1 /\ VCol(s) \in 0..Block(N)-1
    BY <1>1, RoundsFacts, VectorDigits
  <2>2. c \in 0..N-1
    BY <2>1, ColumnBound, BlockFacts
  <2>3. Job(me, s) = [cell |-> <<i>>, term |-> input.A[i][c] * input.v[c]]
    BY <1>1, VectorJob DEF VectorTerm
  <2> HIDE DEF i, c
  <2>4. input.A[i][c] * input.v[c] \in Nat
    BY <2>1, <2>2, InputFacts
  <2> QED BY <2>1, <2>3, <2>4 DEF Cells
<1>2. CASE s \in VectorRounds..Rounds-1
  <2> DEFINE r == s - VectorRounds
             i == MRow(r)
             j == MIn(r)
             c == MCol(r) + me * Block(K)
  <2>1. r \in 0..MatrixRounds-1
    BY <1>2, MatrixJob
  <2>2. i \in 0..M-1 /\ j \in 0..N-1 /\ MCol(r) \in 0..Block(K)-1
    BY <2>1, RoundsFacts, MatrixDigits
  <2>3. c \in 0..K-1
    BY <2>2, ColumnBound, BlockFacts
  <2>4. Job(me, s) = [cell |-> <<i, c>>, term |-> input.A[i][j] * input.B[j][c]]
    BY <1>2, MatrixJob DEF MatrixTerm
  <2> HIDE DEF i, j, c
  <2>5. input.A[i][j] * input.B[j][c] \in Nat
    BY <2>2, <2>3, InputFacts
  <2> QED BY <2>2, <2>3, <2>4, <2>5 DEF Cells
<1> QED BY <1>1, <1>2, RoundsFacts

-----------------------------------------------------------------------------
(* Types *)

\* Inductive: how far the threads are between their creation and their join.
ProgressInv ==
  /\ MatrixTypeOK
  /\ \A t \in Threads : t >= created => pc[t] = "none"
  /\ \A t \in Threads : t < joined => pc[t] = "exited"
  /\ \A t \in Threads :
       /\ pc[t] = "none" => done[t] = 0
       /\ pc[t] \in {"lock", "load", "store", "unlock"} => done[t] < Rounds
       /\ pc[t] = "exited" => done[t] = Rounds

LEMMA ThreadNumbers == \A t : t \in Threads <=> t \in Nat /\ t < THREAD_COUNT
BY MatrixAssumption DEF Threads

LEMMA SameRounds ==
  ASSUME UNCHANGED <<input, program>>
  PROVE  Rounds' = Rounds /\ VectorRounds' = VectorRounds
BY DEF Rounds, VectorRounds, MatrixRounds

LEMMA LoopFacts ==
  ASSUME NEW n \in 0..Rounds
  PROVE  (Loop(n) = "lock" /\ n < Rounds) \/ (Loop(n) = "exited" /\ n = Rounds)
BY RoundsFacts DEF Loop

LEMMA ProgressInit == Init => ProgressInv
<1> SUFFICES ASSUME Init PROVE ProgressInv
  OBVIOUS
<1>1. Rounds \in Nat /\ THREAD_COUNT \in Nat
  BY RoundsFacts, MatrixAssumption
<1>2. MatrixTypeOK
  BY <1>1 DEF Init, MatrixTypeOK
<1>3. \A t \in Threads : t >= 0 /\ ~(t < 0)
  BY ThreadNumbers
<1> QED BY <1>2, <1>3 DEF Init, ProgressInv

LEMMA ProgressStep == ProgressInv /\ [Next]_vars => ProgressInv'
<1> SUFFICES ASSUME ProgressInv, [Next]_vars PROVE ProgressInv'
  OBVIOUS
<1>0. /\ input \in Inputs /\ program \in Programs
      /\ DOMAIN result = Cells /\ (\A c \in Cells : result[c] \in Nat)
      /\ created \in 0..THREAD_COUNT /\ joined \in 0..created
      /\ pc \in [Threads -> {"none", "lock", "load", "store", "unlock", "exited"}]
      /\ done \in [Threads -> 0..Rounds] /\ register \in [Threads -> Nat]
      /\ my_mutex \in Threads \cup {Free}
      /\ Rounds \in Nat /\ THREAD_COUNT \in Nat \ {0}
  BY RoundsFacts, MatrixAssumption DEF ProgressInv, MatrixTypeOK
<1>1. CASE UNCHANGED vars
  <2>1. UNCHANGED <<input, program, result, created, joined, pc, done, register, my_mutex>>
    BY <1>1 DEF vars
  <2> QED BY <2>1, SameRounds DEF ProgressInv, MatrixTypeOK
<1>2. CASE pthread_create
  <2>1. /\ created < THREAD_COUNT /\ created' = created + 1
        /\ pc' = [pc EXCEPT ![created] = Loop(0)]
        /\ UNCHANGED <<input, program, result, joined, done, register, my_mutex>>
    BY <1>2 DEF pthread_create
  <2>2. created \in Threads /\ pc[created] = "none" /\ done[created] = 0
    BY <1>0, <2>1, ThreadNumbers DEF ProgressInv
  <2>3. (Loop(0) = "lock" /\ 0 < Rounds) \/ (Loop(0) = "exited" /\ 0 = Rounds)
    BY <1>0, LoopFacts
  <2>4. Rounds' = Rounds
    BY <2>1, SameRounds
  <2>5. MatrixTypeOK'
    <3>1. created' \in 0..THREAD_COUNT /\ joined' \in 0..created'
      BY <1>0, <2>1
    <3>2. pc' \in [Threads -> {"none", "lock", "load", "store", "unlock", "exited"}]
      BY <1>0, <2>1, <2>3
    <3> QED BY <1>0, <2>1, <2>4, <3>1, <3>2 DEF MatrixTypeOK
  <2>6. \A t \in Threads : t >= created' => pc'[t] = "none"
    BY <1>0, <2>1, ThreadNumbers DEF ProgressInv
  <2>7. \A t \in Threads : t < joined' => pc'[t] = "exited"
    BY <1>0, <2>1, <2>2, ThreadNumbers DEF ProgressInv
  <2>8. \A t \in Threads :
           /\ pc'[t] = "none" => done'[t] = 0
           /\ pc'[t] \in {"lock", "load", "store", "unlock"} => done'[t] < Rounds
           /\ pc'[t] = "exited" => done'[t] = Rounds
    BY <1>0, <2>1, <2>2, <2>3 DEF ProgressInv
  <2> QED BY <2>4, <2>5, <2>6, <2>7, <2>8 DEF ProgressInv
<1>3. CASE pthread_join
  <2>1. /\ created = THREAD_COUNT /\ joined < THREAD_COUNT /\ pc[joined] = "exited"
        /\ joined' = joined + 1
        /\ UNCHANGED <<input, program, result, created, pc, done, register, my_mutex>>
    BY <1>3 DEF pthread_join
  <2>2. MatrixTypeOK'
    BY <1>0, <2>1, SameRounds DEF MatrixTypeOK
  <2>3. \A t \in Threads : t < joined' => pc'[t] = "exited"
    <3>1. \A t \in Threads : t < joined' => t < joined \/ t = joined
      BY <1>0, <2>1, ThreadNumbers
    <3> QED BY <2>1, <3>1 DEF ProgressInv
  <2> QED BY <2>1, <2>2, <2>3, SameRounds DEF ProgressInv
<1>4. ASSUME NEW t \in Threads, NEW p \in {"load", "store", "unlock"},
             pc[t] \in {"lock", "load", "store"}, pc' = [pc EXCEPT ![t] = p],
             UNCHANGED <<input, program, created, joined, done>>,
             my_mutex' \in Threads \cup {Free}, register' \in [Threads -> Nat],
             DOMAIN result' = Cells, \A c \in Cells : result'[c] \in Nat
      PROVE  ProgressInv'
  <2>1. MatrixTypeOK'
    BY <1>0, <1>4, SameRounds DEF MatrixTypeOK
  <2>2. done[t] < Rounds
    BY <1>4 DEF ProgressInv
  <2>3. \A u \in Threads : u >= created => pc'[u] = "none"
    BY <1>0, <1>4 DEF ProgressInv
  <2>4. \A u \in Threads : u < joined => pc'[u] = "exited"
    BY <1>0, <1>4 DEF ProgressInv
  <2>5. \A u \in Threads :
           /\ pc'[u] = "none" => done'[u] = 0
           /\ pc'[u] \in {"lock", "load", "store", "unlock"} => done'[u] < Rounds
           /\ pc'[u] = "exited" => done'[u] = Rounds
    BY <1>0, <1>4, <2>2 DEF ProgressInv
  <2> QED BY <1>4, <2>1, <2>3, <2>4, <2>5, SameRounds DEF ProgressInv
<1>5. ASSUME NEW t \in Threads, pthread_mutex_lock(t) PROVE ProgressInv'
  BY <1>0, <1>4, <1>5 DEF pthread_mutex_lock
<1>6. ASSUME NEW t \in Threads, pc[t] \in {"load", "store"}
      PROVE  Job(t, done[t]).cell \in Cells /\ Job(t, done[t]).term \in Nat
  <2>1. done[t] \in 0..Rounds-1
    BY <1>0, <1>6 DEF ProgressInv
  <2> QED BY <1>0, <2>1, JobFacts
<1>7. ASSUME NEW t \in Threads, load(t) PROVE ProgressInv'
  <2>1. result[Job(t, done[t]).cell] \in Nat
    BY <1>0, <1>6, <1>7 DEF load
  <2>2. register' \in [Threads -> Nat]
    BY <1>0, <1>7, <2>1 DEF load
  <2> QED BY <1>0, <1>4, <1>7, <2>2 DEF load
<1>8. ASSUME NEW t \in Threads, store(t) PROVE ProgressInv'
  <2>1. Job(t, done[t]).cell \in Cells /\ register[t] + Job(t, done[t]).term \in Nat
    BY <1>0, <1>6, <1>8 DEF store
  <2>2. result' = [result EXCEPT ![Job(t, done[t]).cell] = register[t] + Job(t, done[t]).term]
    BY <1>8 DEF store
  <2>3. DOMAIN result' = Cells /\ \A c \in Cells : result'[c] \in Nat
    BY <1>0, <2>1, <2>2
  <2> QED BY <1>0, <1>4, <1>8, <2>3 DEF store
<1>9. ASSUME NEW t \in Threads, pthread_mutex_unlock(t) PROVE ProgressInv'
  <2>1. /\ pc[t] = "unlock" /\ my_mutex' = Free
        /\ done' = [done EXCEPT ![t] = @ + 1]
        /\ pc' = [pc EXCEPT ![t] = Loop(done[t] + 1)]
        /\ UNCHANGED <<input, program, result, created, joined, register>>
    BY <1>9 DEF pthread_mutex_unlock
  <2> DEFINE n == done[t] + 1
  <2>2. n \in 0..Rounds /\ done' = [done EXCEPT ![t] = n]
    BY <1>0, <2>1 DEF ProgressInv
  <2>3. (Loop(n) = "lock" /\ n < Rounds) \/ (Loop(n) = "exited" /\ n = Rounds)
    BY <2>2, LoopFacts
  <2>4. pc' = [pc EXCEPT ![t] = Loop(n)]
    BY <2>1
  <2> HIDE DEF n
  <2>5. MatrixTypeOK'
    BY <1>0, <2>1, <2>2, <2>3, <2>4, SameRounds DEF MatrixTypeOK
  <2>6. \A u \in Threads : u >= created => pc'[u] = "none"
    BY <1>0, <2>1, <2>4 DEF ProgressInv
  <2>7. \A u \in Threads : u < joined => pc'[u] = "exited"
    BY <1>0, <2>1, <2>4 DEF ProgressInv
  <2>8. \A u \in Threads :
           /\ pc'[u] = "none" => done'[u] = 0
           /\ pc'[u] \in {"lock", "load", "store", "unlock"} => done'[u] < Rounds
           /\ pc'[u] = "exited" => done'[u] = Rounds
    BY <1>0, <2>1, <2>2, <2>3, <2>4 DEF ProgressInv
  <2> QED BY <2>1, <2>5, <2>6, <2>7, <2>8, SameRounds DEF ProgressInv
<1> QED
  BY <1>1, <1>2, <1>3, <1>5, <1>7, <1>8, <1>9 DEF Next, main, Function

LEMMA ProgressAlways == Spec => []ProgressInv
BY ProgressInit, ProgressStep, PTL DEF Spec

(* Every cell, register and counter keeps its type: the cells that the      *)
(* threads' loops reach are those of the results, for any dimensions that   *)
(* the number of threads divides.                                           *)
THEOREM MatrixTypeCorrect == Spec => []MatrixTypeOK
<1>1. ProgressInv => MatrixTypeOK
  BY DEF ProgressInv
<1> QED BY <1>1, ProgressAlways, PTL

-----------------------------------------------------------------------------
(* No update is lost *)

\* The rounds in which thread t has added to cell c, and what it has added to
\* every cell so far.
Added(t, c, S) == {s \in S : Job(t, s).cell = c}
ShareOf(t, c, S) == Total(Terms(t, Added(t, c, S)), Added(t, c, S))
Share(c) == [t \in Threads |-> ShareOf(t, c, Stored(t))]

\* Inductive, with MutexInv and ProgressInv.
SumInv == \A c \in Cells : result[c] = Total(Share(c), Threads)

LEMMA ThreadsFinite == IsFiniteSet(Threads)
BY FS_Interval, MatrixAssumption DEF Threads

LEMMA AddedFacts ==
  ASSUME input \in Inputs, NEW t \in Threads, NEW c, NEW S \in SUBSET (0..Rounds-1)
  PROVE  /\ IsFiniteSet(Added(t, c, S))
         /\ \A s \in Added(t, c, S) : Terms(t, Added(t, c, S))[s] = Job(t, s).term
         /\ \A s \in Added(t, c, S) : Terms(t, Added(t, c, S))[s] \in Nat
         /\ ShareOf(t, c, S) \in Nat
<1>1. IsFiniteSet(0..Rounds-1)
  BY FS_Interval, RoundsFacts
<1>2. IsFiniteSet(Added(t, c, S))
  BY <1>1, FS_Subset DEF Added
<1>3. \A s \in Added(t, c, S) : Terms(t, Added(t, c, S))[s] = Job(t, s).term
  BY DEF Terms
<1>4. \A s \in Added(t, c, S) : Terms(t, Added(t, c, S))[s] \in Nat
  BY <1>3, JobFacts DEF Added
<1> QED BY <1>2, <1>3, <1>4, TotalFacts DEF ShareOf

\* One more round, that of job: its term is what the cell's share grows by.
LEMMA ShareGrows ==
  ASSUME input \in Inputs, NEW t \in Threads, NEW c,
         NEW S \in SUBSET (0..Rounds-1), NEW n \in 0..Rounds-1, n \notin S
  PROVE  ShareOf(t, c, S \cup {n}) =
           ShareOf(t, c, S) + (IF Job(t, n).cell = c THEN Job(t, n).term ELSE 0)
<1> DEFINE R == S \cup {n}
<1>0. R \in SUBSET (0..Rounds-1)
  OBVIOUS
<1>1. CASE Job(t, n).cell # c
  <2>1. Added(t, c, R) = Added(t, c, S)
    BY <1>1 DEF Added
  <2>2. ShareOf(t, c, R) = ShareOf(t, c, S)
    BY <2>1 DEF ShareOf
  <2> QED BY <1>1, <2>2, AddedFacts
<1>2. CASE Job(t, n).cell = c
  <2> DEFINE A == Added(t, c, S)
             B == Added(t, c, R)
             g == Terms(t, B)
  <2>1. n \in B /\ B \ {n} = A
    BY <1>2 DEF Added
  <2>2. IsFiniteSet(B) /\ (\A s \in B : g[s] \in Nat) /\ g[n] = Job(t, n).term
    BY <1>0, <2>1, AddedFacts
  <2>3. IsFiniteSet(A) /\ \A s \in A : Terms(t, A)[s] = g[s]
    <3>1. IsFiniteSet(A)
      BY AddedFacts
    <3>2. \A s \in A : Terms(t, A)[s] = Job(t, s).term /\ g[s] = Job(t, s).term
      BY <2>1 DEF Terms
    <3> QED BY <3>1, <3>2
  <2>4. ShareOf(t, c, R) = Total(g, B) /\ ShareOf(t, c, S) = Total(Terms(t, A), A)
    BY DEF ShareOf
  <2>5. ShareOf(t, c, S) \in Nat
    BY AddedFacts
  <2> HIDE DEF A, B, g, R
  <2>6. Total(g, B) = g[n] + Total(g, A)
    BY <2>1, <2>2, TotalFacts
  <2>7. Total(g, A) = Total(Terms(t, A), A)
    BY <2>3, TotalSame
  <2>8. g[n] \in Nat
    BY <2>1, <2>2
  <2>9. ShareOf(t, c, R) = ShareOf(t, c, S) + Job(t, n).term
    BY <2>1, <2>2, <2>4, <2>5, <2>6, <2>7, <2>8
  <2> QED BY <1>2, <2>9 DEF R
<1> QED BY <1>1, <1>2

\* A step that changes neither the stored rounds nor the results.
LEMMA SumSame ==
  ASSUME SumInv, UNCHANGED <<input, program, result>>,
         \A t \in Threads : Stored(t)' = Stored(t)
  PROVE  SumInv'
<1>1. ASSUME NEW c, NEW t \in Threads PROVE ShareOf(t, c, Stored(t))' = ShareOf(t, c, Stored(t))
  <2>1. \A s : Job(t, s)' = Job(t, s)
    BY SameJob
  <2>2. Added(t, c, Stored(t))' = Added(t, c, Stored(t))
    BY <2>1 DEF Added
  <2>3. Terms(t, Added(t, c, Stored(t)))' = Terms(t, Added(t, c, Stored(t)))
    BY <2>1, <2>2 DEF Terms
  <2> QED BY <2>2, <2>3 DEF ShareOf
<1>2. ASSUME NEW c PROVE Share(c)' = Share(c)
  BY <1>1 DEF Share
<1> QED BY <1>2 DEF SumInv

LEMMA StoredFacts ==
  ASSUME ProgressInv, NEW t \in Threads
  PROVE  Stored(t) \in SUBSET (0..Rounds-1)
<1>1. /\ Rounds \in Nat /\ done[t] \in 0..Rounds
      /\ pc[t] \in {"none", "lock", "load", "store", "unlock", "exited"}
      /\ pc[t] = "unlock" => done[t] < Rounds
  BY RoundsFacts DEF ProgressInv, MatrixTypeOK
<1> QED BY <1>1 DEF Stored

LEMMA SumInit == Init => SumInv
<1> SUFFICES ASSUME Init, NEW c \in Cells PROVE result[c] = Total(Share(c), Threads)
  BY DEF SumInv
<1>1. \A t \in Threads : Stored(t) = {}
  BY DEF Init, Stored
<1>2. \A t \in Threads : Share(c)[t] = 0
  <2> SUFFICES ASSUME NEW t \in Threads PROVE Share(c)[t] = 0
    OBVIOUS
  <2>1. Added(t, c, Stored(t)) = {}
    BY <1>1 DEF Added
  <2>2. Share(c)[t] = Total(Terms(t, {}), {})
    BY <2>1 DEF Share, ShareOf
  <2>3. IsFiniteSet({}) /\ \A s \in {} : Terms(t, {})[s] \in Nat
    BY FS_EmptySet
  <2> QED BY <2>2, <2>3, TotalFacts
<1>3. Total(Share(c), Threads) = 0
  BY <1>2, ThreadsFinite, TotalZero
<1>4. result[c] = 0
  BY DEF Init
<1> QED BY <1>3, <1>4

LEMMA SumStore ==
  ASSUME MutexInv, ProgressInv, SumInv, NEW t \in Threads, store(t)
  PROVE  SumInv'
<1> DEFINE n == done[t]
           job == Job(t, n)
<1>1. /\ pc[t] = "store" /\ pc' = [pc EXCEPT ![t] = "unlock"]
      /\ result' = [result EXCEPT ![job.cell] = register[t] + job.term]
      /\ UNCHANGED <<input, program, done>>
  BY DEF store
<1>2. /\ n \in 0..Rounds-1 /\ input \in Inputs
      /\ DOMAIN result = Cells /\ \A c \in Cells : result[c] \in Nat
  BY <1>1, RoundsFacts DEF ProgressInv, MatrixTypeOK
<1>3. register[t] = result[job.cell] /\ job.cell \in Cells /\ job.term \in Nat
  BY <1>1, <1>2, JobFacts DEF MutexInv, LoadIsFresh
<1>4. /\ Stored(t) \in SUBSET (0..Rounds-1) /\ n \notin Stored(t)
      /\ Stored(t)' = Stored(t) \cup {n}
  <2>1. Stored(t) = 0..n-1
    BY <1>1 DEF Stored
  <2>2. Stored(t)' = 0..n
    BY <1>1 DEF Stored, MutexInv
  <2> QED BY <1>2, <2>1, <2>2, StoredFacts
<1>5. \A u \in Threads : u # t => Stored(u)' = Stored(u)
  BY <1>1 DEF Stored, MutexInv
<1> SUFFICES ASSUME NEW c \in Cells PROVE result'[c] = Total(Share(c), Threads)'
  BY DEF SumInv
<1> DEFINE g == Share(c)
           h == [u \in Threads |-> ShareOf(u, c, IF u = t THEN Stored(t) \cup {n} ELSE Stored(u))]
           more == IF job.cell = c THEN job.term ELSE 0
<1>6. Share(c)' = h
  <2>1. ASSUME NEW u \in Threads, NEW S PROVE ShareOf(u, c, S)' = ShareOf(u, c, S')
    <3>1. \A s : Job(u, s)' = Job(u, s)
      BY <1>1, SameJob
    <3>2. Added(u, c, S)' = Added(u, c, S')
      BY <3>1 DEF Added
    <3>3. Terms(u, Added(u, c, S))' = Terms(u, Added(u, c, S'))
      BY <3>1, <3>2 DEF Terms
    <3> QED BY <3>2, <3>3 DEF ShareOf
  <2> QED BY <1>4, <1>5, <2>1 DEF Share
<1>7. \A u \in Threads : g[u] \in Nat /\ h[u] \in Nat
  <2>1. ASSUME NEW u \in Threads PROVE g[u] \in Nat
    BY <1>2, StoredFacts, AddedFacts DEF Share
  <2>2. ASSUME NEW u \in Threads PROVE h[u] \in Nat
    <3>1. CASE u = t
      <4>1. Stored(t) \cup {n} \in SUBSET (0..Rounds-1)
        BY <1>2, <1>4
      <4> QED BY <1>2, <3>1, <4>1, AddedFacts
    <3>2. CASE u # t
      BY <1>2, <3>2, StoredFacts, AddedFacts
    <3> QED BY <3>1, <3>2
  <2> QED BY <2>1, <2>2
<1>8. \A u \in Threads : u # t => g[u] = h[u]
  BY DEF Share
<1>9. h[t] = g[t] + more
  BY <1>2, <1>4, ShareGrows DEF Share
<1> HIDE DEF g, h
<1>10. Total(h, Threads) = Total(g, Threads) + (h[t] - g[t])
  BY <1>7, <1>8, ThreadsFinite, TotalChange
<1>11. result[c] = Total(g, Threads) /\ result[c] \in Nat
  BY <1>2 DEF SumInv, g
<1>12. result'[c] = result[c] + more
  BY <1>1, <1>2, <1>3, <1>11
<1>13. Total(Share(c), Threads)' = Total(h, Threads)
  BY <1>6 DEF Total, Totals, Threads
<1> QED BY <1>7, <1>9, <1>10, <1>11, <1>12, <1>13, <1>3

LEMMA SumStep == MutexInv /\ ProgressInv /\ SumInv /\ [Next]_vars => SumInv'
<1> SUFFICES ASSUME MutexInv, ProgressInv, SumInv, [Next]_vars PROVE SumInv'
  OBVIOUS
<1>0. /\ pc \in [Threads -> {"none", "lock", "load", "store", "unlock", "exited"}]
      /\ done \in [Threads -> 0..Rounds] /\ Rounds \in Nat
  BY RoundsFacts DEF ProgressInv, MatrixTypeOK
<1>1. ASSUME UNCHANGED <<input, program, result, done>>,
             \A t \in Threads : (pc'[t] = "unlock" <=> pc[t] = "unlock")
      PROVE  SumInv'
  <2>1. \A t \in Threads : Stored(t)' = Stored(t)
    BY <1>1 DEF Stored
  <2> QED BY <1>1, <2>1, SumSame
<1>2. CASE UNCHANGED vars
  BY <1>1, <1>2 DEF vars
<1>3. CASE pthread_create
  <2>1. \A t \in Threads : t >= created => pc[t] # "unlock"
    BY DEF ProgressInv
  <2>2. created \in Nat /\ pc' = [pc EXCEPT ![created] = Loop(0)]
    BY <1>3 DEF pthread_create, ProgressInv, MatrixTypeOK
  <2>3. \A t \in Threads : pc'[t] = "unlock" <=> pc[t] = "unlock"
    BY <1>0, <2>1, <2>2, LoopPc
  <2> QED BY <1>1, <1>3, <2>3 DEF pthread_create
<1>4. CASE pthread_join
  BY <1>1, <1>4 DEF pthread_join
<1>5. ASSUME NEW t \in Threads, pthread_mutex_lock(t) PROVE SumInv'
  <2>1. \A u \in Threads : pc'[u] = "unlock" <=> pc[u] = "unlock"
    BY <1>0, <1>5 DEF pthread_mutex_lock
  <2> QED BY <1>1, <1>5, <2>1 DEF pthread_mutex_lock
<1>6. ASSUME NEW t \in Threads, load(t) PROVE SumInv'
  <2>1. \A u \in Threads : pc'[u] = "unlock" <=> pc[u] = "unlock"
    BY <1>0, <1>6 DEF load
  <2> QED BY <1>1, <1>6, <2>1 DEF load
<1>7. ASSUME NEW t \in Threads, store(t) PROVE SumInv'
  BY <1>7, SumStore
<1>8. ASSUME NEW t \in Threads, pthread_mutex_unlock(t) PROVE SumInv'
  <2>1. /\ pc[t] = "unlock" /\ done' = [done EXCEPT ![t] = @ + 1]
        /\ pc' = [pc EXCEPT ![t] = Loop(done[t] + 1)]
        /\ UNCHANGED <<input, program, result>>
    BY <1>8 DEF pthread_mutex_unlock
  <2>2. ASSUME NEW u \in Threads PROVE Stored(u)' = Stored(u)
    <3>1. CASE u = t
      <4>1. pc'[t] # "unlock" /\ done'[t] = done[t] + 1 /\ done[t] \in Nat
        BY <1>0, <2>1, LoopPc
      <4>2. Stored(t)' = 0..(done[t] + 1) - 1 /\ Stored(t) = 0..done[t]
        BY <2>1, <4>1 DEF Stored
      <4> QED BY <3>1, <4>1, <4>2
    <3>2. CASE u # t
      <4>1. pc'[u] = pc[u] /\ done'[u] = done[u]
        BY <1>0, <2>1, <3>2
      <4> QED BY <4>1 DEF Stored
    <3> QED BY <3>1, <3>2
  <2> QED BY <2>1, <2>2, SumSame
<1> QED BY <1>2, <1>3, <1>4, <1>5, <1>6, <1>7, <1>8 DEF Next, main, Function

\* The sums of NoLostUpdate.
LEMMA OuterSum ==
  ASSUME ProgressInv, NEW c
  PROVE  MapThenSumSet(LAMBDA t :
            MapThenSumSet(LAMBDA s : Job(t, s).term, {s \in Stored(t) : Job(t, s).cell = c}),
          Threads) = Total(Share(c), Threads)
<1> DEFINE F(t) == MapThenSumSet(LAMBDA s : Job(t, s).term, {s \in Stored(t) : Job(t, s).cell = c})
           it(f) == f = [S \in SUBSET Threads |->
                           IF S = {} THEN 0 ELSE F(Pick(S)) + f[S \ {Pick(S)}]]
           iter == CHOOSE f : it(f)
<1>1. MapThenSumSet(F, Threads) = iter[Threads]
  BY DEF MapThenSumSet, MapThenFoldSet, Pick
<1>2. ASSUME NEW t \in Threads PROVE F(t) = Share(c)[t]
  <2>1. input \in Inputs /\ {s \in Stored(t) : Job(t, s).cell = c} = Added(t, c, Stored(t))
    BY DEF Added, ProgressInv, MatrixTypeOK
  <2>2. IsFiniteSet(Added(t, c, Stored(t)))
    BY <2>1, StoredFacts, AddedFacts
  <2>3. MapThenSumSet(LAMBDA s : Job(t, s).term, Added(t, c, Stored(t))) = ShareOf(t, c, Stored(t))
    BY <2>2, InnerSum DEF ShareOf
  <2> QED BY <2>1, <2>3 DEF Share
<1>3. ASSUME NEW f PROVE it(f) <=> Totals(Share(c), Threads, f)
  <2> DEFINE a == [S \in SUBSET Threads |-> IF S = {} THEN 0 ELSE F(Pick(S)) + f[S \ {Pick(S)}]]
             b == [S \in SUBSET Threads |->
                      IF S = {} THEN 0 ELSE Share(c)[Pick(S)] + f[S \ {Pick(S)}]]
  <2>1. \A S \in SUBSET Threads : S # {} => Pick(S) \in Threads
    BY DEF Pick
  <2>2. \A S \in SUBSET Threads : a[S] = b[S]
    <3> HIDE DEF F
    <3> QED BY <1>2, <2>1
  <2>3. a = b
    <3> HIDE DEF F
    <3> QED BY <2>2
  <2> QED BY <2>3 DEF Totals
<1>4. PICK f : Totals(Share(c), Threads, f)
  BY TotalsExist, ThreadsFinite
<1>5. it(iter)
  <2>1. it(f)
    BY <1>3, <1>4
  <2> HIDE DEF it
  <2> QED BY <2>1
<1> HIDE DEF it, iter
<1>6. Totals(Share(c), Threads, iter)
  BY <1>3, <1>5
<1>7. iter[Threads] = Total(Share(c), Threads)
  BY <1>6, ThreadsFinite, TotalIs
<1> QED BY <1>1, <1>7

LEMMA SumAlways == Spec => [](MutexInv /\ ProgressInv /\ SumInv)
<1>1. Init => MutexInv /\ ProgressInv /\ SumInv
  BY MutexInit, ProgressInit, SumInit
<1>2. MutexInv /\ ProgressInv /\ SumInv /\ [Next]_vars => MutexInv' /\ ProgressInv' /\ SumInv'
  BY MutexStep, ProgressStep, SumStep
<1> QED BY <1>1, <1>2, PTL DEF Spec

(* No update is lost, for any number of threads, any dimensions and any     *)
(* matrices: each cell of the results is at every moment the sum of the     *)
(* terms that the threads have stored there, whoever ran when.              *)
THEOREM UpdatesCorrect == Spec => []NoLostUpdate
<1>1. MutexInv /\ ProgressInv /\ SumInv => NoLostUpdate
  BY OuterSum DEF SumInv, NoLostUpdate
<1> QED BY <1>1, SumAlways, PTL

-----------------------------------------------------------------------------
(* The products *)

Columns(me, b) == me*b .. me*b+b-1  \* of thread me, in blocks of b

\* The columns of the threads are disjoint and make up the matrix.
LEMMA ColumnsPart ==
  ASSUME NEW b \in Nat
  PROVE  /\ \A t \in Threads : Columns(t, b) \in SUBSET (0..THREAD_COUNT*b-1)
         /\ \A t, u \in Threads : t # u => Columns(t, b) \cap Columns(u, b) = {}
         /\ \A c \in 0..THREAD_COUNT*b-1 : \E t \in Threads : c \in Columns(t, b)
<1>0. THREAD_COUNT \in Nat /\ THREAD_COUNT * b \in Nat
      /\ \A t : t \in Threads <=> t \in 0..THREAD_COUNT-1
  BY MatrixAssumption DEF Threads
<1>1. ASSUME NEW t \in Threads PROVE Columns(t, b) \in SUBSET (0..THREAD_COUNT*b-1)
  <2>1. t \in Nat /\ t * b \in Nat
    BY <1>0
  <2> SUFFICES ASSUME NEW c \in Columns(t, b) PROVE c \in 0..THREAD_COUNT*b-1
    OBVIOUS
  <2>2. c - t*b \in 0..b-1 /\ c \in Int
    BY <2>1 DEF Columns
  <2>3. (c - t*b) + t*b \in 0..THREAD_COUNT*b-1
    BY <2>2, ColumnBound
  <2>4. (c - t*b) + t*b = c
    BY <2>1, <2>2
  <2> QED BY <2>3, <2>4
<1>2. ASSUME NEW t \in Threads, NEW u \in Threads, NEW c \in Columns(t, b), c \in Columns(u, b)
      PROVE  t = u
  <2>1. t \in Nat /\ t * b \in Nat /\ u \in Nat /\ u * b \in Nat
    BY <1>0
  <2>2. c \in Int /\ c - t*b \in 0..b-1 /\ c - u*b \in 0..b-1 /\ b # 0
    BY <1>2, <2>1 DEF Columns
  <2> DEFINE x == c - t*b
             y == c - u*b
  <2>3. c = t*b + x /\ c = u*b + y /\ x \in 0..b-1 /\ y \in 0..b-1
    BY <2>1, <2>2
  <2> HIDE DEF x, y
  <2>4. c \div b = t /\ c \div b = u
    BY <2>1, <2>2, <2>3, DivUnique
  <2> QED BY <2>4
<1>3. ASSUME NEW c \in 0..THREAD_COUNT*b-1 PROVE \E t \in Threads : c \in Columns(t, b)
  <2>1. b \in Nat \ {0}
    BY <1>0
  <2> DEFINE t == c \div b
             r == c % b
  <2>2. t \in 0..THREAD_COUNT-1 /\ r \in 0..b-1 /\ c = t * b + r
    BY <1>0, <2>1, Pairs
  <2> HIDE DEF t, r
  <2>3. t * b \in Nat
    BY <1>0, <2>1, <2>2
  <2>4. c \in Columns(t, b)
    BY <2>1, <2>2, <2>3 DEF Columns
  <2> QED BY <1>0, <2>2, <2>4
<1> QED BY <1>1, <1>2, <1>3

LEMMA VectorCellJob ==
  ASSUME NEW t \in Threads, NEW i \in 0..M-1, NEW s \in 0..Rounds-1, Job(t, s).cell = <<i>>
  PROVE  s \in 0..VectorRounds-1 /\ VRow(s) = i
<1>1. CASE s \in 0..VectorRounds-1
  <2>1. Job(t, s).cell = <<VRow(s)>>
    BY <1>1, VectorJob DEF VectorTerm
  <2> QED BY <1>1, <2>1
<1>2. CASE s \in VectorRounds..Rounds-1
  <2> DEFINE r == s - VectorRounds
  <2>1. Job(t, s).cell = <<MRow(r), MCol(r) + t * Block(K)>>
    BY <1>2, MatrixJob DEF MatrixTerm
  <2> QED BY <2>1
<1> QED BY <1>1, <1>2, RoundsFacts

LEMMA MatrixCellJob ==
  ASSUME NEW t \in Threads, NEW i \in 0..M-1, NEW k, NEW s \in 0..Rounds-1,
         Job(t, s).cell = <<i, k>>
  PROVE  /\ s \in VectorRounds..Rounds-1 /\ s - VectorRounds \in 0..MatrixRounds-1
         /\ MRow(s - VectorRounds) = i /\ MCol(s - VectorRounds) + t * Block(K) = k
<1>1. CASE s \in 0..VectorRounds-1
  <2>1. Job(t, s).cell = <<VRow(s)>>
    BY <1>1, VectorJob DEF VectorTerm
  <2> QED BY <2>1
<1>2. CASE s \in VectorRounds..Rounds-1
  <2> DEFINE r == s - VectorRounds
  <2>1. Job(t, s).cell = <<MRow(r), MCol(r) + t * Block(K)>> /\ r \in 0..MatrixRounds-1
    BY <1>2, MatrixJob DEF MatrixTerm
  <2> HIDE DEF r
  <2>2. MRow(r) = i /\ MCol(r) + t * Block(K) = k
    BY <2>1
  <2> QED BY <1>2, <2>1, <2>2 DEF r
<1> QED BY <1>1, <1>2, RoundsFacts

\* What thread t has added to a cell of the vector when it exits: the products
\* of its columns.
LEMMA VectorShare ==
  ASSUME input \in Inputs, program.vector # "none", NEW t \in Threads, NEW i \in 0..M-1,
         NEW g, \A j \in 0..N-1 : g[j] = input.A[i][j] * input.v[j]
  PROVE  ShareOf(t, <<i>>, 0..Rounds-1) = Total(g, Columns(t, Block(N)))
<1> DEFINE b == Block(N)
           A == Added(t, <<i>>, 0..Rounds-1)
           f == [s \in A |-> VCol(s) + t * b]
           R == Columns(t, b)
<1>0. b \in Nat \ {0} /\ t \in Nat /\ t * b \in Nat /\ N = THREAD_COUNT * b
  <2>1. b \in Nat \ {0} /\ t \in Nat /\ N = THREAD_COUNT * b
    BY BlockFacts, MatrixAssumption DEF Threads
  <2> HIDE DEF b
  <2> QED BY <2>1
<1>1. \A s \in A : s \in 0..VectorRounds-1 /\ s \in 0..M*b-1 /\ VRow(s) = i
  BY VectorCellJob, RoundsFacts DEF Added
<1>2. \A s \in A : VCol(s) \in 0..b-1 /\ s = VRound(i, VCol(s))
  BY <1>1, VectorDigits
<1>3. f \in [A -> R]
  <2> HIDE DEF b, A
  <2>1. \A s \in A : VCol(s) + t * b \in R
    BY <1>0, <1>2 DEF Columns
  <2> HIDE DEF R
  <2> QED BY <2>1
<1>4. \A x, y \in A : f[x] = f[y] => x = y
  <2> HIDE DEF b, A
  <2>1. \A x, y \in A : VCol(x) + t * b = VCol(y) + t * b => VCol(x) = VCol(y)
    BY <1>0, <1>2
  <2> QED BY <1>2, <2>1
<1>5. ASSUME NEW z \in R PROVE \E x \in A : f[x] = z
  <2> DEFINE j == z - t * b
             s == VRound(i, j)
  <2>1. j \in 0..b-1 /\ z = j + t * b
    <3> HIDE DEF b
    <3> QED BY <1>0 DEF Columns
  <2>2. s \in 0..M*b-1 /\ VRow(s) = i /\ VCol(s) = j
    <3> HIDE DEF j
    <3> QED BY <2>1, VectorDigits
  <2>3. s \in 0..VectorRounds-1 /\ s \in 0..Rounds-1
    <3> HIDE DEF s
    <3> QED BY <2>2, RoundsFacts
  <2>4. Job(t, s).cell = <<i>>
    <3> HIDE DEF s
    <3> QED BY <2>2, <2>3, VectorJob DEF VectorTerm
  <2>5. s \in A
    BY <2>3, <2>4 DEF Added
  <2> HIDE DEF s, A, b, j
  <2> QED BY <2>1, <2>2, <2>5
<1>6. ASSUME NEW s \in A PROVE Terms(t, A)[s] \in Nat /\ Terms(t, A)[s] = g[f[s]]
  <2>1. f[s] \in 0..N-1
    <3>1. f[s] \in Columns(t, b) /\ Columns(t, b) \subseteq 0..THREAD_COUNT*b-1
      <4> HIDE DEF A, b
      <4> QED BY <1>0, <1>3, ColumnsPart
    <3> QED BY <1>0, <3>1
  <2>2. Job(t, s).term = input.A[i][f[s]] * input.v[f[s]]
    <3>1. f[s] = VCol(s) + t * b
      OBVIOUS
    <3> HIDE DEF f, A
    <3> QED BY <1>1, <3>1, VectorJob DEF VectorTerm
  <2>3. Terms(t, A)[s] = Job(t, s).term
    BY DEF Terms
  <2>4. Job(t, s).term \in Nat
    BY JobFacts DEF Added
  <2> QED BY <2>1, <2>2, <2>3, <2>4
<1>7. IsFiniteSet(A)
  BY AddedFacts
<1> HIDE DEF A, f, R
<1>8. Total(Terms(t, A), A) = Total(g, R)
  BY <1>3, <1>4, <1>5, <1>6, <1>7, TotalMove
<1> QED BY <1>8 DEF ShareOf, A, R

\* What thread t has added to a cell of the matrix when it exits: all the
\* products if the column is one of its own, and nothing otherwise.
LEMMA MatrixShare ==
  ASSUME input \in Inputs, program.matrix # "none", NEW t \in Threads, NEW i \in 0..M-1,
         NEW k \in Columns(t, Block(K)),
         NEW g, \A j \in 0..N-1 : g[j] = input.A[i][j] * input.B[j][k]
  PROVE  ShareOf(t, <<i, k>>, 0..Rounds-1) = Total(g, 0..N-1)
<1> DEFINE b == Block(K)
           V == VectorRounds
           A == Added(t, <<i, k>>, 0..Rounds-1)
           f == [s \in A |-> MIn(s - V)]
           q == k - t * b
<1>0. b \in Nat /\ t \in Nat /\ t * b \in Nat /\ V \in Nat /\ Rounds \in Nat
  <2>1. b \in Nat /\ t \in Nat /\ V \in Nat /\ Rounds \in Nat
    BY BlockFacts, RoundsFacts, MatrixAssumption DEF Threads
  <2> HIDE DEF b, V
  <2> QED BY <2>1
<1>1. q \in 0..b-1 /\ k = q + t * b /\ b # 0
  <2>1. k \in Columns(t, b)
    OBVIOUS
  <2> HIDE DEF b
  <2> QED BY <1>0, <2>1 DEF Columns
<1>2. ASSUME NEW s \in A
      PROVE  /\ s \in V..Rounds-1 /\ s - V \in 0..MatrixRounds-1 /\ s - V \in 0..M*N*b-1
             /\ MRow(s - V) = i /\ MCol(s - V) = q
  <2>1. s \in 0..Rounds-1 /\ Job(t, s).cell = <<i, k>>
    BY DEF Added
  <2>2. /\ s \in V..Rounds-1 /\ s - V \in 0..MatrixRounds-1
        /\ MRow(s - V) = i /\ MCol(s - V) + t * b = k
    BY <2>1, MatrixCellJob
  <2>3. s - V \in 0..M*N*b-1
    BY <2>2, RoundsFacts
  <2>4. MCol(s - V) \in 0..b-1
    BY <1>1, <2>3, MatrixDigits
  <2>5. MCol(s - V) = q
    <3> HIDE DEF b, V, A
    <3> QED BY <1>0, <2>2, <2>4
  <2> QED BY <2>2, <2>3, <2>5
<1>3. \A s \in A : MIn(s - V) \in 0..N-1 /\ s - V = MRound(i, MIn(s - V), q)
  <2> SUFFICES ASSUME NEW s \in A
               PROVE  MIn(s - V) \in 0..N-1 /\ s - V = MRound(i, MIn(s - V), q)
    OBVIOUS
  <2> DEFINE r == s - V
  <2>1. r \in 0..M*N*b-1 /\ MRow(r) = i /\ MCol(r) = q
    BY <1>2
  <2> HIDE DEF r
  <2>2. MIn(r) \in 0..N-1 /\ r = MRound(i, MIn(r), q)
    BY <1>1, <2>1, MatrixDigits
  <2> QED BY <2>2 DEF r
<1>4. f \in [A -> 0..N-1]
  <2> HIDE DEF A, V
  <2> QED BY <1>3
<1>5. \A x, y \in A : f[x] = f[y] => x = y
  <2> SUFFICES ASSUME NEW x \in A, NEW y \in A, MIn(x - V) = MIn(y - V) PROVE x = y
    OBVIOUS
  <2>1. x - V = y - V
    BY <1>3
  <2>2. x \in Int /\ y \in Int
    BY <1>0, <1>2
  <2> HIDE DEF A, V
  <2> QED BY <1>0, <2>1, <2>2
<1>6. ASSUME NEW j \in 0..N-1 PROVE \E x \in A : f[x] = j
  <2> DEFINE r == MRound(i, j, q)
             s == V + r
  <2>1. r \in 0..M*N*b-1 /\ MRow(r) = i /\ MIn(r) = j /\ MCol(r) = q
    BY <1>1, MatrixDigits
  <2>2. MatrixRounds = M*N*b /\ Rounds = V + MatrixRounds
    BY RoundsFacts
  <2>3. r \in 0..MatrixRounds-1
    <3> HIDE DEF r, b
    <3> QED BY <2>1, <2>2
  <2>4. s \in V..Rounds-1 /\ s - V = r /\ s \in 0..Rounds-1
    <3>1. MatrixRounds \in Nat
      BY RoundsFacts
    <3> HIDE DEF r, V
    <3> QED BY <1>0, <2>2, <2>3, <3>1
  <2>5. Job(t, s).cell = <<MRow(r), MCol(r) + t * b>>
    <3>1. Job(t, s) = MatrixTerm(t, MRow(s - V), MIn(s - V), MCol(s - V))
      <4> HIDE DEF s
      <4> QED BY <2>4, MatrixJob
    <3>2. Job(t, s) = MatrixTerm(t, MRow(r), MIn(r), MCol(r))
      <4> HIDE DEF s, r, V
      <4> QED BY <2>4, <3>1
    <3> QED BY <3>2 DEF MatrixTerm
  <2>6. Job(t, s).cell = <<i, k>>
    <3> HIDE DEF s, r, b, q
    <3> QED BY <1>1, <2>1, <2>5
  <2>7. s \in A
    BY <2>4, <2>6 DEF Added
  <2>8. f[s] = MIn(s - V)
    <3> HIDE DEF s, A
    <3> QED BY <2>7
  <2> HIDE DEF s, A, f, r, V
  <2> QED BY <2>1, <2>4, <2>7, <2>8
<1>7. ASSUME NEW s \in A PROVE Terms(t, A)[s] \in Nat /\ Terms(t, A)[s] = g[f[s]]
  <2>1. f[s] \in 0..N-1 /\ f[s] = MIn(s - V)
    <3> HIDE DEF A, V
    <3> QED BY <1>4
  <2>2. Job(t, s) = MatrixTerm(t, MRow(s - V), MIn(s - V), MCol(s - V))
    BY <1>2, MatrixJob
  <2>3. MRow(s - V) = i /\ MCol(s - V) + t * b = k
    BY <1>1, <1>2
  <2>4. Job(t, s).term = input.A[i][f[s]] * input.B[f[s]][k]
    <3> HIDE DEF A, V, f, q
    <3> QED BY <2>1, <2>2, <2>3 DEF MatrixTerm
  <2>5. Terms(t, A)[s] = Job(t, s).term
    BY DEF Terms
  <2>6. Job(t, s).term \in Nat
    BY JobFacts DEF Added
  <2> HIDE DEF A, f
  <2> QED BY <2>1, <2>4, <2>5, <2>6
<1>8. IsFiniteSet(A)
  BY AddedFacts
<1> HIDE DEF A, f, V, b, q
<1>9. Total(Terms(t, A), A) = Total(g, 0..N-1)
  <2> DEFINE e == Terms(t, A)
             R == 0..N-1
  <2>1. /\ f \in [A -> R] /\ \A z \in R : \E x \in A : f[x] = z
        /\ \A s \in A : e[s] \in Nat /\ e[s] = g[f[s]]
    BY <1>4, <1>6, <1>7
  <2> HIDE DEF e, R
  <2>2. Total(e, A) = Total(g, R)
    BY <1>5, <1>8, <2>1, TotalMove
  <2> QED BY <2>2 DEF e, R
<1> QED BY <1>9 DEF ShareOf, A

LEMMA MatrixShareOther ==
  ASSUME input \in Inputs, NEW t \in Threads, NEW i \in 0..M-1,
         NEW k \in 0..K-1, k \notin Columns(t, Block(K))
  PROVE  ShareOf(t, <<i, k>>, 0..Rounds-1) = 0
<1> DEFINE b == Block(K)
           A == Added(t, <<i, k>>, 0..Rounds-1)
<1>0. b \in Nat /\ t \in Nat /\ t * b \in Nat
  <2>1. b \in Nat /\ t \in Nat
    BY BlockFacts, MatrixAssumption DEF Threads
  <2> HIDE DEF b
  <2> QED BY <2>1
<1>1. ASSUME NEW s \in A PROVE FALSE
  <2> DEFINE r == s - VectorRounds
  <2>1. s \in 0..Rounds-1 /\ Job(t, s).cell = <<i, k>>
    BY DEF Added
  <2>2. r \in 0..MatrixRounds-1 /\ MCol(r) + t * b = k
    BY <2>1, MatrixCellJob
  <2> HIDE DEF r
  <2>3. MCol(r) \in 0..b-1
    BY <2>2, RoundsFacts, MatrixDigits
  <2>4. k \in Columns(t, b)
    <3> HIDE DEF b
    <3> QED BY <1>0, <2>2, <2>3 DEF Columns
  <2> QED BY <2>4
<1>2. A = {}
  BY <1>1
<1>3. IsFiniteSet(A) /\ \A s \in A : Terms(t, A)[s] \in Nat
  BY <1>2, FS_EmptySet
<1> HIDE DEF A
<1> QED BY <1>2, <1>3, TotalFacts DEF ShareOf, A

\* The sums of ProductAtEnd.
LEMMA VectorSum ==
  ASSUME NEW i
  PROVE  MapThenSumSet(LAMBDA j : input.A[i][j] * input.v[j], 0..N-1)
           = Total([j \in 0..N-1 |-> input.A[i][j] * input.v[j]], 0..N-1)
<1> DEFINE S == 0..N-1
           g == [j \in S |-> input.A[i][j] * input.v[j]]
           it(f) == f = [s \in SUBSET S |-> IF s = {} THEN 0 ELSE
                           input.A[i][Pick(s)] * input.v[Pick(s)] + f[s \ {Pick(s)}]]
           iter == CHOOSE f : it(f)
<1>1. MapThenSumSet(LAMBDA j : input.A[i][j] * input.v[j], S) = iter[S]
  BY DEF MapThenSumSet, MapThenFoldSet, Pick
<1>2. ASSUME NEW f PROVE it(f) <=> Totals(g, S, f)
  <2> DEFINE a == [s \in SUBSET S |-> IF s = {} THEN 0 ELSE
                     input.A[i][Pick(s)] * input.v[Pick(s)] + f[s \ {Pick(s)}]]
             b == [s \in SUBSET S |-> IF s = {} THEN 0 ELSE g[Pick(s)] + f[s \ {Pick(s)}]]
  <2>1. \A s \in SUBSET S : s # {} => Pick(s) \in S
    BY DEF Pick
  <2>2. \A s \in SUBSET S : a[s] = b[s]
    <3> HIDE DEF S
    <3> QED BY <2>1
  <2>3. a = b
    <3> HIDE DEF S, g
    <3> QED BY <2>2
  <2> QED BY <2>3 DEF Totals
<1>3. IsFiniteSet(S)
  BY FS_Interval, MatrixAssumption
<1>4. it(iter)
  <2>1. PICK f : Totals(g, S, f)
    <3> HIDE DEF S, g
    <3> QED BY <1>3, TotalsExist
  <2>2. it(f)
    BY <1>2, <2>1
  <2> HIDE DEF it
  <2> QED BY <2>2
<1> HIDE DEF it, iter
<1>5. Totals(g, S, iter)
  BY <1>2, <1>4
<1>6. iter[S] = Total(g, S)
  <2> HIDE DEF S, g
  <2> QED BY <1>3, <1>5, TotalIs
<1> QED BY <1>1, <1>6

LEMMA MatrixSum ==
  ASSUME NEW i, NEW k
  PROVE  MapThenSumSet(LAMBDA j : input.A[i][j] * input.B[j][k], 0..N-1)
           = Total([j \in 0..N-1 |-> input.A[i][j] * input.B[j][k]], 0..N-1)
<1> DEFINE S == 0..N-1
           g == [j \in S |-> input.A[i][j] * input.B[j][k]]
           it(f) == f = [s \in SUBSET S |-> IF s = {} THEN 0 ELSE
                           input.A[i][Pick(s)] * input.B[Pick(s)][k] + f[s \ {Pick(s)}]]
           iter == CHOOSE f : it(f)
<1>1. MapThenSumSet(LAMBDA j : input.A[i][j] * input.B[j][k], S) = iter[S]
  BY DEF MapThenSumSet, MapThenFoldSet, Pick
<1>2. ASSUME NEW f PROVE it(f) <=> Totals(g, S, f)
  <2> DEFINE a == [s \in SUBSET S |-> IF s = {} THEN 0 ELSE
                     input.A[i][Pick(s)] * input.B[Pick(s)][k] + f[s \ {Pick(s)}]]
             b == [s \in SUBSET S |-> IF s = {} THEN 0 ELSE g[Pick(s)] + f[s \ {Pick(s)}]]
  <2>1. \A s \in SUBSET S : s # {} => Pick(s) \in S
    BY DEF Pick
  <2>2. \A s \in SUBSET S : a[s] = b[s]
    <3> HIDE DEF S
    <3> QED BY <2>1
  <2>3. a = b
    <3> HIDE DEF S, g
    <3> QED BY <2>2
  <2> QED BY <2>3 DEF Totals
<1>3. IsFiniteSet(S)
  BY FS_Interval, MatrixAssumption
<1>4. it(iter)
  <2>1. PICK f : Totals(g, S, f)
    <3> HIDE DEF S, g
    <3> QED BY <1>3, TotalsExist
  <2>2. it(f)
    BY <1>2, <2>1
  <2> HIDE DEF it
  <2> QED BY <2>2
<1> HIDE DEF it, iter
<1>5. Totals(g, S, iter)
  BY <1>2, <1>4
<1>6. iter[S] = Total(g, S)
  <2> HIDE DEF S, g
  <2> QED BY <1>3, <1>5, TotalIs
<1> QED BY <1>1, <1>6

LEMMA EndIsProduct == ProgressInv /\ SumInv => ProductAtEnd
<1> SUFFICES ASSUME ProgressInv, SumInv, joined = THREAD_COUNT
             PROVE  /\ program.vector # "none" => \A i \in 0..M-1 :
                         result[<<i>>] = MapThenSumSet(LAMBDA j : input.A[i][j] * input.v[j], 0..N-1)
                    /\ program.matrix # "none" => \A i \in 0..M-1, k \in 0..K-1 :
                         result[<<i, k>>] =
                           MapThenSumSet(LAMBDA j : input.A[i][j] * input.B[j][k], 0..N-1)
  BY DEF ProductAtEnd
<1>0. input \in Inputs
  BY DEF ProgressInv, MatrixTypeOK
<1>1. \A t \in Threads : Stored(t) = 0..Rounds-1
  BY ThreadNumbers DEF ProgressInv, Stored
<1>2. \A c, t : t \in Threads => Share(c)[t] = ShareOf(t, c, 0..Rounds-1)
  BY <1>1 DEF Share
<1>3. ASSUME program.vector # "none", NEW i \in 0..M-1
      PROVE  result[<<i>>] = MapThenSumSet(LAMBDA j : input.A[i][j] * input.v[j], 0..N-1)
  <2> DEFINE b == Block(N)
             g == [j \in 0..N-1 |-> input.A[i][j] * input.v[j]]
             P == [t \in Threads |-> Columns(t, b)]
             R == 0..N-1
             h == Share(<<i>>)
  <2>1. result[<<i>>] = Total(h, Threads)
    BY DEF SumInv, Cells
  <2>2. \A t \in Threads : h[t] = Total(g, P[t])
    <3>1. \A j \in 0..N-1 : g[j] = input.A[i][j] * input.v[j]
      OBVIOUS
    <3> HIDE DEF g
    <3>2. \A t \in Threads : ShareOf(t, <<i>>, 0..Rounds-1) = Total(g, Columns(t, b))
      BY <1>0, <1>3, <3>1, VectorShare
    <3> QED BY <1>2, <3>2
  <2>3. /\ P \in [Threads -> SUBSET R]
        /\ \A t, u \in Threads : t # u => P[t] \cap P[u] = {}
        /\ \A z \in R : \E t \in Threads : z \in P[t]
    <3>1. b \in Nat /\ N = THREAD_COUNT * b
      BY BlockFacts
    <3> HIDE DEF b
    <3>2. /\ \A t \in Threads : Columns(t, b) \in SUBSET R
          /\ \A t, u \in Threads : t # u => Columns(t, b) \cap Columns(u, b) = {}
          /\ \A z \in R : \E t \in Threads : z \in Columns(t, b)
      BY <3>1, ColumnsPart
    <3> HIDE DEF R
    <3> QED BY <3>2
  <2>4. \A z \in R : g[z] \in Nat
    BY <1>0, InputFacts
  <2>5. IsFiniteSet(R)
    BY FS_Interval, MatrixAssumption
  <2>6. Total(h, Threads) = Total(g, R)
    <3> HIDE DEF h, g, P, R
    <3> QED BY <2>2, <2>3, <2>4, <2>5, ThreadsFinite, TotalParts
  <2> QED BY <2>1, <2>6, VectorSum
<1>4. ASSUME program.matrix # "none", NEW i \in 0..M-1, NEW k \in 0..K-1
      PROVE  result[<<i, k>>] =
               MapThenSumSet(LAMBDA j : input.A[i][j] * input.B[j][k], 0..N-1)
  <2> DEFINE b == Block(K)
             g == [j \in 0..N-1 |-> input.A[i][j] * input.B[j][k]]
             h == Share(<<i, k>>)
  <2>1. result[<<i, k>>] = Total(h, Threads)
    BY DEF SumInv, Cells
  <2>2. /\ \A t, u \in Threads : t # u => Columns(t, b) \cap Columns(u, b) = {}
        /\ \E t \in Threads : k \in Columns(t, b)
    BY BlockFacts, ColumnsPart
  <2>3. PICK t \in Threads : k \in Columns(t, b)
    BY <2>2
  <2>4. h[t] = Total(g, 0..N-1)
    <3>1. \A j \in 0..N-1 : g[j] = input.A[i][j] * input.B[j][k]
      OBVIOUS
    <3> HIDE DEF g
    <3>2. ShareOf(t, <<i, k>>, 0..Rounds-1) = Total(g, 0..N-1)
      BY <1>0, <1>4, <2>3, <3>1, MatrixShare
    <3> QED BY <1>2, <3>2
  <2>5. \A u \in Threads \ {t} : h[u] = 0
    <3> SUFFICES ASSUME NEW u \in Threads, u # t PROVE h[u] = 0
      OBVIOUS
    <3>1. k \notin Columns(u, b)
      BY <2>2, <2>3
    <3>2. ShareOf(u, <<i, k>>, 0..Rounds-1) = 0
      BY <1>0, <3>1, MatrixShareOther
    <3> QED BY <1>2, <3>2
  <2>6. Total(g, 0..N-1) \in Nat
    <3>1. \A j \in 0..N-1 : g[j] \in Nat
      BY <1>0, InputFacts
    <3>2. IsFiniteSet(0..N-1)
      BY FS_Interval, MatrixAssumption
    <3> HIDE DEF g
    <3> QED BY <3>1, <3>2, TotalFacts
  <2> HIDE DEF g, h
  <2>7. \A u \in Threads : h[u] \in Nat
    BY <2>4, <2>5, <2>6
  <2>8. Total(h, Threads) = h[t] + Total(h, Threads \ {t})
    BY <2>7, ThreadsFinite, TotalFacts
  <2>9. Total(h, Threads \ {t}) = 0
    <3>1. IsFiniteSet(Threads \ {t})
      BY ThreadsFinite, FS_RemoveElement
    <3> QED BY <2>5, <3>1, TotalZero
  <2>10. result[<<i, k>>] = Total(g, 0..N-1)
    BY <2>1, <2>4, <2>6, <2>8, <2>9
  <2> QED BY <2>10, MatrixSum DEF g
<1> QED BY <1>3, <1>4

(* When main has joined all threads the results are the products, for any   *)
(* number of threads that divides the dimensions, any matrices and all the  *)
(* builds: the threads' rounds go through each product once.                *)
THEOREM ProductCorrect == Spec => []ProductAtEnd
<1> QED BY EndIsProduct, SumAlways, PTL

=============================================================================
