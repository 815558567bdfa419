------------------------- MODULE ThreadSwitchProofs -------------------------
(***************************************************************************)
(* Lemmas about the building blocks of ThreadSwitch, for the proofs of the *)
(* modules that are composed of them: what a wakeup does to the tables,    *)
(* and that each way a thread moves keeps every thread in one place.       *)
(*                                                                         *)
(* The first lemmas are about the table operators of Arrays: a set of      *)
(* positions can be listed in ascending order, so that Entries is what it  *)
(* is meant to be, the entries at those positions, each of them once.      *)
(* This is an induction on the length of the table, done by looking at a   *)
(* least counterexample.                                                   *)
(***************************************************************************)
EXTENDS ThreadSwitch, FiniteSetTheorems, WellFoundedInduction, TLAPS

-----------------------------------------------------------------------------
(* Arrays *)

\* A nonempty set of natural numbers has a least element.
LEMMA LeastNumber ==
  ASSUME NEW T \in SUBSET Nat, T # {}
  PROVE  \E m \in T : \A k \in T : m <= k
<1> DEFINE R == {ss \in Nat \X Nat : ss[1] < ss[2]}
<1>1. IsWellFoundedOn(R, Nat)
  BY NatLessThanWellFounded, Zenon DEF OpToRel
<1>2. PICK m \in T : \A k \in T : ~(<<k, m>> \in R)
  <2> HIDE DEF R
  <2> QED BY <1>1, WFMin
<1>3. ASSUME NEW k \in T PROVE m <= k
  <2>1. k \in Nat /\ m \in Nat
    OBVIOUS
  <2>2. <<k, m>> \in Nat \X Nat /\ <<k, m>>[1] = k /\ <<k, m>>[2] = m
    BY <2>1
  <2>3. ~(k < m)
    BY <1>2, <2>2
  <2> QED BY <2>1, <2>3
<1> QED BY <1>3

LEMMA PositionsFinite ==
  ASSUME NEW n \in Nat, NEW J \in SUBSET (1..n)
  PROVE  IsFiniteSet(J) /\ Cardinality(J) \in Nat
<1>1. IsFiniteSet(1..n)
  BY FS_Interval
<1>2. IsFiniteSet(J)
  BY <1>1, FS_Subset
<1> QED BY <1>2, FS_CardinalityType

\* The positions I can be listed in ascending order.
Listable(I) ==
  \E f \in Bijection(1..Cardinality(I), I) :
    \A j, k \in 1..Cardinality(I) : j < k => f[j] < f[k]

LEMMA AscendingExists ==
  ASSUME NEW n \in Nat, NEW I \in SUBSET (1..n)
  PROVE  Listable(I)
<1> DEFINE Bad == {b \in Nat : \E J \in SUBSET (1..b) : ~Listable(J)}
<1>1. SUFFICES ASSUME Bad # {} PROVE FALSE
  OBVIOUS
<1>2. PICK b \in Bad : \A k \in Bad : b <= k
  BY <1>1, LeastNumber
<1>3. PICK J \in SUBSET (1..b) : ~Listable(J)
  OBVIOUS
<1>4. /\ IsFiniteSet(J) /\ Cardinality(J) \in Nat
  BY PositionsFinite
<1>5. CASE b = 0
  <2>1. J = {} /\ Cardinality(J) = 0
    <3>1. J = {}
      BY <1>5
    <3> QED BY <3>1, <1>4, FS_EmptySet
  <2>2. [k \in {} |-> k] \in Bijection(1..Cardinality(J), J)
    BY <2>1 DEF Bijection, Injection, Surjection, IsInjective
  <2> QED BY <1>3, <2>1, <2>2 DEF Listable
<1>6. CASE b # 0
  <2>0. b - 1 \in Nat /\ b - 1 \notin Bad
    BY <1>2, <1>6
  <2>1. \A K \in SUBSET (1..(b - 1)) : Listable(K)
    BY <2>0
  <2>2. b \in J
    <3>1. SUFFICES ASSUME b \notin J PROVE FALSE
      OBVIOUS
    <3>2. J \in SUBSET (1..(b - 1))
      BY <3>1, <1>6
    <3> QED BY <3>2, <2>1, <1>3
  <2> DEFINE K == J \ {b}
             c == Cardinality(K)
  <2>3. K \in SUBSET (1..(b - 1))
    BY <1>6
  <2>4. /\ c \in Nat /\ Cardinality(J) = c + 1
    <3>1. IsFiniteSet(K) /\ Cardinality(K) = Cardinality(J) - 1
      BY <1>4, <2>2, FS_RemoveElement
    <3>2. Cardinality(K) \in Nat
      BY <3>1, FS_CardinalityType
    <3> QED BY <3>1, <3>2, <1>4
  <2>5. PICK f \in Bijection(1..c, K) : \A j, k \in 1..c : j < k => f[j] < f[k]
    BY <2>1, <2>3 DEF Listable
  <2>6. /\ f \in [1..c -> K]
        /\ \A t \in K : \E s \in 1..c : f[s] = t
    BY <2>5 DEF Bijection, Surjection
  <2> DEFINE g == [i \in 1..(c + 1) |-> IF i = c + 1 THEN b ELSE f[i]]
  <2> HIDE DEF K, c
  <2>7. g \in [1..(c + 1) -> J]
    BY <2>6, <2>2, <2>4 DEF K
  <2>8. \A j, k \in 1..(c + 1) : j < k => g[j] < g[k]
    <3> SUFFICES ASSUME NEW j \in 1..(c + 1), NEW k \in 1..(c + 1), j < k
                 PROVE  g[j] < g[k]
      OBVIOUS
    <3>1. j \in 1..c /\ g[j] = f[j]
      BY <2>4
    <3>2. f[j] \in 1..(b - 1)
      BY <3>1, <2>6, <2>3
    <3>3. CASE k = c + 1
      BY <3>1, <3>2, <3>3, <2>4
    <3>4. CASE k # c + 1
      BY <3>1, <3>4, <2>5, <2>4
    <3> QED BY <3>3, <3>4
  <2>9. IsInjective(g)
    <3> SUFFICES ASSUME NEW j \in 1..(c + 1), NEW k \in 1..(c + 1), g[j] = g[k]
                 PROVE  j = k
      BY DEF IsInjective
    <3>1. g[j] \in 1..b /\ g[k] \in 1..b
      BY <2>7
    <3>2. ~(j < k) /\ ~(k < j)
      BY <3>1, <2>8
    <3> QED BY <3>2, <2>4
  <2>10. \A t \in J : \E s \in 1..(c + 1) : g[s] = t
    <3> SUFFICES ASSUME NEW t \in J PROVE \E s \in 1..(c + 1) : g[s] = t
      OBVIOUS
    <3>1. CASE t = b
      BY <3>1, <2>4
    <3>2. CASE t # b
      <4>1. PICK s \in 1..c : f[s] = t
        BY <3>2, <2>6 DEF K
      <4>2. s \in 1..(c + 1) /\ g[s] = t
        BY <4>1, <2>4
      <4> QED BY <4>2
    <3> QED BY <3>1, <3>2
  <2>11. g \in Bijection(1..(c + 1), J)
    BY <2>7, <2>9, <2>10 DEF Bijection, Injection, Surjection
  <2>12. Listable(J)
    BY <2>11, <2>8, <2>4 DEF Listable
  <2> QED BY <2>12, <1>3
<1> QED BY <1>5, <1>6

\* Ascending(I) lists the positions I, each of them once, in order.
LEMMA AscendingLists ==
  ASSUME NEW n \in Nat, NEW I \in SUBSET (1..n)
  PROVE  /\ Cardinality(I) \in Nat
         /\ Ascending(I) \in [1..Cardinality(I) -> I]
         /\ \A i \in I : \E k \in 1..Cardinality(I) : Ascending(I)[k] = i
         /\ \A j, k \in 1..Cardinality(I) : j < k => Ascending(I)[j] < Ascending(I)[k]
<1>1. Ascending(I) \in Bijection(1..Cardinality(I), I)
      /\ \A j, k \in 1..Cardinality(I) : j < k => Ascending(I)[j] < Ascending(I)[k]
  BY AscendingExists DEF Listable, Ascending
<1>2. Cardinality(I) \in Nat
  BY PositionsFinite
<1> QED BY <1>1, <1>2 DEF Bijection, Surjection

-----------------------------------------------------------------------------

\* Entries takes a table to a table that holds what stood at the positions I.
LEMMA EntriesType ==
  ASSUME NEW T, NEW q \in Seq(T), NEW I \in SUBSET (DOMAIN q)
  PROVE  Entries(q, I) \in Seq(T)
<1>1. Len(q) \in Nat /\ DOMAIN q = 1..Len(q)
  OBVIOUS
<1>2. /\ Cardinality(I) \in Nat
      /\ Ascending(I) \in [1..Cardinality(I) -> I]
  BY <1>1, AscendingLists
<1>3. \A k \in 1..Cardinality(I) : q[Ascending(I)[k]] \in T
  BY <1>1, <1>2
<1> QED BY <1>2, <1>3 DEF Entries

LEMMA EntriesRange ==
  ASSUME NEW T, NEW q \in Seq(T), NEW I \in SUBSET (DOMAIN q)
  PROVE  Range(Entries(q, I)) = {q[i] : i \in I}
<1>1. Len(q) \in Nat /\ DOMAIN q = 1..Len(q)
  OBVIOUS
<1>2. /\ Ascending(I) \in [1..Cardinality(I) -> I]
      /\ \A i \in I : \E k \in 1..Cardinality(I) : Ascending(I)[k] = i
  BY <1>1, AscendingLists
<1>3. Range(Entries(q, I)) = {q[Ascending(I)[k]] : k \in 1..Cardinality(I)}
  BY DEF Range, Entries
<1> QED BY <1>2, <1>3

\* A table without duplicates stays one.
LEMMA EntriesInjective ==
  ASSUME NEW T, NEW q \in Seq(T), IsInjective(q), NEW I \in SUBSET (DOMAIN q)
  PROVE  IsInjective(Entries(q, I))
<1>1. Len(q) \in Nat /\ DOMAIN q = 1..Len(q)
  OBVIOUS
<1>2. /\ Cardinality(I) \in Nat
      /\ Ascending(I) \in [1..Cardinality(I) -> I]
      /\ \A j, k \in 1..Cardinality(I) : j < k => Ascending(I)[j] < Ascending(I)[k]
  BY <1>1, AscendingLists
<1> DEFINE e == Entries(q, I)
<1>3. DOMAIN e = 1..Cardinality(I)
      /\ \A k \in 1..Cardinality(I) : e[k] = q[Ascending(I)[k]]
  BY DEF Entries
<1> SUFFICES ASSUME NEW j \in 1..Cardinality(I), NEW k \in 1..Cardinality(I),
                    e[j] = e[k]
             PROVE  j = k
  BY <1>3 DEF IsInjective
<1>4. Ascending(I)[j] \in DOMAIN q /\ Ascending(I)[k] \in DOMAIN q
  BY <1>2
<1>5. Ascending(I)[j] = Ascending(I)[k]
  BY <1>3, <1>4 DEF IsInjective
<1>6. Ascending(I)[j] \in Int /\ ~(j < k) /\ ~(k < j)
  BY <1>1, <1>2, <1>4, <1>5
<1> QED BY <1>2, <1>6

-----------------------------------------------------------------------------
(* Threads and tables *)

\* Elements and duplicates under the sequence operators that the code's
\* array_add, array_remove and queue operations come down to.
LEMMA ConcatRange ==
  ASSUME NEW T, NEW a \in Seq(T), NEW b \in Seq(T)
  PROVE  Range(a \o b) = Range(a) \cup Range(b)
<1>1. ASSUME NEW x \in Range(a \o b) PROVE x \in Range(a) \cup Range(b)
  <2>1. PICK i \in 1..(Len(a) + Len(b)) : x = (a \o b)[i]
    BY DEF Range
  <2>2. CASE i <= Len(a)
    BY <2>1, <2>2 DEF Range
  <2>3. CASE i > Len(a)
    <3>1. i - Len(a) \in 1..Len(b) /\ x = b[i - Len(a)]
      BY <2>1, <2>3
    <3> QED BY <3>1 DEF Range
  <2> QED BY <2>1, <2>2, <2>3
<1>2. ASSUME NEW x \in Range(a) PROVE x \in Range(a \o b)
  <2>1. PICK i \in 1..Len(a) : x = a[i]
    BY DEF Range
  <2>2. i \in DOMAIN (a \o b) /\ (a \o b)[i] = x
    BY <2>1
  <2> QED BY <2>2 DEF Range
<1>3. ASSUME NEW x \in Range(b) PROVE x \in Range(a \o b)
  <2>1. PICK i \in 1..Len(b) : x = b[i]
    BY DEF Range
  <2>2. Len(a) + i \in DOMAIN (a \o b) /\ (a \o b)[Len(a) + i] = x
    BY <2>1
  <2> QED BY <2>2 DEF Range
<1> QED BY <1>1, <1>2, <1>3

LEMMA ConcatInjective ==
  ASSUME NEW T, NEW a \in Seq(T), NEW b \in Seq(T),
         IsInjective(a), IsInjective(b), Range(a) \cap Range(b) = {}
  PROVE  IsInjective(a \o b)
<1> SUFFICES ASSUME NEW i \in 1..(Len(a) + Len(b)), NEW j \in 1..(Len(a) + Len(b)),
                    (a \o b)[i] = (a \o b)[j], i <= j
             PROVE  i = j
  BY DEF IsInjective
<1>1. CASE j <= Len(a)
  BY <1>1 DEF IsInjective
<1>2. CASE i > Len(a)
  <2>1. i - Len(a) \in 1..Len(b) /\ j - Len(a) \in 1..Len(b)
        /\ b[i - Len(a)] = b[j - Len(a)]
    BY <1>2
  <2>2. i - Len(a) = j - Len(a)
    BY <2>1 DEF IsInjective
  <2> QED BY <2>2
<1>3. CASE i <= Len(a) /\ j > Len(a)
  <2>1. i \in 1..Len(a) /\ j - Len(a) \in 1..Len(b) /\ a[i] = b[j - Len(a)]
    BY <1>3
  <2>2. a[i] \in Range(a) /\ b[j - Len(a)] \in Range(b)
    BY <2>1 DEF Range
  <2> QED BY <2>1, <2>2
<1> QED BY <1>1, <1>2, <1>3

LEMMA AppendFacts ==
  ASSUME NEW T, NEW a \in Seq(T), NEW x \in T
  PROVE  /\ Append(a, x) \in Seq(T)
         /\ Range(Append(a, x)) = Range(a) \cup {x}
         /\ IsInjective(a) /\ x \notin Range(a) => IsInjective(Append(a, x))
<1>1. /\ DOMAIN Append(a, x) = 1..(Len(a) + 1)
      /\ Append(a, x)[Len(a) + 1] = x
      /\ \A i \in 1..Len(a) : Append(a, x)[i] = a[i]
  OBVIOUS
<1>2. Range(Append(a, x)) = Range(a) \cup {x}
  <2>1. Range(a) = {a[i] : i \in 1..Len(a)}
    BY DEF Range
  <2>2. \A i \in 1..(Len(a) + 1) : i = Len(a) + 1 \/ i \in 1..Len(a)
    OBVIOUS
  <2>3. 1..Len(a) \subseteq 1..(Len(a) + 1) /\ Len(a) + 1 \in 1..(Len(a) + 1)
    OBVIOUS
  <2> QED BY <1>1, <2>1, <2>2, <2>3 DEF Range
<1>3. ASSUME IsInjective(a), x \notin Range(a) PROVE IsInjective(Append(a, x))
  BY <1>1, <1>3 DEF IsInjective, Range
<1> QED BY <1>2, <1>3

LEMMA HeadTailFacts ==
  ASSUME NEW T, NEW a \in Seq(T), a # <<>>
  PROVE  /\ Head(a) \in T /\ Tail(a) \in Seq(T)
         /\ Range(a) = {Head(a)} \cup Range(Tail(a))
         /\ IsInjective(a) => IsInjective(Tail(a)) /\ Head(a) \notin Range(Tail(a))
<1>1. /\ Len(a) \in Nat \ {0} /\ Head(a) = a[1] /\ Tail(a) \in Seq(T)
      /\ Len(Tail(a)) = Len(a) - 1
      /\ \A i \in 1..(Len(a) - 1) : Tail(a)[i] = a[i + 1]
  OBVIOUS
<1>2. Range(a) = {Head(a)} \cup Range(Tail(a))
  <2>1. ASSUME NEW x \in Range(a) PROVE x \in {Head(a)} \cup Range(Tail(a))
    <3>1. PICK i \in 1..Len(a) : x = a[i]
      BY DEF Range
    <3>2. i = 1 \/ (i - 1 \in 1..(Len(a) - 1) /\ Tail(a)[i - 1] = x)
      BY <1>1, <3>1
    <3>3. CASE i = 1
      BY <1>1, <3>1, <3>3
    <3>4. CASE i - 1 \in 1..(Len(a) - 1) /\ Tail(a)[i - 1] = x
      <4>1. i - 1 \in DOMAIN Tail(a)
        BY <1>1, <3>4
      <4> QED BY <3>4, <4>1 DEF Range
    <3> QED BY <3>2, <3>3, <3>4
  <2>2. ASSUME NEW x \in Range(Tail(a)) PROVE x \in Range(a)
    <3>1. PICK i \in 1..(Len(a) - 1) : x = Tail(a)[i]
      BY <1>1 DEF Range
    <3>2. i + 1 \in DOMAIN a /\ x = a[i + 1]
      BY <1>1, <3>1
    <3> QED BY <3>2 DEF Range
  <2>3. Head(a) \in Range(a)
    BY <1>1 DEF Range
  <2> QED BY <2>1, <2>2, <2>3
<1>3. ASSUME IsInjective(a)
      PROVE  IsInjective(Tail(a)) /\ Head(a) \notin Range(Tail(a))
  <2>1. IsInjective(Tail(a))
    <3> SUFFICES ASSUME NEW i \in 1..(Len(a) - 1), NEW j \in 1..(Len(a) - 1),
                        Tail(a)[i] = Tail(a)[j]
                 PROVE  i = j
      BY <1>1 DEF IsInjective
    <3>1. i + 1 \in DOMAIN a /\ j + 1 \in DOMAIN a /\ a[i + 1] = a[j + 1]
      BY <1>1
    <3>2. i + 1 = j + 1
      BY <1>3, <3>1 DEF IsInjective
    <3> QED BY <3>2
  <2>2. ASSUME NEW i \in 1..(Len(a) - 1), Tail(a)[i] = Head(a) PROVE FALSE
    <3>1. i + 1 \in DOMAIN a /\ 1 \in DOMAIN a /\ a[i + 1] = a[1]
      BY <1>1, <2>2
    <3>2. i + 1 = 1
      BY <1>3, <3>1 DEF IsInjective
    <3> QED BY <3>2
  <2>3. Head(a) \notin Range(Tail(a))
    BY <1>1, <2>2 DEF Range
  <2> QED BY <2>1, <2>3
<1> QED BY <1>1, <1>2, <1>3

-----------------------------------------------------------------------------
(* How threads move *)

\* thread_wakeup: the entries at the positions I of the table s move to the
\* tail of the run queue q, the others stay.
LEMMA WakeupPlaced ==
  ASSUME NEW q \in Seq(Threads), NEW s \in Seq(Threads), NEW cur, NEW sa,
         NEW I \in SUBSET (DOMAIN s), Placed(q, s, cur, sa)
  PROVE  Placed(q \o Entries(s, I), Entries(s, DOMAIN s \ I), cur, sa)
<1> DEFINE up == Entries(s, I)
           rest == Entries(s, DOMAIN s \ I)
<1>1. /\ up \in Seq(Threads) /\ rest \in Seq(Threads)
      /\ Range(up) = {s[i] : i \in I}
      /\ Range(rest) = {s[i] : i \in DOMAIN s \ I}
  BY EntriesType, EntriesRange
<1>2. /\ IsInjective(q) /\ IsInjective(s)
      /\ Range(q) \cap Range(s) = {}
      /\ cur \notin Range(q) \cup Range(s)
      /\ Threads \subseteq Range(q) \cup Range(s) \cup {cur}
      /\ \A t \in Range(s) : sa[t] # NULL
  BY DEF Placed
<1>3. IsInjective(up) /\ IsInjective(rest)
  BY <1>2, EntriesInjective
<1>4. Range(s) = Range(up) \cup Range(rest) /\ Range(up) \cap Range(rest) = {}
  <2>1. Range(s) = {s[i] : i \in DOMAIN s}
    BY DEF Range
  <2>2. \A i, j \in DOMAIN s : s[i] = s[j] => i = j
    BY <1>2 DEF IsInjective
  <2> HIDE DEF up, rest
  <2> QED BY <1>1, <2>1, <2>2
<1> HIDE DEF up, rest
<1>5. Range(q) \cap Range(up) = {}
  BY <1>2, <1>4
<1>6. IsInjective(q \o up) /\ Range(q \o up) = Range(q) \cup Range(up)
  BY <1>1, <1>2, <1>3, <1>5, ConcatInjective, ConcatRange
<1>7. Placed(q \o up, rest, cur, sa)
  BY <1>2, <1>3, <1>4, <1>6 DEF Placed
<1> QED BY <1>7 DEF up, rest

\* thread_yield: the running thread goes to the tail of the run queue.
LEMMA YieldPlaced ==
  ASSUME NEW q \in Seq(Threads), NEW s \in Seq(Threads), NEW cur \in Threads, NEW sa,
         Placed(q, s, cur, sa)
  PROVE  Placed(Append(q, cur), s, NULL, sa)
<1>1. NULL \notin Range(s) /\ NULL \notin Range(q) /\ NULL # cur
  BY ThreadAssumption DEF Range
<1>2. /\ Range(Append(q, cur)) = Range(q) \cup {cur}
      /\ IsInjective(q) /\ cur \notin Range(q) => IsInjective(Append(q, cur))
  BY AppendFacts
<1> QED BY <1>1, <1>2 DEF Placed

\* thread_sleep: the running thread goes to the end of the sleepers table.
LEMMA SleepPlaced ==
  ASSUME NEW q \in Seq(Threads), NEW s \in Seq(Threads), NEW cur \in Threads,
         NEW sa \in [Threads -> Addrs \cup {NULL}], NEW addr \in Addrs,
         Placed(q, s, cur, sa)
  PROVE  Placed(q, Append(s, cur), NULL, [sa EXCEPT ![cur] = addr])
<1>1. NULL \notin Range(s) /\ NULL \notin Range(q) /\ NULL # cur /\ addr # NULL
  BY ThreadAssumption DEF Range
<1>2. /\ Range(Append(s, cur)) = Range(s) \cup {cur}
      /\ IsInjective(s) /\ cur \notin Range(s) => IsInjective(Append(s, cur))
  BY AppendFacts
<1>3. Range(s) \subseteq Threads
  BY DEF Range
<1>4. \A t \in Range(Append(s, cur)) : [sa EXCEPT ![cur] = addr][t] # NULL
  BY <1>1, <1>2, <1>3 DEF Placed
<1> QED BY <1>1, <1>2, <1>4 DEF Placed

\* scheduler: the head of the run queue gets the CPU.
LEMMA RunPlaced ==
  ASSUME NEW q \in Seq(Threads), NEW s \in Seq(Threads), NEW sa, q # <<>>,
         Placed(q, s, NULL, sa)
  PROVE  Placed(Tail(q), s, Head(q), sa)
<1>1. /\ Head(q) \in Threads /\ Range(q) = {Head(q)} \cup Range(Tail(q))
      /\ IsInjective(q) => IsInjective(Tail(q)) /\ Head(q) \notin Range(Tail(q))
  BY HeadTailFacts
<1>2. NULL \notin Threads
  BY ThreadAssumption
<1> QED BY <1>1, <1>2 DEF Placed

\* Back from thread_sleep: the sleep address of the running thread is reset.
LEMMA ReturnPlaced ==
  ASSUME NEW q \in Seq(Threads), NEW s \in Seq(Threads), NEW cur \in Threads,
         NEW sa \in [Threads -> Addrs \cup {NULL}],
         Placed(q, s, cur, sa)
  PROVE  Placed(q, s, cur, [sa EXCEPT ![cur] = NULL])
<1>1. Range(s) \subseteq Threads
  BY DEF Range
<1> QED BY <1>1 DEF Placed

\* The boot thread runs and the others are queued.
LEMMA InitPlaced ==
  ASSUME SwitchInit
  PROVE  SwitchTypeOK /\ Placement
<1> PICK t \in Threads :
       /\ curthread = t
       /\ runqueue \in Bijection(1..Cardinality(Threads \ {t}), Threads \ {t})
  BY DEF SwitchInit
<1> DEFINE n == Cardinality(Threads \ {t})
<1>1. n \in Nat
  <2>1. IsFiniteSet(Threads \ {t})
    BY ThreadAssumption, FS_RemoveElement
  <2> QED BY <2>1, FS_CardinalityType
<1>2. /\ runqueue \in [1..n -> Threads \ {t}]
      /\ IsInjective(runqueue)
      /\ \A u \in Threads \ {t} : \E k \in 1..n : runqueue[k] = u
  BY DEF Bijection, Injection, Surjection
<1> HIDE DEF n
<1>3. runqueue \in Seq(Threads)
  BY <1>1, <1>2
<1>4. Range(runqueue) = Threads \ {t}
  BY <1>2 DEF Range
<1>5. sleepers = <<>> /\ Range(<<>>) = {} /\ IsInjective(<<>>)
  BY DEF SwitchInit, Range, IsInjective
<1>6. SwitchTypeOK
  <2>1. /\ sleepers = <<>> /\ panicked = FALSE
        /\ t_sleepaddr = [u \in Threads |-> NULL]
    BY DEF SwitchInit
  <2>2. curthread \in Threads \cup {NULL} /\ sleepers \in Seq(Threads)
    BY <2>1
  <2>3. t_sleepaddr \in [Threads -> Addrs \cup {NULL}] /\ panicked \in BOOLEAN
    BY <2>1
  <2> QED BY <1>3, <2>2, <2>3 DEF SwitchTypeOK
<1>7. Placed(runqueue, sleepers, curthread, t_sleepaddr)
  BY <1>2, <1>4, <1>5 DEF Placed
<1> QED BY <1>6, <1>7 DEF Placement

-----------------------------------------------------------------------------
(* Tables after a wakeup *)

LEMMA WakeupType ==
  ASSUME SwitchTypeOK, NEW addr
  PROVE  StillAsleep(addr) \in Seq(Threads) /\ Awakened(addr) \in Seq(Threads)
<1>1. sleepers \in Seq(Threads)
  BY DEF SwitchTypeOK
<1>2. /\ SleepersOn(addr) \in SUBSET (DOMAIN sleepers)
      /\ DOMAIN sleepers \ SleepersOn(addr) \in SUBSET (DOMAIN sleepers)
  BY DEF SleepersOn
<1> QED BY <1>1, <1>2, EntriesType DEF StillAsleep, Awakened

\* After thread_wakeup(addr) the table holds the sleepers on other addresses.
LEMMA StillAsleepRange ==
  ASSUME SwitchTypeOK, NEW addr
  PROVE  Range(StillAsleep(addr)) = {t \in Range(sleepers) : t_sleepaddr[t] # addr}
<1>1. sleepers \in Seq(Threads)
  BY DEF SwitchTypeOK
<1>2. DOMAIN sleepers \ SleepersOn(addr) \in SUBSET (DOMAIN sleepers)
  OBVIOUS
<1>3. Range(StillAsleep(addr)) = {sleepers[i] : i \in DOMAIN sleepers \ SleepersOn(addr)}
  BY <1>1, <1>2, EntriesRange DEF StillAsleep
<1> QED BY <1>3 DEF SleepersOn, Range

\* thread_hassleepers in terms of the threads in the table.
LEMMA HasSleepers ==
  ASSUME NEW addr
  PROVE  thread_hassleepers(addr) <=> \E t \in Range(sleepers) : t_sleepaddr[t] = addr
BY DEF thread_hassleepers, SleepersOn, Range

=============================================================================
