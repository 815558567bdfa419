---------------------------- MODULE MatrixThreads ----------------------------
(***************************************************************************)
(* The matrix programs of project_3.  main fills the matrices, creates the *)
(* threads and joins them.  Each thread adds its share of the products to  *)
(* the shared result, one product at a time under my_mutex: partA.c        *)
(* multiplies a matrix by a vector, partB_take2.c two matrices, partC.c    *)
(* does both.  A thread's share of the vector product is a block of the    *)
(* columns of the matrix, so all threads add to the same cells; its share  *)
(* of the matrix product is a block of the columns of the result.          *)
(*                                                                         *)
(* The load and the store of result[...] = result[...] + ... are two       *)
(* steps: nothing but the mutex keeps threads apart.                       *)
(***************************************************************************)
EXTENDS Integers, FiniteSetsExt

CONSTANTS THREAD_COUNT, M, N, K,
          Inputs  \* what main may fill the matrices with: products of gen_rand

Block(n) == n \div THREAD_COUNT  \* the columns a thread gets of n columns

ASSUME MatrixAssumption ==
  /\ THREAD_COUNT \in Nat \ {0} /\ M \in Nat \ {0} /\ N \in Nat \ {0} /\ K \in Nat
  /\ N % THREAD_COUNT = 0 /\ K % THREAD_COUNT = 0  \* so in all three programs
  /\ Inputs \subseteq [A : [0..M-1 -> [0..N-1 -> 0..9]],
                       B : [0..N-1 -> [0..K-1 -> 0..9]],
                       v : [0..N-1 -> 0..9]]

Threads == 0..THREAD_COUNT-1
Free    == -1

\* result_vector[i] is the cell <<i>>, result_matrix[i][k] the cell <<i, k>>.
Cells == {<<i>> : i \in 0..M-1} \cup ((0..M-1) \X (0..K-1))

\* The subroutines a build calls for the vector and for the matrix product.
\* As they stand partA.c calls DOTPRODUCT, partB_take2.c SAXPY, and partC.c
\* DOTPRODUCT twice; their comments leave the choice open.
Programs ==
  [vector : {"none", "DOTPRODUCT", "SAXPY"}, matrix : {"none", "DOTPRODUCT", "SAXPY"}]

VARIABLES
  input,     \* the matrices; nobody writes them after main has filled them
  program,   \* the build
  result,    \* per cell
  created,   \* threads main has created
  joined,    \* threads main has joined
  pc,        \* per thread: what it does next
  done,      \* per thread: the products it has added, the lock released
  register,  \* per thread: the value of result it has loaded
  my_mutex   \* who holds the mutex

vars == <<input, program, result, created, joined, pc, done, register, my_mutex>>

-----------------------------------------------------------------------------
(* What a thread adds, in the order of its loops: round s of the loops of  *)
(* thread me adds term to cell.                                            *)

\* Mutated: the column does not depend on the thread.
VectorTerm_unsplit(me, i, j) ==
  [cell |-> <<i>>, term |-> input.A[i][j] * input.v[j]]

\* The product for row i and column j of the thread's block of the matrix.
VectorTerm(me, i, j) ==
  LET c == j + me * Block(N)
  IN [cell |-> <<i>>, term |-> input.A[i][c] * input.v[c]]

\* The product for row i, inner index j and column k of the thread's block.
MatrixTerm(me, i, j, k) ==
  LET c == k + me * Block(K)
  IN [cell |-> <<i, c>>, term |-> input.A[i][j] * input.B[j][c]]

matvec_DOTPRODUCT(me, s) == VectorTerm(me, s \div Block(N), s % Block(N))
matvec_SAXPY(me, s)      == VectorTerm(me, s % M, s \div M)

matvec_matrix_DOTPRODUCT(me, s) ==
  MatrixTerm(me, s \div (N * Block(K)), (s \div Block(K)) % N, s % Block(K))
matvec_matrix_SAXPY(me, s) ==
  MatrixTerm(me, s % M, (s \div M) % N, s \div (M * N))

\* The rounds of the two calls.
VectorRounds == IF program.vector = "none" THEN 0 ELSE M * Block(N)
MatrixRounds == IF program.matrix = "none" THEN 0 ELSE M * N * Block(K)
Rounds == VectorRounds + MatrixRounds

Job(me, s) ==
  IF s < VectorRounds
    THEN IF program.vector = "DOTPRODUCT" THEN matvec_DOTPRODUCT(me, s)
                                          ELSE matvec_SAXPY(me, s)
    ELSE LET r == s - VectorRounds IN
         IF program.matrix = "DOTPRODUCT" THEN matvec_matrix_DOTPRODUCT(me, r)
                                          ELSE matvec_matrix_SAXPY(me, r)

\* Where a thread stands before round s.
Loop(s) == IF s < Rounds THEN "lock" ELSE "exited"

-----------------------------------------------------------------------------

\* main up to its first pthread_create.
Init ==
  /\ input \in Inputs
  /\ program \in Programs \ {[vector |-> "none", matrix |-> "none"]}
  /\ result = [c \in Cells |-> 0]
  /\ created = 0 /\ joined = 0
  /\ pc = [t \in Threads |-> "none"]
  /\ done = [t \in Threads |-> 0]
  /\ register = [t \in Threads |-> 0]
  /\ my_mutex = Free

\* Mutated: the loop of main goes one round too far.
pthread_create_further ==
  /\ created <= THREAD_COUNT
  /\ pc' = [pc EXCEPT ![created] = Loop(0)]
  /\ created' = created + 1
  /\ UNCHANGED <<input, program, result, joined, done, register, my_mutex>>

\* The ordinal is passed by value, so the thread reads nothing that main
\* writes later.
pthread_create ==
  /\ created < THREAD_COUNT
  /\ pc' = [pc EXCEPT ![created] = Loop(0)]
  /\ created' = created + 1
  /\ UNCHANGED <<input, program, result, joined, done, register, my_mutex>>

\* main joins the threads in the order it has created them.
pthread_join ==
  /\ created = THREAD_COUNT /\ joined < THREAD_COUNT
  /\ pc[joined] = "exited"
  /\ joined' = joined + 1
  /\ UNCHANGED <<input, program, result, created, pc, done, register, my_mutex>>

\* Mutated: the mutex does not keep anybody out.
pthread_mutex_lock_open(t) ==
  /\ pc[t] = "lock"
  /\ my_mutex' = t
  /\ pc' = [pc EXCEPT ![t] = "load"]
  /\ UNCHANGED <<input, program, result, created, joined, done, register>>

pthread_mutex_lock(t) ==
  /\ pc[t] = "lock" /\ my_mutex = Free
  /\ my_mutex' = t
  /\ pc' = [pc EXCEPT ![t] = "load"]
  /\ UNCHANGED <<input, program, result, created, joined, done, register>>

load(t) ==
  /\ pc[t] = "load"
  /\ register' = [register EXCEPT ![t] = result[Job(t, done[t]).cell]]
  /\ pc' = [pc EXCEPT ![t] = "store"]
  /\ UNCHANGED <<input, program, result, created, joined, done, my_mutex>>

store(t) ==
  LET job == Job(t, done[t]) IN
  /\ pc[t] = "store"
  /\ result' = [result EXCEPT ![job.cell] = register[t] + job.term]
  /\ pc' = [pc EXCEPT ![t] = "unlock"]
  /\ UNCHANGED <<input, program, created, joined, done, register, my_mutex>>

\* Mutated: the thread leaves its last round with the mutex locked.
pthread_mutex_unlock_forgotten(t) ==
  /\ pc[t] = "unlock"
  /\ my_mutex' = IF done[t] + 1 = Rounds THEN my_mutex ELSE Free
  /\ done' = [done EXCEPT ![t] = @ + 1]
  /\ pc' = [pc EXCEPT ![t] = Loop(done[t] + 1)]
  /\ UNCHANGED <<input, program, result, created, joined, register>>

pthread_mutex_unlock(t) ==
  /\ pc[t] = "unlock"
  /\ my_mutex' = Free
  /\ done' = [done EXCEPT ![t] = @ + 1]
  /\ pc' = [pc EXCEPT ![t] = Loop(done[t] + 1)]
  /\ UNCHANGED <<input, program, result, created, joined, register>>

main == pthread_create \/ pthread_join

\* What thread t does after its creation.
Function(t) ==
  pthread_mutex_lock(t) \/ load(t) \/ store(t) \/ pthread_mutex_unlock(t)

Next == main \/ \E t \in Threads : Function(t)

\* The operating system runs every thread that is not blocked.  Weak fairness
\* is enough for the mutex too: the others lock it a finite number of times.
Fairness == WF_vars(main) /\ \A t \in Threads : WF_vars(Function(t))

Spec == Init /\ [][Next]_vars /\ Fairness

-----------------------------------------------------------------------------
(* Properties *)

MatrixTypeOK ==
  /\ input \in Inputs /\ program \in Programs
  /\ DOMAIN result = Cells /\ \A c \in Cells : result[c] \in Nat
  /\ created \in 0..THREAD_COUNT /\ joined \in 0..created
  /\ pc \in [Threads -> {"none", "lock", "load", "store", "unlock", "exited"}]
  /\ done \in [Threads -> 0..Rounds]
  /\ register \in [Threads -> Nat]
  /\ my_mutex \in Threads \cup {Free}

\* The rounds of thread t whose store has been done.
Stored(t) == 0..(IF pc[t] = "unlock" THEN done[t] ELSE done[t] - 1)

(* No update is lost: at every moment each cell is the sum of the terms     *)
(* that the threads have stored there so far.                               *)
NoLostUpdate ==
  \A c \in Cells :
    result[c] =
      MapThenSumSet(LAMBDA t :
          MapThenSumSet(LAMBDA s : Job(t, s).term, {s \in Stored(t) : Job(t, s).cell = c}),
        Threads)

(* When main has joined all threads the results are the products as they   *)
(* are defined, whichever of the subroutines was called.                    *)
ProductAtEnd ==
  joined = THREAD_COUNT =>
    /\ program.vector # "none" => \A i \in 0..M-1 :
         result[<<i>>] = MapThenSumSet(LAMBDA j : input.A[i][j] * input.v[j], 0..N-1)
    /\ program.matrix # "none" => \A i \in 0..M-1, k \in 0..K-1 :
         result[<<i, k>>] = MapThenSumSet(LAMBDA j : input.A[i][j] * input.B[j][k], 0..N-1)

(* main comes back from its joins: no thread waits for the mutex for ever.  *)
Terminates == <>(joined = THREAD_COUNT)

=============================================================================
