--------------------------- MODULE MCMatrixThreads ---------------------------
(* MatrixThreads with small matrices whose entries tell the products apart. *)
EXTENDS MatrixThreads

Samples ==
  {[A |-> [i \in 0..M-1 |-> [j \in 0..N-1 |-> (a + 3 * i + 2 * j) % 10]],
    B |-> [j \in 0..N-1 |-> [k \in 0..K-1 |-> (a + j + 4 * k) % 10]],
    v |-> [j \in 0..N-1 |-> (a + 5 * j) % 10]] : a \in {1, 6}}
=============================================================================
