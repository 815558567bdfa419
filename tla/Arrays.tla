------------------------------- MODULE Arrays -------------------------------
(***************************************************************************)
(* The dynamic arrays (struct array) in which thread.c keeps its tables.   *)
(* kern/lib/array.c is not part of this repository: the operators below    *)
(* say what thread.c relies on.  A table is a sequence; array_add appends  *)
(* (Append of module Sequences), array_getnum is Len, and C index i is     *)
(* position i + 1.                                                         *)
(***************************************************************************)
EXTENDS Integers, Sequences, FiniteSets, Functions

\* array_remove(a, i): the entries behind position i close the gap.
array_remove(a, i) == SubSeq(a, 1, i - 1) \o SubSeq(a, i + 1, Len(a))

\* The positions in I in ascending order.
Ascending(I) ==
  CHOOSE f \in Bijection(1..Cardinality(I), I) :
    \A j, k \in 1..Cardinality(I) : j < k => f[j] < f[k]

\* The entries of table a at the positions I, in table order.
Entries(a, I) == [k \in 1..Cardinality(I) |-> a[Ascending(I)[k]]]

=============================================================================
