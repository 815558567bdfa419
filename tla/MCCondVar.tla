----------------------------- MODULE MCCondVar ------------------------------
(* CondVar on small sets: condition variables that share one lock. *)
EXTENDS CondVar

CONSTANTS la, ca

Zeroed == {NULL}
SharedLock == [c \in CVs |-> la]
=============================================================================
