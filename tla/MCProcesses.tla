---------------------------- MODULE MCProcesses -----------------------------
(* All process exercises; the values entered for fork_test.c include the    *)
(* ends of the range it asks for and their neighbours.                      *)
EXTENDS Processes

Values == {-1, 0, 7, 255, 256}
=============================================================================
