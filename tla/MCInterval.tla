----------------------------- MODULE MCInterval ------------------------------
(* Interval with a second of three nanoseconds. *)
EXTENDS Interval

\* Nearly twice around a time_t of four values.
SecondsRound == 0..6
=============================================================================
