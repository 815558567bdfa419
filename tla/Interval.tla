------------------------------- MODULE Interval -------------------------------
(***************************************************************************)
(* The time that the menu of project_5_6/menu.c shows for a command:       *)
(* cmd_dispatch reads the clock, runs the command, reads the clock again   *)
(* and prints what getinterval makes of the two readings.                  *)
(*                                                                         *)
(* The clock is a device (external).  Here it is the true time in seconds  *)
(* and nanoseconds, which goes on by itself and may be set, ahead or back, *)
(* while a command runs.  A reading cuts the seconds to the width of       *)
(* time_t.  Seconds are kept as the bits of a time_t, 0 to TimeRange - 1:  *)
(* adding and subtracting two's complement numbers is arithmetic modulo    *)
(* TimeRange, and the conversion to unsigned long before the printing      *)
(* leaves the bits alone.                                                  *)
(***************************************************************************)
EXTENDS Integers

CONSTANTS NSEC,       \* nanoseconds in a second
          NsecRange,  \* number of values of u_int32_t
          TimeRange,  \* number of values of time_t, and of unsigned long
          Instants    \* the seconds the clock may show

ASSUME IntervalAssumption ==
  /\ NSEC \in Nat \ {0} /\ NsecRange \in Nat /\ 2 * NSEC <= NsecRange
  /\ TimeRange \in Nat \ {0} /\ Instants \subseteq Int

VARIABLES clock,   \* the true time
          before,  \* the reading at the start of the command
          start,   \* history: the true time at the start of the command
          took,    \* history: the true time the last command took
          shown,   \* the time printed for the last command
          phase    \* "prompt", "running" or "shown"

intervalVars == <<clock, before, start, took, shown, phase>>

Times == [s : Instants, ns : 0..NSEC-1]

\* A time in nanoseconds.
Nanoseconds(t) == t.s * NSEC + t.ns

-----------------------------------------------------------------------------

\* gettime: the seconds that fit a time_t.
gettime(t) == [s |-> t.s % TimeRange, ns |-> t.ns]

\* Mutated: the second that was borrowed is not paid back.
getinterval_borrowed(r1, r2) ==
  [s  |-> (r2.s - r1.s) % TimeRange,
   ns |-> ((IF r2.ns < r1.ns THEN r2.ns + NSEC ELSE r2.ns) - r1.ns) % NsecRange]

\* getinterval: the second reading less the first, on unsigned nanoseconds and
\* the bits of a time_t.
getinterval(r1, r2) ==
  IF r2.ns < r1.ns
    THEN [s  |-> (((r2.s - 1) % TimeRange) - r1.s) % TimeRange,
          ns |-> (((r2.ns + NSEC) % NsecRange) - r1.ns) % NsecRange]
    ELSE [s  |-> (r2.s - r1.s) % TimeRange,
          ns |-> (r2.ns - r1.ns) % NsecRange]

IntervalInit ==
  /\ clock \in Times /\ start = clock
  /\ before = gettime(clock) /\ shown = [s |-> 0, ns |-> 0]
  /\ took = 0
  /\ phase = "prompt"

\* The clock goes on, by any amount, or is set.
tick == clock' \in Times /\ UNCHANGED <<before, start, took, shown, phase>>

\* cmd_dispatch finds the command, reads the clock and calls it.
begin ==
  /\ phase # "running"
  /\ before' = gettime(clock) /\ start' = clock /\ phase' = "running"
  /\ UNCHANGED <<clock, took, shown>>

\* The command returns: read the clock again and print the difference.
end ==
  /\ phase = "running"
  /\ shown' = getinterval(before, gettime(clock))
  /\ took' = Nanoseconds(clock) - Nanoseconds(start)
  /\ phase' = "shown"
  /\ UNCHANGED <<clock, before, start>>

IntervalNext == tick \/ begin \/ end

IntervalSpec == IntervalInit /\ [][IntervalNext]_intervalVars

-----------------------------------------------------------------------------
(* Properties *)

(* The time shown is the time the command took, as far as the seconds fit   *)
(* what is printed: no borrow is lost or counted twice, the nanoseconds     *)
(* stay below a second, and it makes no difference that time_t wraps during *)
(* the command.  A clock that was set back shows as a very long time.       *)
IntervalShown ==
  phase = "shown" =>
    /\ shown.ns = took % NSEC
    /\ shown.s = (took \div NSEC) % TimeRange

=============================================================================
