----------------------------- MODULE MenuProofs ------------------------------
(***************************************************************************)
(* Proofs about the menu: the time it shows for a command is the time the  *)
(* command took, for all widths of the words; the boot line is done before *)
(* the first prompt; every variable keeps its type, those of the threads   *)
(* included.                                                               *)
(***************************************************************************)
EXTENDS Menu, Interval, ThreadLifeProofs, SequenceTheorems

-----------------------------------------------------------------------------
(* Intervals *)

\* What the remainder and the quotient are.
LEMMA ModFacts ==
  ASSUME NEW a \in Int, NEW n \in Int, n > 0
  PROVE  /\ a % n \in Int /\ 0 <= a % n /\ a % n < n /\ a \div n \in Int
         /\ a = n * (a \div n) + (a % n)
<1>1. 0 <= a % n /\ a % n < n
  BY SMT
<1>2. a = n * (a \div n) + (a % n)
  BY SMT
<1>3. a % n \in Int /\ a \div n \in Int
  BY SMT
<1> QED BY <1>1, <1>2, <1>3

LEMMA SmallMultiple ==
  ASSUME NEW n \in Int, n > 0, NEW k \in Int, n * k < n, -n < n * k
  PROVE  k = 0
<1>1. CASE k >= 1
  <2>1. n * k >= n
    BY <1>1, SMT
  <2> QED BY <2>1
<1>2. CASE k <= -1
  <2>1. n * k <= -n
    BY <1>2, SMT
  <2> QED BY <2>1
<1> QED BY <1>1, <1>2

\* They are the only such numbers.
LEMMA DivUnique ==
  ASSUME NEW n \in Int, n > 0, NEW a \in Int, NEW q \in Int, NEW r \in Int,
         0 <= r, r < n, a = n * q + r
  PROVE  a % n = r /\ a \div n = q
<1> DEFINE d == a \div n
           m == a % n
<1>1. m \in Int /\ 0 <= m /\ m < n /\ d \in Int /\ a = n * d + m
  BY ModFacts
<1> HIDE DEF d, m
<1>2. n * (q - d) = n * q - n * d /\ n * q \in Int /\ n * d \in Int
  BY <1>1, SMT
<1>3. n * (q - d) = m - r
  BY <1>1, <1>2
<1>4. q - d = 0
  BY <1>1, <1>3, SmallMultiple
<1>5. q = d /\ n * q = n * d
  BY <1>1, <1>4
<1> QED BY <1>1, <1>2, <1>5 DEF d, m

\* A number below n is its own remainder.
LEMMA NoWrap ==
  ASSUME NEW n \in Int, NEW a \in Int, 0 <= a, a < n
  PROVE  a % n = a
<1>1. a = n * 0 + a
  BY SMT
<1> QED BY <1>1, DivUnique

LEMMA ModShift ==
  ASSUME NEW n \in Int, n > 0, NEW a \in Int, NEW k \in Int
  PROVE  (a + n * k) % n = a % n
<1> DEFINE d == a \div n
           m == a % n
<1>1. m \in Int /\ 0 <= m /\ m < n /\ d \in Int /\ a = n * d + m
  BY ModFacts
<1> HIDE DEF d, m
<1>2. n * (d + k) = n * d + n * k /\ n * d \in Int /\ n * k \in Int
  BY <1>1, SMT
<1>3. a + n * k = n * (d + k) + m
  BY <1>1, <1>2
<1>4. a + n * k \in Int /\ d + k \in Int
  BY <1>1, <1>2
<1>5. (a + n * k) % n = m
  BY <1>1, <1>3, <1>4, DivUnique
<1> QED BY <1>5 DEF m

\* Remainders may be taken before a subtraction or after it.
LEMMA ModSub ==
  ASSUME NEW n \in Int, n > 0, NEW a \in Int, NEW b \in Int
  PROVE  ((a % n) - (b % n)) % n = (a - b) % n
<1> DEFINE da == a \div n
           db == b \div n
           ma == a % n
           mb == b % n
<1>1. ma \in Int /\ da \in Int /\ a = n * da + ma
  BY ModFacts
<1>2. mb \in Int /\ db \in Int /\ b = n * db + mb
  BY ModFacts
<1> HIDE DEF da, db, ma, mb
<1>3. n * (db - da) = n * db - n * da /\ n * da \in Int /\ n * db \in Int
  BY <1>1, <1>2, SMT
<1>4. ma - mb = (a - b) + n * (db - da)
  BY <1>1, <1>2, <1>3
<1>5. a - b \in Int /\ db - da \in Int
  BY <1>1, <1>2
<1>6. ((a - b) + n * (db - da)) % n = (a - b) % n
  BY <1>5, ModShift
<1>7. (ma - mb) % n = (a - b) % n
  BY <1>4, <1>6
<1> QED BY <1>7 DEF ma, mb

LEMMA ModPredecessor ==
  ASSUME NEW n \in Int, n > 0, NEW a \in Int
  PROVE  ((a % n) - 1) % n = (a - 1) % n
<1> DEFINE d == a \div n
           m == a % n
           b == a - 1
           k == -d
<1>1. m \in Int /\ d \in Int /\ a = n * d + m
  BY ModFacts
<1>2. k \in Int /\ b \in Int
  BY <1>1
<1> HIDE DEF d, m, b, k
<1>3. n * k = -(n * d) /\ n * d \in Int
  BY <1>1, SMT DEF k
<1>4. m - 1 = b + n * k
  BY <1>1, <1>3 DEF b
<1>5. (b + n * k) % n = b % n
  BY <1>2, ModShift
<1>6. (m - 1) % n = b % n
  BY <1>4, <1>5
<1> QED BY <1>6 DEF m, b

\* getinterval in numbers: from s1, ns1 to s2, ns2 the nanoseconds are d.
LEMMA IntervalNumbers ==
  ASSUME NEW s1 \in Int, NEW s2 \in Int, NEW ns1 \in Int, NEW ns2 \in Int,
         0 <= ns1, ns1 < NSEC, 0 <= ns2, ns2 < NSEC,
         NEW d \in Int, d = (s2 * NSEC + ns2) - (s1 * NSEC + ns1)
  PROVE  /\ ns2 < ns1 =>
              /\ ((((s2 % TimeRange) - 1) % TimeRange) - (s1 % TimeRange)) % TimeRange
                   = (d \div NSEC) % TimeRange
              /\ (((ns2 + NSEC) % NsecRange) - ns1) % NsecRange = d % NSEC
         /\ ~(ns2 < ns1) =>
              /\ ((s2 % TimeRange) - (s1 % TimeRange)) % TimeRange
                   = (d \div NSEC) % TimeRange
              /\ (ns2 - ns1) % NsecRange = d % NSEC
<1>1. /\ NSEC \in Int /\ NSEC > 0 /\ NsecRange \in Int /\ 2 * NSEC <= NsecRange
      /\ TimeRange \in Int /\ TimeRange > 0
  BY IntervalAssumption
<1>2. /\ s1 * NSEC \in Int /\ s2 * NSEC \in Int
      /\ NSEC * (s2 - s1) = s2 * NSEC - s1 * NSEC
      /\ NSEC * ((s2 - 1) - s1) = (s2 * NSEC - s1 * NSEC) - NSEC
  BY <1>1, SMT
<1>3. CASE ns2 < ns1
  <2>1. d = NSEC * ((s2 - 1) - s1) + ((ns2 + NSEC) - ns1)
    BY <1>1, <1>2
  <2>2. /\ (s2 - 1) - s1 \in Int /\ (ns2 + NSEC) - ns1 \in Int
        /\ 0 <= (ns2 + NSEC) - ns1 /\ (ns2 + NSEC) - ns1 < NSEC
    BY <1>1, <1>3
  <2>3. d % NSEC = (ns2 + NSEC) - ns1 /\ d \div NSEC = (s2 - 1) - s1
    BY <1>1, <2>1, <2>2, DivUnique
  <2>4. ((ns2 + NSEC) % NsecRange) = ns2 + NSEC
    BY <1>1, NoWrap
  <2>5. ((ns2 + NSEC) - ns1) % NsecRange = (ns2 + NSEC) - ns1
    BY <1>1, <2>2, NoWrap
  <2>6. (((s2 % TimeRange) - 1) % TimeRange) = (s2 - 1) % TimeRange
    BY <1>1, ModPredecessor
  <2>7. (((s2 - 1) % TimeRange) - (s1 % TimeRange)) % TimeRange
          = ((s2 - 1) - s1) % TimeRange
    <3> DEFINE b == s2 - 1
    <3>1. b \in Int
      OBVIOUS
    <3> HIDE DEF b
    <3>2. ((b % TimeRange) - (s1 % TimeRange)) % TimeRange = (b - s1) % TimeRange
      BY <1>1, <3>1, ModSub
    <3> QED BY <3>2 DEF b
  <2> QED BY ONLY <1>3, <2>3, <2>4, <2>5, <2>6, <2>7
<1>4. CASE ~(ns2 < ns1)
  <2>1. d = NSEC * (s2 - s1) + (ns2 - ns1)
    BY <1>1, <1>2
  <2>2. /\ s2 - s1 \in Int /\ ns2 - ns1 \in Int
        /\ 0 <= ns2 - ns1 /\ ns2 - ns1 < NSEC
    BY <1>1, <1>4
  <2>3. d % NSEC = ns2 - ns1 /\ d \div NSEC = s2 - s1
    BY <1>1, <2>1, <2>2, DivUnique
  <2>4. (ns2 - ns1) % NsecRange = ns2 - ns1
    BY <1>1, <2>2, NoWrap
  <2>5. ((s2 % TimeRange) - (s1 % TimeRange)) % TimeRange = (s2 - s1) % TimeRange
    BY <1>1, ModSub
  <2> QED BY ONLY <1>4, <2>3, <2>4, <2>5
<1> QED BY <1>3, <1>4

\* What getinterval makes of the readings of two times.
LEMMA IntervalOfReadings ==
  ASSUME NEW t1 \in Times, NEW t2 \in Times,
         NEW d, d = Nanoseconds(t2) - Nanoseconds(t1)
  PROVE  getinterval(gettime(t1), gettime(t2))
           = [s |-> (d \div NSEC) % TimeRange, ns |-> d % NSEC]
<1> DEFINE s1 == t1.s
           s2 == t2.s
           ns1 == t1.ns
           ns2 == t2.ns
<1>1. /\ s1 \in Instants /\ s2 \in Instants
      /\ ns1 \in 0..NSEC-1 /\ ns2 \in 0..NSEC-1
  BY DEF Times
<1>2. d = (s2 * NSEC + ns2) - (s1 * NSEC + ns1)
  BY DEF Nanoseconds
<1>3. getinterval(gettime(t1), gettime(t2)) =
        IF ns2 < ns1
          THEN [s  |-> ((((s2 % TimeRange) - 1) % TimeRange) - (s1 % TimeRange)) % TimeRange,
                ns |-> (((ns2 + NSEC) % NsecRange) - ns1) % NsecRange]
          ELSE [s  |-> ((s2 % TimeRange) - (s1 % TimeRange)) % TimeRange,
                ns |-> (ns2 - ns1) % NsecRange]
  BY DEF getinterval, gettime
<1> HIDE DEF s1, s2, ns1, ns2
<1>4. NSEC \in Int /\ s1 \in Int /\ s2 \in Int
  BY <1>1, IntervalAssumption
<1>5. ns1 \in Int /\ ns2 \in Int /\ 0 <= ns1 /\ ns1 < NSEC /\ 0 <= ns2 /\ ns2 < NSEC
  BY <1>1, <1>4
<1>6. s1 * NSEC \in Int /\ s2 * NSEC \in Int
  BY <1>4, SMT
<1>7. d \in Int
  BY <1>2, <1>5, <1>6
<1>8. /\ ns2 < ns1 =>
           /\ ((((s2 % TimeRange) - 1) % TimeRange) - (s1 % TimeRange)) % TimeRange
                = (d \div NSEC) % TimeRange
           /\ (((ns2 + NSEC) % NsecRange) - ns1) % NsecRange = d % NSEC
      /\ ~(ns2 < ns1) =>
           /\ ((s2 % TimeRange) - (s1 % TimeRange)) % TimeRange
                = (d \div NSEC) % TimeRange
           /\ (ns2 - ns1) % NsecRange = d % NSEC
  <2>1. s1 \in Int /\ s2 \in Int /\ ns1 \in Int /\ ns2 \in Int /\ d \in Int
    BY <1>4, <1>5, <1>7
  <2>2. 0 <= ns1 /\ ns1 < NSEC /\ 0 <= ns2 /\ ns2 < NSEC
    BY <1>5
  <2> QED BY ONLY <1>2, <2>1, <2>2, IntervalNumbers
<1> QED BY <1>3, <1>8, Zenon

\* Inductive: the reading that a running command began with is that of the
\* time it began, and what was shown is right.
IntervalInv ==
  /\ clock \in Times /\ start \in Times
  /\ phase = "running" => before = gettime(start)
  /\ IntervalShown

(* The time shown for a command is the time it took, for any widths of the  *)
(* seconds and nanoseconds, any clock and any commands: getinterval neither *)
(* wraps its nanoseconds nor loses a second, on whichever side of a wrap of *)
(* time_t the readings are.                                                 *)
THEOREM ShownCorrect == IntervalSpec => []IntervalShown
<1>1. IntervalInit => IntervalInv
  BY DEF IntervalInit, IntervalInv, IntervalShown
<1>2. IntervalInv /\ [IntervalNext]_intervalVars => IntervalInv'
  <2> SUFFICES ASSUME IntervalInv, [IntervalNext]_intervalVars PROVE IntervalInv'
    OBVIOUS
  <2>1. CASE tick
    BY <2>1 DEF tick, IntervalInv, IntervalShown
  <2>2. CASE begin
    BY <2>2 DEF begin, IntervalInv, IntervalShown
  <2>3. CASE end
    <3>1. /\ clock \in Times /\ start \in Times /\ before = gettime(start)
          /\ phase' = "shown" /\ clock' = clock /\ start' = start
      BY <2>3 DEF end, IntervalInv
    <3>2. /\ shown' = getinterval(gettime(start), gettime(clock))
          /\ took' = Nanoseconds(clock) - Nanoseconds(start)
      BY <2>3, <3>1 DEF end
    <3>3. shown' = [s |-> (took' \div NSEC) % TimeRange, ns |-> took' % NSEC]
      BY <3>1, <3>2, IntervalOfReadings
    <3> QED BY <3>1, <3>3 DEF IntervalInv, IntervalShown
  <2>4. CASE UNCHANGED intervalVars
    BY <2>4 DEF intervalVars, IntervalInv, IntervalShown
  <2> QED BY <2>1, <2>2, <2>3, <2>4 DEF IntervalNext
<1>3. IntervalInv => IntervalShown
  BY DEF IntervalInv
<1> QED BY <1>1, <1>2, <1>3, PTL DEF IntervalSpec

-----------------------------------------------------------------------------
(* The boot line *)

\* Inductive: what has been passed and what is still to do make up the boot
\* line, and a command that has begun has no words too many.
BootInv ==
  /\ line \in Seq(Commands) /\ boot \in Seq(Commands) /\ passed \in Seq(Commands)
  /\ isargs => passed \o line = boot /\ at # "prompt"
  /\ ~isargs => passed = boot
  /\ \A i \in 1..Len(passed) : passed[i].nargs <= MAXMENUARGS
  /\ at \notin {"execute", "prompt"} => line # <<>>
  /\ at \notin {"execute", "prompt", "failed", "panic"} => Head(line).nargs <= MAXMENUARGS

\* While a command runs, the line is left alone and the prompt is not reached.
Inside ==
  /\ UNCHANGED lineVars
  /\ \/ at' = at
     \/ /\ at \notin {"execute", "prompt", "failed", "panic"}
        /\ at' \notin {"execute", "prompt"}
     \/ at = "failed" /\ at' = "panic"

LEMMA InsideKeeps ==
  ASSUME BootInv, Inside
  PROVE  BootInv'
BY DEF BootInv, Inside, lineVars

\* A command's function does not begin in the menu's own loop.
LEMMA FuncPlaces ==
  ASSUME NEW c, Accepted(c)
  PROVE  cmdtable[c.name].func \notin {"execute", "prompt", "failed"}
BY DEF Accepted, cmdtable

LEMMA DispatchKeeps ==
  ASSUME BootInv, cmd_dispatch
  PROVE  BootInv'
<1> DEFINE c == Head(line)
<1>1. at = "execute" /\ line # <<>> /\ UNCHANGED lineVars
  BY DEF cmd_dispatch, MenuAt, GoTo
<1>2. c \in Commands
  BY <1>1, HeadTailProperties DEF BootInv
<1>3. /\ at' \notin {"execute", "prompt"}
      /\ at' # "failed" => c.nargs <= MAXMENUARGS
  <2>1. CASE c.nargs = 0 /\ GoTo("done")
    BY <2>1, MenuAssumption DEF GoTo
  <2>2. CASE ~Accepted(c) /\ GoTo("failed")
    BY <2>2 DEF GoTo
  <2>3. CASE Accepted(c) /\ GoTo(cmdtable[c.name].func)
    <3>1. at' = cmdtable[c.name].func /\ c.nargs <= MAXMENUARGS
      BY <2>3 DEF GoTo, Accepted
    <3> QED
      BY <2>3, <3>1, FuncPlaces
  <2> QED
    BY <2>1, <2>2, <2>3 DEF cmd_dispatch
<1> QED
  BY <1>1, <1>3 DEF BootInv, lineVars

\* The first of the commands left moves to the end of those passed.
LEMMA MoveOne ==
  ASSUME NEW p \in Seq(Commands), NEW l \in Seq(Commands), l # <<>>
  PROVE  Append(p, Head(l)) \o Tail(l) = p \o l
<1>1. Head(l) \in Commands /\ Tail(l) \in Seq(Commands) /\ <<Head(l)>> \in Seq(Commands)
  BY HeadTailProperties
<1>2. Append(p, Head(l)) = p \o <<Head(l)>>
  BY <1>1, AppendIsConcat
<1>3. (p \o <<Head(l)>>) \o Tail(l) = p \o (<<Head(l)>> \o Tail(l))
  BY <1>1, ConcatAssociative
<1>4. <<Head(l)>> \o Tail(l) = l
  BY <1>1
<1> QED
  BY <1>2, <1>3, <1>4

LEMMA ReturnKeeps ==
  ASSUME BootInv, command_returns
  PROVE  BootInv'
<1>1. CASE MenuAt("failed") /\ isargs /\ GoTo("panic")
  BY <1>1, InsideKeeps DEF Inside, MenuAt, GoTo
<1>2. CASE /\ MenuAt("done") \/ (MenuAt("failed") /\ ~isargs)
           /\ line' = Tail(line) /\ at' = "execute"
           /\ passed' = IF isargs THEN Append(passed, Head(line)) ELSE passed
           /\ UNCHANGED <<vars, isargs, boot>>
  <2>1. line # <<>> /\ Head(line) \in Commands /\ Tail(line) \in Seq(Commands)
    BY <1>2, HeadTailProperties DEF BootInv, MenuAt
  <2>2. CASE isargs
    <3>1. at = "done" /\ Head(line).nargs <= MAXMENUARGS
      BY <1>2, <2>2 DEF BootInv, MenuAt
    <3>2. passed' \o line' = boot
      BY <1>2, <2>1, <2>2, MoveOne DEF BootInv
    <3>3. passed' \in Seq(Commands)
          /\ \A i \in 1..Len(passed') : passed'[i].nargs <= MAXMENUARGS
      BY <1>2, <2>1, <2>2, <3>1, AppendProperties DEF BootInv
    <3> QED
      BY <1>2, <2>1, <2>2, <3>2, <3>3 DEF BootInv
  <2>3. CASE ~isargs
    BY <1>2, <2>1, <2>3 DEF BootInv
  <2> QED
    BY <2>2, <2>3
<1> QED
  BY <1>1, <1>2 DEF command_returns

\* Everything else but the two ends of a line.
LEMMA OthersInside ==
  ASSUME MenuNext,
         ~(cmd_dispatch \/ command_returns \/ menu_execute_returns \/ kgets)
  PROVE  Inside
<1> USE DEF menuVars, lineVars, Inside
<1>1. CASE panic \/ vfs_returns \/ cmd_quit \/ shutdown \/ sys_reboot
  BY <1>1 DEF panic, vfs_returns, cmd_quit, shutdown, sys_reboot, MenuAt, GoTo
<1>2. CASE common_prog_fork \/ common_prog_join \/ common_prog_sleep
  BY <1>2 DEF common_prog_fork, common_prog_join, common_prog_sleep, MenuAt, GoTo
<1>3. CASE wait_for_device \/ timer \/ (switch_to /\ UNCHANGED menuVars)
  BY <1>3 DEF wait_for_device, timer
<1>4. CASE \E a \in Addrs : boot_wakes(a) \/ interrupt(a)
  BY <1>4 DEF boot_wakes, interrupt
<1>5. CASE \E t \in Threads : program(t)
  BY <1>5 DEF program
<1> QED
  BY <1>1, <1>2, <1>3, <1>4, <1>5 DEF MenuNext, MenuStep

LEMMA BootAlways == MenuSpec => []BootInv
<1>1. MenuInit => BootInv
  <2> SUFFICES ASSUME MenuInit PROVE BootInv
    OBVIOUS
  <2>1. line \in Seq(Commands) /\ line = boot /\ passed = <<>>
        /\ isargs = TRUE /\ at = "execute"
    BY MenuAssumption DEF MenuInit
  <2>2. passed \o line = boot /\ passed \in Seq(Commands)
    BY <2>1, ConcatEmptySeq, EmptySeq
  <2> QED
    BY <2>1, <2>2 DEF BootInv
<1>2. BootInv /\ [MenuNext]_allVars => BootInv'
  <2> SUFFICES ASSUME BootInv, [MenuNext]_allVars PROVE BootInv'
    OBVIOUS
  <2>1. CASE cmd_dispatch
    BY <2>1, DispatchKeeps
  <2>2. CASE command_returns
    BY <2>2, ReturnKeeps
  <2>3. CASE menu_execute_returns
    <3>1. /\ at = "execute" /\ line = <<>> /\ at' = "prompt" /\ isargs' = FALSE
          /\ UNCHANGED <<line, boot, passed>>
      BY <2>3 DEF menu_execute_returns, MenuAt
    <3>2. passed = boot
      BY <3>1, ConcatEmptySeq DEF BootInv
    <3> QED
      BY <3>1, <3>2 DEF BootInv
  <2>4. CASE kgets
    BY <2>4, MenuAssumption DEF kgets, MenuAt, BootInv
  <2>5. CASE UNCHANGED allVars
    BY <2>5, InsideKeeps DEF Inside, allVars, menuVars, lineVars
  <2> QED
    BY <2>1, <2>2, <2>3, <2>4, <2>5, OthersInside, InsideKeeps
<1> QED
  BY <1>1, <1>2, PTL DEF MenuSpec

(* Before the first prompt every command of the boot line has been run, in   *)
(* order and with success, for any boot line and any number of programs.     *)
THEOREM BootLineCorrect == MenuSpec => []BootLineDone
<1>1. BootInv => BootLineDone
  <2> SUFFICES ASSUME BootInv, ~isargs, NEW c \in Range(boot)
               PROVE  passed = boot /\ c.nargs <= MAXMENUARGS
    BY DEF BootLineDone, BootInv
  <2>1. PICK i \in 1..Len(boot) : c = boot[i]
    BY DEF Range, BootInv
  <2> QED
    BY <2>1 DEF BootInv
<1> QED
  BY <1>1, BootAlways, PTL

-----------------------------------------------------------------------------
(* Types *)

\* The commands are steps of threads, but for the shell's own work on its
\* directory, the end of the tables and panics.
LEMMA MenuIsLife ==
  ASSUME MenuNext
  PROVE  [Next]_vars \/ vfs_returns \/ cmd_quit \/ shutdown \/ panic
<1>0. Boot \in Threads /\ {lbolt, dev} \subseteq Addrs
  BY LifeAssumption, MenuAssumption
<1>1. CASE \/ cmd_dispatch \/ command_returns \/ menu_execute_returns \/ sys_reboot \/ kgets
  BY <1>1 DEF cmd_dispatch, command_returns, menu_execute_returns, sys_reboot, kgets, GoTo
<1>2. CASE common_prog_fork
  BY <1>0, <1>2 DEF common_prog_fork, Next
<1>3. CASE common_prog_join
  BY <1>0, <1>3 DEF common_prog_join, Next
<1>4. CASE common_prog_sleep \/ wait_for_device
  BY <1>0, <1>4 DEF common_prog_sleep, wait_for_device, Next, GoTo
<1>5. CASE \E a \in Addrs : boot_wakes(a)
  <2>1. PICK a \in Addrs : boot_wakes(a)
    BY <1>5
  <2>2. sleep_return(Boot, a)
    BY <2>1 DEF boot_wakes, sleep_return
  <2> QED BY <1>0, <2>2 DEF Next
<1>6. CASE \E t \in Threads : program(t)
  BY <1>0, <1>6 DEF program, Next
<1>7. CASE switch_to /\ UNCHANGED menuVars
  BY <1>7 DEF Next
<1>8. CASE timer
  BY <1>8 DEF timer, Masked, Next
<1>9. CASE \E a \in Addrs : interrupt(a)
  BY <1>9 DEF interrupt, Next
<1> QED
  BY <1>1, <1>2, <1>3, <1>4, <1>5, <1>6, <1>7, <1>8, <1>9 DEF MenuNext, MenuStep

LEMMA DirectoryKeeps ==
  ASSUME CountInv, TypesInv, vfs_returns \/ cmd_quit
  PROVE  CountInv' /\ TypesInv'
<1>1. /\ stage[Boot] = "active" /\ Boot \in Threads
      /\ UNCHANGED <<switchVars, tableVars, struct, stage, newguy, search, history>>
  BY LifeAssumption DEF vfs_returns, cmd_quit, MenuAt, OnCpu
<1>2. TypesInv'
  <2>1. TablesInv'
    BY <1>1 DEF TypesInv, TablesInv, SwitchTypeOK, switchVars, tableVars, history
  <2> QED BY <1>1, <2>1, TypesFrame DEF TypesInv, history
<1>3. \/ UNCHANGED <<t_cwd, vn_refs>>
      \/ Boot \notin t_cwd /\ t_cwd' = t_cwd \cup {Boot} /\ vn_refs' = vn_refs + 1
      \/ Boot \in t_cwd /\ t_cwd' = t_cwd \ {Boot} /\ vn_refs' = vn_refs - 1
  BY DEF vfs_returns, cmd_quit, cwdVars
<1>4. StagesInv'
  BY <1>1, <1>3 DEF CountInv, StagesInv, Interruptible, tableVars
<1>5. vn_refs' = Cardinality(t_cwd')
  BY <1>3, SetsFinite, FS_AddElement, FS_RemoveElement DEF CountInv
<1>6. numthreads' = Cardinality(Alive')
  BY <1>1 DEF CountInv, Alive, Interruptible, tableVars
<1> QED BY <1>2, <1>4, <1>5, <1>6 DEF CountInv

LEMMA EmptyTablesKeep ==
  ASSUME CountInv, TypesInv, shutdown \/ panic
  PROVE  CountInv' /\ TypesInv'
<1>1. /\ UNCHANGED <<curthread, t_sleepaddr, numthreads, struct, stage, t_cwd, vn_refs,
                     newguy, search, joined, hasty>>
      /\ runqueue' = runqueue \/ runqueue' = <<>>
      /\ sleepers' = sleepers \/ sleepers' = <<>>
      /\ zombies' = zombies \/ zombies' = <<>>
      /\ joinable' = joinable \/ joinable' = <<>>
      /\ panicked' \in {panicked, TRUE}
  BY DEF shutdown, panic, thread_panic, lifeVars, cwdVars, tableVars, history
<1>2. TypesInv'
  <2>1. /\ curthread' \in Threads \cup {NULL} /\ panicked' \in BOOLEAN
        /\ t_sleepaddr' \in [Threads -> Addrs \cup {NULL}]
    BY <1>1 DEF TypesInv, TablesInv, SwitchTypeOK
  <2>2. /\ runqueue' \in Seq(Threads) /\ sleepers' \in Seq(Threads)
        /\ joinable' \in Seq(Threads)
    BY <1>1, EmptySeq DEF TypesInv, TablesInv, SwitchTypeOK
  <2>3. TablesInv'
    BY <1>1, <2>1, <2>2 DEF TypesInv, TablesInv, SwitchTypeOK
  <2> QED BY <1>1, <2>3, TypesFrame DEF TypesInv
<1>3. zombies' \in Seq(Threads) /\ \A t \in Range(zombies') : stage[t] = "zombie"
  <2>1. Range(<<>>) = {}
    BY DEF Range
  <2>2. CASE zombies' = zombies
    BY <1>1, <2>2 DEF CountInv, StagesInv
  <2>3. CASE zombies' = <<>>
    <3>1. Range(zombies') = {} /\ zombies' \in Seq(Threads)
      BY <2>1, <2>3, EmptySeq
    <3> QED BY <3>1
  <2> QED BY <1>1, <2>2, <2>3
<1>4. StagesInv'
  BY <1>1, <1>3 DEF CountInv, StagesInv, Interruptible
<1>5. numthreads' = Cardinality(Alive')
  BY <1>1 DEF CountInv, Alive, Interruptible
<1> QED BY <1>1, <1>2, <1>4, <1>5 DEF CountInv

PlaceInv == at \in Places /\ isargs \in BOOLEAN

LEMMA PlaceStep ==
  ASSUME PlaceInv, MenuNext
  PROVE  PlaceInv'
<1> USE DEF PlaceInv, Places, GoTo, menuVars, lineVars
<1>1. CASE cmd_dispatch
  <2>1. ASSUME NEW c, Accepted(c) PROVE cmdtable[c.name].func \in Places
    BY <2>1 DEF Accepted, cmdtable
  <2> QED BY <1>1, <2>1 DEF cmd_dispatch
<1>2. CASE command_returns \/ menu_execute_returns \/ sys_reboot \/ kgets \/ panic
  BY <1>2 DEF command_returns, menu_execute_returns, sys_reboot, kgets, panic
<1>3. CASE vfs_returns \/ common_prog_fork \/ common_prog_join
  BY <1>3 DEF vfs_returns, common_prog_fork, common_prog_join
<1>4. CASE common_prog_sleep \/ wait_for_device \/ cmd_quit \/ shutdown
  BY <1>4 DEF common_prog_sleep, wait_for_device, cmd_quit, shutdown
<1>5. CASE timer \/ (switch_to /\ UNCHANGED menuVars)
  BY <1>5 DEF timer
<1>6. CASE \E a \in Addrs : boot_wakes(a)
  BY <1>6 DEF boot_wakes
<1>7. CASE \E a \in Addrs : interrupt(a)
  BY <1>7 DEF interrupt
<1>8. CASE \E t \in Threads : program(t)
  BY <1>8 DEF program
<1> HIDE DEF PlaceInv, Places, GoTo, menuVars, lineVars
<1> QED
  BY <1>1, <1>2, <1>3, <1>4, <1>5, <1>6, <1>7, <1>8 DEF MenuNext, MenuStep

(* Beside any programs the menu keeps every variable to its type, through   *)
(* the shutdown, which destroys the tables under them, and through panics.  *)
THEOREM MenuTypeCorrect == MenuSpec => []MenuTypeOK
<1> DEFINE MInv == CountInv /\ TypesInv /\ PlaceInv
<1>1. MenuInit => MInv
  BY CountInit, TypesInit DEF MenuInit, PlaceInv, Places
<1>2. MInv /\ [MenuNext]_allVars => MInv'
  <2> SUFFICES ASSUME MInv, [MenuNext]_allVars PROVE MInv'
    OBVIOUS
  <2>1. CASE UNCHANGED allVars
    <3>1. UNCHANGED vars /\ UNCHANGED <<at, isargs>>
      BY <2>1 DEF allVars, menuVars, lineVars
    <3> QED BY <3>1, CountStep, TypesStep DEF PlaceInv
  <2>2. CASE MenuNext
    BY <2>2, MenuIsLife, CountStep, TypesStep, DirectoryKeeps, EmptyTablesKeep, PlaceStep
  <2> QED BY <2>1, <2>2
<1>3. MInv /\ BootInv => MenuTypeOK
  BY LifeTyped DEF PlaceInv, BootInv, MenuTypeOK
<1>4. MenuSpec => []MInv
  BY <1>1, <1>2, PTL DEF MenuSpec
<1> QED
  BY <1>3, <1>4, BootAlways, PTL

=============================================================================
