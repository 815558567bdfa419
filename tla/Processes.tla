------------------------------ MODULE Processes ------------------------------
(***************************************************************************)
(* The process exercises at work.  What the calls of ProcessPrograms do    *)
(* belongs to Unix and is modelled as far as the programs use it: buffers  *)
(* of stdout that fork copies, pipes that end when their last writer is    *)
(* gone, a write to a pipe without reader that kills the writer, forks     *)
(* that fail.                                                              *)
(***************************************************************************)
EXTENDS ProcessPrograms, Functions

CONSTANT Entered  \* what retval may hold after the scanf of fork_test.c

ASSUME EnteredAssumption == Entered \subseteq Int

Parent == [child |-> "parent", grandchild |-> "child"]
Ends   == Pipes \X {"r", "w"}

VARIABLES
  program,   \* the program that runs
  tty,       \* stdout is a terminal, so a newline flushes it
  state,     \* per process: "unborn", "running", "zombie" or "reaped"
  todo,      \* the calls it has still to make
  buffer,    \* what it has printed and not flushed
  output,    \* what has arrived at the terminal or in the file
  fds,       \* the pipe ends it has open
  pipe,      \* what has been written to a pipe and not been read
  got,       \* what it has read from a pipe
  variable,  \* retval of fork_test.c, globalVariable of fork_text.c
  status,    \* the status of an ended process, as wait returns it
  waited,    \* the status that wait has returned to a process
  failed     \* history: a fork has failed

files == <<fds, pipe, got>>
memory == <<variable, status, waited>>
vars == <<program, tty, state, todo, buffer, output, files, memory, failed>>

SIGPIPE == 13  \* the status of a process that was killed by it

WEXITSTATUS(s) == (s \div 256) % 256

Init ==
  /\ program \in DOMAIN Programs /\ tty \in BOOLEAN
  /\ state = [p \in Procs |-> IF p = "parent" THEN "running" ELSE "unborn"]
  /\ todo = [p \in Procs |-> IF p = "parent" THEN Programs[program].parent ELSE <<>>]
  /\ buffer = [p \in Procs |-> <<>>] /\ output = <<>>
  /\ fds = [p \in Procs |-> {}]
  /\ pipe = [p \in Pipes |-> <<>>]
  /\ got = [p \in Procs |-> <<>>]
  /\ variable = [p \in Procs |-> 2]  \* int globalVariable = 2
  /\ status = [p \in Procs |-> 0] /\ waited = [p \in Procs |-> 0]
  /\ failed = FALSE

\* Process p is about to make this call.
Calls(p, name) == state[p] = "running" /\ Head(todo[p]).call = name
Call(p) == Head(todo[p])
Return_from(p) == todo' = [todo EXCEPT ![p] = Tail(@)]

-----------------------------------------------------------------------------
(* stdout *)

\* Mutated: the status is printed as wait returns it.
Shown_raw(p, text) ==
  CASE text = "PARENT: Child's exit code" -> waited[p]
    [] text = "Global variable" -> variable[p]
    [] OTHER -> 0

\* The number that is printed with a line.
Shown(p, text) ==
  CASE text = "PARENT: Child's exit code" -> WEXITSTATUS(waited[p])
    [] text = "Global variable" -> variable[p]
    [] OTHER -> 0

Printed(p) ==
  LET text == Call(p).text
  IN Append(buffer[p], [by |-> p, text |-> text, value |-> Shown(p, text)])

Flush(p, lines) == output' = output \o lines /\ buffer' = [buffer EXCEPT ![p] = <<>>]

printf(p) ==
  /\ Calls(p, "printf")
  /\ IF tty /\ Call(p).newline
       THEN Flush(p, Printed(p))
       ELSE buffer' = [buffer EXCEPT ![p] = Printed(p)] /\ UNCHANGED output
  /\ Return_from(p)
  /\ UNCHANGED <<program, tty, state, files, memory, failed>>

\* cout << ... << endl
endl(p) ==
  /\ Calls(p, "endl")
  /\ Flush(p, Printed(p))
  /\ Return_from(p)
  /\ UNCHANGED <<program, tty, state, files, memory, failed>>

\* write(1, ...), past the buffer
write1(p) ==
  /\ Calls(p, "write1")
  /\ output' = Append(output, [by |-> p, text |-> "This line", value |-> Call(p).value])
  /\ Return_from(p)
  /\ UNCHANGED <<program, tty, state, buffer, files, memory, failed>>

-----------------------------------------------------------------------------
(* Variables *)

increment(p) ==
  /\ Calls(p, "increment")
  /\ variable' = [variable EXCEPT ![p] = @ + 1]
  /\ Return_from(p)
  /\ UNCHANGED <<program, tty, state, buffer, output, files, status, waited, failed>>

scanf(p) ==
  /\ Calls(p, "scanf")
  /\ variable' \in {[variable EXCEPT ![p] = n] : n \in Entered}
  /\ Return_from(p)
  /\ UNCHANGED <<program, tty, state, buffer, output, files, status, waited, failed>>

-----------------------------------------------------------------------------
(* Processes *)

\* The child gets a copy of everything: open ends, variables, what stdout has
\* not flushed.
fork(p) ==
  LET q == Call(p).who IN
  /\ Calls(p, "fork")
  /\ \/ /\ state' = [state EXCEPT ![q] = "running"]
        /\ todo' = [todo EXCEPT ![p] = Tail(@), ![q] = Programs[program][q]]
        /\ buffer' = [buffer EXCEPT ![q] = buffer[p]]
        /\ fds' = [fds EXCEPT ![q] = fds[p]]
        /\ variable' = [variable EXCEPT ![q] = variable[p]]
        /\ UNCHANGED failed
     \/ /\ todo' = [todo EXCEPT ![p] = Call(p).failure]
        /\ failed' = TRUE
        /\ UNCHANGED <<state, buffer, fds, variable>>
  /\ UNCHANGED <<program, tty, output, pipe, got, status, waited>>

\* The process ends with status s; its ends are closed.
End(p, s) ==
  /\ state' = [state EXCEPT ![p] = "zombie"]
  /\ status' = [status EXCEPT ![p] = s]
  /\ todo' = [todo EXCEPT ![p] = <<>>]
  /\ fds' = [fds EXCEPT ![p] = {}]
  /\ UNCHANGED <<program, tty, pipe, got, variable, waited, failed>>

ExitValue(p) ==
  CASE Call(p).value = "variable" -> variable[p]
    [] Call(p).value = "one" -> 1
    [] Call(p).value = "zero" -> 0

\* exit flushes stdout.
exit(p) ==
  /\ Calls(p, "exit")
  /\ Flush(p, buffer[p])
  /\ End(p, 256 * (ExitValue(p) % 256))

\* wait returns when a child has ended.  The programs call it only after a
\* fork that has succeeded, so there is one.
wait(p) ==
  /\ Calls(p, "wait")
  /\ \E c \in DOMAIN Parent :
       /\ Parent[c] = p /\ state[c] = "zombie"
       /\ state' = [state EXCEPT ![c] = "reaped"]
       /\ waited' = [waited EXCEPT ![p] = status[c]]
  /\ Return_from(p)
  /\ UNCHANGED <<program, tty, buffer, output, files, variable, status, failed>>

-----------------------------------------------------------------------------
(* Pipes *)

HasOpen(end) == {p \in Procs : end \in fds[p]}

makePipes(p) ==
  /\ Calls(p, "pipe")
  /\ fds' = [fds EXCEPT ![p] = Ends]
  /\ Return_from(p)
  /\ UNCHANGED <<program, tty, state, buffer, output, pipe, got, memory, failed>>

close(p) ==
  /\ Calls(p, "close")
  /\ fds' = [fds EXCEPT ![p] = @ \ {Call(p).end}]
  /\ Return_from(p)
  /\ UNCHANGED <<program, tty, state, buffer, output, pipe, got, memory, failed>>

\* A write to a pipe that nobody can read kills the writer.
write(p) ==
  LET w == Call(p).pipe IN
  /\ Calls(p, "write")
  /\ \/ /\ HasOpen(<<w, "r">>) # {}
        /\ pipe' = [pipe EXCEPT ![w] = @ \o Call(p).items]
        /\ Return_from(p)
        /\ UNCHANGED <<program, tty, state, buffer, output, fds, got, memory, failed>>
     \/ /\ HasOpen(<<w, "r">>) = {}
        /\ End(p, SIGPIPE)
        /\ UNCHANGED <<buffer, output>>

\* The loop around fgetc: it goes on to the newline or to the end of file,
\* which comes when the pipe is empty and nobody can write to it any more.
read(p) ==
  LET r == Call(p).pipe IN
  /\ Calls(p, "read")
  /\ \/ /\ pipe[r] # <<>>
        /\ pipe' = [pipe EXCEPT ![r] = Tail(@)]
        /\ IF Head(pipe[r]) = "\n"
             THEN Return_from(p) /\ UNCHANGED got
             ELSE got' = [got EXCEPT ![p] = Append(@, Head(pipe[r]))] /\ UNCHANGED todo
     \/ /\ pipe[r] = <<>> /\ HasOpen(<<r, "w">>) = {}
        /\ Return_from(p)
        /\ UNCHANGED <<pipe, got>>
  /\ UNCHANGED <<program, tty, state, buffer, output, fds, memory, failed>>

-----------------------------------------------------------------------------

\* Everything a process does without somebody at the keyboard.
Runs(p) ==
  \/ printf(p) \/ endl(p) \/ write1(p) \/ increment(p)
  \/ fork(p) \/ exit(p) \/ wait(p)
  \/ makePipes(p) \/ close(p) \/ write(p) \/ read(p)

Step(p) == Runs(p) \/ scanf(p)

Next == \E p \in Procs : Step(p)

\* Unix runs every process that can run.  Nobody has to type what fork_test
\* asks for: scanf may never return.
Fairness == \A p \in Procs : WF_vars(Runs(p))

Spec == Init /\ [][Next]_vars /\ Fairness

-----------------------------------------------------------------------------
(* Properties *)

Lines == [by : Procs, text : Texts, value : Int]

ProcTypeOK ==
  /\ program \in DOMAIN Programs /\ tty \in BOOLEAN
  /\ state \in [Procs -> {"unborn", "running", "zombie", "reaped"}]
  /\ \A p \in Procs : buffer[p] \in Seq(Lines)
  /\ output \in Seq(Lines)
  /\ fds \in [Procs -> SUBSET Ends]
  /\ \A p \in Procs : state[p] = "running" => todo[p] # <<>>
  /\ variable \in [Procs -> Int] /\ status \in [Procs -> Nat] /\ waited \in [Procs -> Nat]
  /\ failed \in BOOLEAN

(* Every process ends, whichever fork fails: nobody waits for ever in wait, *)
(* nor for the end of a pipe that a process further up keeps open.  Only    *)
(* fork_test.c may wait for ever, if nobody types what its child asks for.  *)
Terminates ==
  []<>(~Calls("child", "scanf")) => <>(\A p \in Procs : state[p] # "running")

(* A write to a pipe kills its writer in one case only: the parent of       *)
(* partB.c, whose child could not fork and went home before it had read.    *)
(* The parent then ends without its message from the grandchild and without *)
(* "End".                                                                   *)
KilledByFailure ==
  \A p \in Procs : status[p] = SIGPIPE =>
    /\ program = "partB" /\ p = "parent" /\ failed
    /\ state["child"] = "zombie" /\ state["grandchild"] = "unborn"

(* In partB.c, if the forks succeed, each process that has ended has read   *)
(* the message of its neighbour, whole, and none was killed by SIGPIPE.     *)
MessagesDelivered ==
  program = "partB" /\ ~failed =>
    \A p \in Procs : state[p] \in {"zombie", "reaped"} =>
      /\ status[p] = 0
      /\ got[p] = CASE p = "parent" -> <<"from grandchild">>
                    [] p = "child" -> <<"from parent">>
                    [] p = "grandchild" -> <<"from child">>

\* Who must have ended before whom prints.
Rank(l) ==
  IF l.text \in {"Begin", "PARENT: I am the parent process!"} THEN 0
  ELSE IF l.by = "parent" THEN 3
  ELSE IF l.by = "child" /\ program # "partB" THEN 2 ELSE 1

(* wait keeps the output in order: "wait for the grandchild to finish (for  *)
(* nicer output)" in partA.c, "wait for the grandchild process before       *)
(* allowing the parent to coninue" in partB.c, and the exit status after    *)
(* all that the child prints in fork_test.c, buffered or not.               *)
OutputInOrder ==
  program \in {"partA", "partB", "fork_test"} =>
    \A i, k \in DOMAIN output :
      i < k /\ Rank(output[i]) > 0 /\ Rank(output[k]) > 0 =>
        Rank(output[i]) <= Rank(output[k])

(* On a terminal no line comes out twice: whenever a process forks it has   *)
(* flushed what it printed, and the child does not print it again.          *)
PrintedOnce == tty => IsInjective(output)

(* The parent of fork_test.c shows the value that the child was given, in   *)
(* the range 0 to 255 that the child asks for, and modulo 256 outside; in   *)
(* fork_text.c the child's increment is not the parent's.                   *)
ValuesShown ==
  \A l \in Range(output) :
    /\ l.text = "PARENT: Child's exit code" => l.value = variable["child"] % 256
    /\ l.text = "Global variable" => l.value = IF l.by = "child" THEN 3 ELSE 2

=============================================================================
