--------------------------- MODULE ProcessPrograms ---------------------------
(***************************************************************************)
(* The process exercises: project_2/partA.c (fork and wait over three      *)
(* generations), project_2/partB.c (the same with a pipe from each process *)
(* to the next), fork_test.c (an exit status), partA_fork.c, fork_text.c   *)
(* and fork-01.c (one fork each).                                          *)
(*                                                                         *)
(* A program is one script per process: the calls it makes after the fork  *)
(* that made it.  Module Processes says what the calls do.                 *)
(***************************************************************************)
EXTENDS Integers, Sequences

CONSTANT MAX_COUNT  \* the lines fork-01.c writes

ASSUME CountAssumption == MAX_COUNT \in Nat

Procs == {"parent", "child", "grandchild"}
Pipes == {"pc", "cg", "gp"}  \* parent to child, child to grandchild, back

\* What the programs print; the numbers in a line are kept apart from it.
Texts == {"Begin", "In Parent process", "In Child process", "In GrandChild process",
          "Message from parent", "Message from child", "Message from grandchild",
          "message", "End", "Fork failed", "Before fork", "After fork", "Error",
          "Parent process", "PARENT: I am the parent process!",
          "PARENT: Child's exit code", "CHILD: I am the child process!",
          "CHILD: Goodbye!", "Global variable", "This line"}

-----------------------------------------------------------------------------
(* The calls *)

\* Mutated: the newline at the end is forgotten.
Say_unterminated(text) == [call |-> "printf", text |-> text, newline |-> FALSE]

\* printf of one or more lines; sections that are printed together are one.
Say(text)          == [call |-> "printf", text |-> text, newline |-> TRUE]
SayOpen(text)      == [call |-> "printf", text |-> text, newline |-> FALSE]
Endl(text)         == [call |-> "endl", text |-> text]
WriteOut(i)        == [call |-> "write1", value |-> i]
Fork(who, failure) == [call |-> "fork", who |-> who, failure |-> failure]
Wait               == [call |-> "wait"]
Increment          == [call |-> "increment"]
Scanf              == [call |-> "scanf"]
Exit(value)        == [call |-> "exit", value |-> value]
MakePipes          == [call |-> "pipe"]
Close(p, end)      == [call |-> "close", end |-> <<p, end>>]
Write(p, items)    == [call |-> "write", pipe |-> p, items |-> items]
Read(p)            == [call |-> "read", pipe |-> p]

\* Mutated: the message ends without a newline.
write_to_pipe_unterminated(p, message) == <<Write(p, <<message>>), Close(p, "w")>>

\* Mutated: the format has no place for the message.
write_to_pipe_empty(p, message) == <<Write(p, <<"\n">>), Close(p, "w")>>

\* fclose flushes the message in one write and closes the end.
write_to_pipe(p, message) == <<Write(p, <<message, "\n">>), Close(p, "w")>>

\* Characters are printed as they come, then a newline.
read_from_pipe(p) == <<Read(p), Say("message"), Close(p, "r")>>

\* Mutated: main comes to its end without a return.
Return_missing == <<>>

\* return 0 from main
Return == <<Exit("zero")>>

\* Mutated: the branch goes on to write to the child that is not there.
ForkFailed_through ==
  <<SayOpen("Fork failed"), Close("pc", "r")>> \o write_to_pipe("pc", "from parent") \o Return

ForkFailed == <<SayOpen("Fork failed")>> \o Return

-----------------------------------------------------------------------------
(* The programs *)

\* Mutated: the child does not wait.
partA_unwaited ==
  [parent |-> <<Say("Begin"), Fork("child", ForkFailed),
                Wait, Say("In Parent process")>> \o Return,
   child |-> <<Fork("grandchild", Return), Say("In Child process")>> \o Return,
   grandchild |-> <<Say("In GrandChild process")>> \o Return]

partA ==
  [parent |-> <<Say("Begin"), Fork("child", ForkFailed),
                Wait, Say("In Parent process")>> \o Return,
   child |-> <<Fork("grandchild", Return), Wait, Say("In Child process")>> \o Return,
   grandchild |-> <<Say("In GrandChild process")>> \o Return]

partB ==
  [parent |->
     <<Say("Begin"), MakePipes, Fork("child", ForkFailed),
       Close("pc", "r")>> \o write_to_pipe("pc", "from parent") \o
     <<Wait, Say("In Parent process"), SayOpen("Message from grandchild"),
       Close("gp", "w")>> \o read_from_pipe("gp") \o <<Say("End")>> \o Return,
   child |->
     <<Fork("grandchild", Return), Close("cg", "r")>> \o
     write_to_pipe("cg", "from child") \o
     <<Say("In Child process"), SayOpen("Message from parent"), Close("pc", "w")>> \o
     read_from_pipe("pc") \o <<Wait>> \o Return,
   grandchild |->
     <<Close("gp", "r")>> \o write_to_pipe("gp", "from grandchild") \o
     <<Say("In GrandChild process"), SayOpen("Message from child"),
       Close("cg", "w")>> \o read_from_pipe("cg") \o Return]

\* Failures are reported on stderr, which is left out here.
fork_test ==
  [parent |-> <<Fork("child", Return), Say("PARENT: I am the parent process!"), Wait,
                Say("PARENT: Child's exit code")>> \o Return,
   child |-> <<Say("CHILD: I am the child process!"), Scanf, Say("CHILD: Goodbye!"),
               Exit("variable")>>]

partA_fork ==
  [parent |-> <<Say("Before fork"),
                Fork("child", <<Say("After fork"), SayOpen("Error")>> \o Return),
                Say("After fork"), Say("Parent process")>> \o Return,
   child |-> <<Say("After fork"), Say("In Child process")>> \o Return]

fork_text ==
  [parent |-> <<Fork("child", <<Exit("one")>>), Endl("Global variable")>> \o Return,
   child |-> <<Increment, Endl("Global variable")>> \o Return]

\* The result of fork is not looked at.
fork_01 ==
  LET lines == [i \in 1..MAX_COUNT |-> WriteOut(i)] \o Return IN
  [parent |-> <<Fork("child", lines)>> \o lines, child |-> lines]

Programs ==
  [partA |-> partA, partB |-> partB, fork_test |-> fork_test,
   partA_fork |-> partA_fork, fork_text |-> fork_text, fork_01 |-> fork_01]

=============================================================================
