-------------------------------- MODULE MCMenu --------------------------------
(* The menu with two programs, three words to a command and lines that       *)
(* reach every command, every failure, and two commands in a row.            *)
EXTENDS Menu

cmd(name, nargs) == [name |-> name, nargs |-> nargs]

Boots == {<<cmd("mount", 3), cmd("s", 1)>>, <<cmd("xyz", 1)>>, <<cmd("help", 4)>>}

Inputs == {<<cmd("cd", 2), cmd("", 0)>>, <<cmd("p", 1), cmd("sync", 1)>>,
           <<cmd("panic", 1)>>, <<cmd("p", 2), cmd("q", 1)>>}

Fresh(detached) ==
  [t_pid : {0}, parent : {0}, is_detached : detached, has_exited : {0}, children : {<<>>}]

Flagged == Fresh({0, 1})
=============================================================================
