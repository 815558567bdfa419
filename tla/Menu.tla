--------------------------------- MODULE Menu ---------------------------------
(***************************************************************************)
(* The kernel's menu, project_5_6/menu.c, and the shutdown in              *)
(* project_2/partC.c: the boot thread runs the boot line and then the      *)
(* lines it is given at the prompt, beside the programs it has started.    *)
(*                                                                         *)
(* A command is its name and its number of words.  The file systems, the   *)
(* clock, the console and the programs are external: they sleep on dev or  *)
(* lbolt, and a program ends in thread_exit, through _exit or by returning *)
(* from cmd_progthread.                                                    *)
(***************************************************************************)
EXTENDS ThreadLife

CONSTANTS MAXMENUARGS,  \* words in a command
          BootLines,    \* what the bootloader may pass
          InputLines,   \* what may be typed
          lbolt,        \* the address that clocksleep sleeps on
          dev           \* an address that waits for a device

Commands == [name : STRING, nargs : Nat]

ASSUME MenuAssumption ==
  /\ {lbolt, dev} \subseteq Addrs /\ MAXMENUARGS \in Nat
  /\ BootLines \subseteq Seq(Commands) /\ InputLines \subseteq Seq(Commands)

VARIABLES
  line,    \* the commands that menu_execute has still to do
  isargs,  \* the line is the boot line
  at,      \* where in the menu's code the boot thread is
  boot,    \* history: the boot line
  passed   \* history: the commands of the boot line that have returned 0

lineVars == <<line, isargs, boot, passed>>
menuVars == <<lineVars, at>>
allVars == <<vars, menuVars>>

Places == {"execute", "prompt", "vfs", "fork", "join", "joined", "clock",
           "done", "failed", "panic", "quit", "unmount", "poweroff", "off"}

MenuTypeOK ==
  /\ LifeTypeOK
  /\ line \in Seq(Commands) /\ boot \in Seq(Commands) /\ passed \in Seq(Commands)
  /\ isargs \in BOOLEAN /\ at \in Places

\* boot() has come to its end; the boot thread has no directory yet.
MenuInit ==
  /\ Init /\ t_cwd = {}
  /\ boot \in BootLines /\ line = boot /\ passed = <<>>
  /\ isargs = TRUE /\ at = "execute"

\* The boot thread is on the CPU at this place of the menu.
MenuAt(place) == OnCpu(Boot, {"active"}) /\ at = place

GoTo(place) == at' = place /\ UNCHANGED <<vars, lineVars>>

-----------------------------------------------------------------------------
(* Lines and commands *)

\* How many words each command takes, and where its function begins.  The
\* tests in the table print and return 0 like the menus.
cmdtable ==
  LET any == 1..MAXMENUARGS
      entry(takes, func) == [takes |-> takes, func |-> func]
  IN [help  |-> entry(any, "done"), panic |-> entry(any, "panic"),
      s     |-> entry({1}, "fork"), p     |-> entry(any \ {1}, "fork"),
      cd    |-> entry({2}, "vfs"),  mount |-> entry({3}, "vfs"),
      unmount |-> entry({2}, "vfs"), bootfs |-> entry({2}, "vfs"),
      pwd   |-> entry(any, "vfs"),  sync  |-> entry(any, "vfs"),
      q     |-> entry(any, "quit")]

\* The command is in the table and has the words it takes.
Accepted(c) ==
  /\ c.nargs <= MAXMENUARGS
  /\ c.name \in DOMAIN cmdtable /\ c.nargs \in cmdtable[c.name].takes

\* Too many words, unknown commands and wrong usage fail; no words is nothing.
cmd_dispatch ==
  LET c == Head(line) IN
  /\ MenuAt("execute") /\ line # <<>>
  /\ \/ c.nargs = 0 /\ GoTo("done")
     \/ c.nargs # 0 /\ ~Accepted(c) /\ GoTo("failed")
     \/ c.nargs # 0 /\ Accepted(c) /\ GoTo(cmdtable[c.name].func)

\* Mutated: a command that fails is only reported.
command_returns_reported ==
  /\ MenuAt("done") \/ MenuAt("failed")
  /\ line' = Tail(line) /\ at' = "execute"
  /\ passed' = IF isargs /\ at = "done" THEN Append(passed, Head(line)) ELSE passed
  /\ UNCHANGED <<vars, isargs, boot>>

\* Back in menu_execute with the result of a command.
command_returns ==
  \/ /\ MenuAt("done") \/ (MenuAt("failed") /\ ~isargs)
     /\ line' = Tail(line) /\ at' = "execute"
     /\ passed' = IF isargs THEN Append(passed, Head(line)) ELSE passed
     /\ UNCHANGED <<vars, isargs, boot>>
  \/ /\ MenuAt("failed") /\ isargs
     /\ GoTo("panic")

\* The line is done.
menu_execute_returns ==
  /\ MenuAt("execute") /\ line = <<>>
  /\ at' = "prompt" /\ isargs' = FALSE
  /\ UNCHANGED <<vars, line, boot, passed>>

\* A line has been typed.
kgets ==
  /\ MenuAt("prompt")
  /\ line' \in InputLines /\ at' = "execute"
  /\ UNCHANGED <<vars, isargs, boot, passed>>

panic ==
  /\ MenuAt("panic")
  /\ thread_panic
  /\ UNCHANGED <<curthread, t_sleepaddr, lifeVars, menuVars>>

-----------------------------------------------------------------------------
(* The commands *)

\* A call into the file system returns; all but vfs_sync may fail.
vfs_returns ==
  /\ MenuAt("vfs")
  /\ UNCHANGED <<switchVars, tableVars, struct, stage, newguy, search, history, lineVars>>
  /\ \/ /\ Head(line).name # "sync" /\ at' = "failed"
        /\ UNCHANGED cwdVars
     \/ /\ at' = "done"
        /\ IF Head(line).name = "cd" /\ Boot \notin t_cwd
             THEN t_cwd' = t_cwd \cup {Boot} /\ vn_refs' = vn_refs + 1
             ELSE UNCHANGED cwdVars

\* thread_fork in common_prog: it fails at once for want of memory, or goes
\* through its steps.
common_prog_fork ==
  /\ at = "fork"
  /\ \/ OnCpu(Boot, {"active"}) /\ at' = "failed" /\ UNCHANGED vars
     \/ (\E n \in Threads : thread_fork(Boot, n)) /\ UNCHANGED at
     \/ fork_fail(Boot) /\ at' = "failed"
     \/ fork_enqueue(Boot) /\ UNCHANGED at
     \/ fork_return(Boot, TRUE) /\ at' = (IF panicked' THEN at ELSE "join")
  /\ UNCHANGED lineVars

\* thread_join with the word that pid points to by now, a local variable of
\* thread_fork; its result is not looked at.
common_prog_join ==
  /\ at = "join"
  /\ \/ \E p \in Words : thread_join(Boot, p)
     \/ /\ OnCpu(Boot, {"active"})
        /\ \E p \in Words : p = struct[Boot].t_pid \/ Matches(struct, Boot, p) = {}
        /\ UNCHANGED vars
     \/ search_test(Boot) \/ search_get(Boot) \/ search_read(Boot)
     \/ join_found(Boot) \/ join_return(Boot)
  /\ at' = IF ~panicked' /\ stage'[Boot] = "active" THEN "joined" ELSE at
  /\ UNCHANGED lineVars

\* Mutated: the menu sleeps as long as a program runs.
common_prog_sleep_on ==
  \/ /\ MenuAt("joined") /\ numthreads = 1
     /\ GoTo("done")
  \/ /\ MenuAt("joined") /\ numthreads # 1
     /\ sleep(Boot, lbolt)
     /\ UNCHANGED menuVars

\* If is_thread_running, clocksleep(1): one sleep, whoever still runs then.
common_prog_sleep ==
  \/ /\ MenuAt("joined") /\ numthreads = 1
     /\ GoTo("done")
  \/ /\ MenuAt("joined") /\ numthreads # 1
     /\ sleep(Boot, lbolt)
     /\ at' = "clock" /\ UNCHANGED lineVars
  \/ /\ MenuAt("clock")
     /\ GoTo("done")

-----------------------------------------------------------------------------
(* Shutdown *)

\* Mutated: the directory is given back whether there is one or not.
cmd_quit_untested ==
  /\ MenuAt("quit") /\ at' = "unmount"
  /\ t_cwd' = t_cwd \ {Boot} /\ vn_refs' = vn_refs - 1
  /\ UNCHANGED <<switchVars, tableVars, struct, stage, newguy, search, history, lineVars>>

\* vfs_sync has returned; vfs_clearcurdir.
cmd_quit ==
  /\ MenuAt("quit") /\ at' = "unmount"
  /\ t_cwd' = t_cwd \ {Boot}
  /\ vn_refs' = IF Boot \in t_cwd THEN vn_refs - 1 ELSE vn_refs
  /\ UNCHANGED <<switchVars, tableVars, struct, stage, newguy, search, history, lineVars>>

\* vfs_unmountall has returned; splhigh, scheduler_shutdown, thread_shutdown:
\* the tables are gone.
shutdown ==
  /\ MenuAt("unmount") /\ at' = "poweroff"
  /\ runqueue' = <<>> /\ sleepers' = <<>> /\ zombies' = <<>> /\ joinable' = <<>>
  /\ UNCHANGED <<curthread, t_sleepaddr, panicked, numthreads, struct, stage,
                 cwdVars, newguy, search, history, lineVars>>

\* md_poweroff does not return.
sys_reboot == MenuAt("poweroff") /\ GoTo("off")

\* Interrupts are off for good.
Masked == at \in {"poweroff", "off"}

-----------------------------------------------------------------------------
(* Interrupts and programs *)

\* The timer calls thread_yield.
timer ==
  /\ ~Masked
  /\ \E t \in Threads : yield(t)
  /\ UNCHANGED menuVars

interrupt(addr) == ~Masked /\ wakeup(addr) /\ UNCHANGED menuVars

\* The boot thread waits for the console or the disk.
wait_for_device ==
  /\ at \in {"prompt", "vfs", "quit", "unmount"}
  /\ sleep(Boot, dev)
  /\ UNCHANGED menuVars

boot_wakes(addr) ==
  /\ curthread = Boot /\ Resumed(Boot, addr)
  /\ ReturnFromSleep
  /\ UNCHANGED <<curthread, runqueue, sleepers, panicked, lifeVars, menuVars>>

\* A program sleeps, comes back or ends.
program(t) ==
  /\ t # Boot
  /\ \/ sleep(t, dev) \/ sleep_return(t, dev) \/ thread_exit(t) \/ exit_resume(t)
  /\ UNCHANGED menuVars

\* What the boot thread does without being asked.
MenuStep ==
  \/ cmd_dispatch \/ command_returns \/ menu_execute_returns \/ panic
  \/ vfs_returns \/ common_prog_fork \/ common_prog_join \/ common_prog_sleep
  \/ cmd_quit \/ shutdown \/ sys_reboot

MenuNext ==
  \/ MenuStep \/ kgets \/ wait_for_device
  \/ \E a \in Addrs : boot_wakes(a)
  \/ \E t \in Threads : program(t)
  \/ switch_to /\ UNCHANGED menuVars
  \/ timer
  \/ \E a \in Addrs : interrupt(a)

\* The clock ticks, devices answer, and the timer does not strike at each of
\* the boot thread's steps.  Programs need not end, and nobody need type.
MenuFairness ==
  /\ WF_allVars(switch_to /\ UNCHANGED menuVars)
  /\ WF_allVars(timer)
  /\ WF_allVars(\E a \in Addrs : boot_wakes(a))
  /\ \A t \in Threads \ {Boot} :
       WF_allVars((exit_resume(t) \/ sleep_return(t, dev)) /\ UNCHANGED menuVars)
  /\ SF_allVars(MenuStep)
  /\ \A a \in Addrs : SF_allVars(interrupt(a))

MenuSpec == MenuInit /\ [][MenuNext]_allVars /\ MenuFairness

-----------------------------------------------------------------------------
(* Properties *)

(* "We're doing command-line processing; ... panic if the command is         *)
(* invalid or fails": when the menu prompts, every command of the boot line  *)
(* has been run, in order and with success, whatever other threads did.      *)
BootLineDone ==
  ~isargs =>
    /\ passed = boot
    /\ \A c \in Range(boot) : c.nargs <= MAXMENUARGS

(* The menu comes back to the prompt, or the machine stops, after every      *)
(* command, though a program it has started may run or sleep for ever.       *)
MenuReturns == (at # "prompt") ~> (at \in {"prompt", "off"} \/ panicked)

=============================================================================
