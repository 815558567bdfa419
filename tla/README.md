# Verification of cse4300-Project-2

The repository holds course work on OS/161, a small teaching kernel, and a few
user programs. This directory models its thread system, the synchronization primitives
built on it, the kernel's menu and shutdown, the threaded matrix programs and the
process exercises, in TLA+. TLC checks the models on small instances; TLAPS proves
the main results for every size.

## The system

| part | source | state | operations |
|---|---|---|---|
| thread switch | `project_5_6/thread.c` 422-527, 574-672 | `curthread`, `sleepers`, per thread `t_sleepaddr`; the run queue of the scheduler (not in the repository) | `mi_switch`, `thread_yield`, `thread_sleep`, `thread_wakeup`, `thread_wakeone`, `thread_hassleepers`, `thread_panic` |
| thread life | `project_5_6/thread.c` | `zombies`, `joinable`, `numthreads`, the fields of `struct thread` (`t_pid`, `parent`, `is_detached`, `has_exited`, `children`) | `thread_bootstrap`, `thread_fork`, `thread_exit`, `thread_join`, `thread_detach`, `exorcise`, `mi_threadstart`, `thread_shutdown` |
| semaphores | `project_5_6/synch.c` 13-95 | `count` | `sem_create`, `P`, `V`, `sem_destroy` |
| locks | `project_5_6/synch.c` 97-179 | `owner` | `lock_create`, `lock_acquire`, `lock_release`, `lock_do_i_hold`, `lock_destroy` |
| condition variables | `project_5_6/synch.c` 181-272 | none | `cv_create`, `cv_wait`, `cv_signal`, `cv_broadcast`, `cv_destroy` |
| kernel menu | `project_5_6/menu.c` | the command line, its `args` array | `menu`, `menu_execute`, `cmd_dispatch`, `common_prog`, `cmd_progthread`, `getinterval`, the commands |
| kernel main | `project_2/partC.c` | none of its own | `boot`, `shutdown`, `sys_reboot`, `kmain` |
| fork and wait exercises | `project_2/partA.c`, `partA_fork.c`, `fork_text.c`, `fork-01.c`, `fork.c` | up to three processes, stdout's buffers, a global variable | `fork`, `wait`, `exit`, printing |
| exit status exercise | `fork_test.c` | two processes, an exit status | `fork`, `scanf`, `exit`, `wait`, `WEXITSTATUS` |
| pipe exercise | `project_2/partB.c` | three pipes, three processes | write a line to one pipe, read one from another, close the other ends |
| matrix programs | `project_3/*.c` | shared vectors and a mutex | pthreads that add up parts of a product |
| rest | `_exit.c`, `errno.h`, `README.md` | none | a stub, constants, notes |

How the parts meet. `P`, `lock_acquire` and `cv_wait` call `thread_sleep` in a
loop or once; `V`, `lock_release`, `cv_broadcast` and `cv_signal` call
`thread_wakeup` or `thread_wakeone`; all of them work on the one table
`sleepers`, and the address of the primitive is the sleep address. `cv_wait` calls
`lock_release` and `lock_acquire`. `thread_sleep`, `thread_yield` and
`thread_exit` end in `mi_switch`, which puts the thread into a table and takes the
next one from the scheduler. `thread_fork` and `thread_join` put threads into the
scheduler's queue as well. The menu runs in the boot thread: it forks a thread for
each program, joins it, and sleeps on the clock; `shutdown` destroys the tables that
all threads use. The user programs meet through Unix only: buffers copied by `fork`,
pipes, exit statuses; the matrix programs through shared memory and one mutex.

What is hard. There is one CPU, and code between `splhigh` and `splx` is not
interrupted, but every `mi_switch` lets others in: a thread that comes back
finds the world changed. Woken threads race with each other and with newcomers.
Interrupt handlers call `V`. A thread can run and exit before its parent has
returned from `thread_fork`. `thread_join` touches a thread that may be
anywhere, and it searches tables with interrupts on. What makes each part correct:

* thread switch: every thread is in one place, and a wakeup finds every sleeper;
* semaphores: the count is never negative, and no `V` is lost;
* locks: mutual exclusion, and nobody sleeps on a lock that nobody holds;
* condition variables: giving up the lock and going to sleep is one step, a
  woken thread returns with the lock, no broadcast is missed;
* thread life: a dead thread is never run or counted, a thread is not destroyed while
  somebody needs its structure, whoever exited can be reclaimed, and no legal call stops
  the kernel;
* matrix programs: no update of a shared cell is lost, and the result is complete
  and right when `main` has joined the threads;
* menu: the boot line is done before the first prompt; after each command the menu comes
  back or the machine stops, whatever the programs do; the time shown is the time taken;
* processes: all of them end, whichever fork fails, if somebody types; messages arrive
  whole; `wait` keeps the output in order; nothing is printed twice on a terminal; an exit
  value arrives.

Not all of this is true of the code. What is not is under "Where the code differs", and the
properties name the exceptions.

## Modules

    Arrays                     Entries, array_remove
      ThreadSwitch             tables, run queue, building blocks
        Semaphore              implements AtomicSemaphore
        Lock                   implements Mutex
          CondVar              implements Monitor (which extends Mutex)
        ThreadLife
          Menu
    Interval                   the time shown for a command
    MatrixThreads
    ProcessPrograms            the programs as scripts
      Processes                what their calls do
    MCSemaphore MCLock MCCondVar MCThreadLife MCMenu MCInterval
    MCMatrixThreads MCProcesses
    ThreadSwitchProofs SemaphoreProofs LockProofs CondVarProofs ThreadLifeProofs
    MenuProofs (Menu and Interval) MatrixThreadsProofs ProcessesProofs

**Arrays** is what the thread code uses of the kernel's arrays: a sequence, and the
removal of one entry.

**ThreadSwitch** holds `curthread`, `runqueue`, `sleepers`, `t_sleepaddr` and
`panicked`. A region with interrupts off is one step up to the next `mi_switch`.
Leaving the CPU and choosing the next thread are two steps, as in the code
`curthread` is NULL in between and the idle loop can take an interrupt. A thread
whose `t_sleepaddr` is set and that is `curthread` has just come back inside
`thread_sleep`; it goes on with interrupts off (`Resumed`), everybody else on the
CPU is in ordinary code (`Running`). A failed assertion calls `panic`, hence
`thread_panic`, and nothing happens afterwards. `thread_wakeone` takes the value
of its never assigned index as a parameter.

**Semaphore** and **Lock** let every thread call every operation at any time,
misuse included. `P` and `P_resume` share `P_loop`: the call, and the return from
the sleep inside the loop. The same holds for `lock_acquire`. `P_take` is what follows
the loop of `P`, with its assertion that the count is positive (synch.c 80); the same
assertion of `lock_acquire` (152) repeats the condition of its loop and cannot fail. `V` may
come from an interrupt handler. The count is a C int with its overflow. `FreshOwner` is what
`lock_create` leaves in the owner field, which it does not assign. `held` and `misused`
are history variables: what callers believe to hold, and whether some call broke the rules.

**CondVar** composes Lock's and ThreadSwitch's building blocks. The repository
has no caller of the cv operations, so the callers are those `synch.h` asks for:
each cv has a lock and a condition (`cond`) that is tested, set and consumed under
it. `SignalCVs` says which of them are signalled, the others are only broadcast.
`SignalIndex` is what the never assigned index in `thread_wakeone` may hold.

**ThreadLife** names a thread by its `struct thread`. `stage` says where in its life
a thread is. `thread_fork` is three steps, since it has interrupts on before and after
the region that makes the new thread runnable: `thread_fork` (the structure, the
inherited directory), `fork_enqueue` or `fork_fail` (the region, with or without room
in the tables), `fork_return`. `FreshStruct` holds the structures that `thread_create` may
return, with whatever stood in the words it does not assign.

`thread_join` and `thread_detach` run with interrupts on, but for the region that makes
the child runnable. They find the child (one step: only the thread itself changes its
children), then search `sleepers`, `zombies` and `joinable` all the same, with
three steps for each entry: the index is compared with the size (`search_test`), the entry is
taken (`search_get`), its structure is read (`search_read`). Nothing comes of these
searches, as the child is found and the code tests `t == NULL`; but in between
others run, tables shrink and threads are destroyed. `join_found` makes the child runnable,
`join_return` reads its exit status and forgets it, `detach_found` detaches it.
`thread_exit` calls `thread_detach` with interrupts off, for each child by index, over
an array that shrinks: one step, and `LoopReads` is what it reads.

A freed structure is not handed out again, so that a dangling pointer stays
recognisable. Wherever the code reads one, the kernel stops (`Fault`) or finds what was there.
`joined` and `hasty` are history variables: who was made runnable by a `thread_join`,
and who exited as detached before `thread_fork` had assigned `is_detached`. `vn_refs` is the
reference count of the one directory that threads have.

**Menu** puts the boot thread's code on top of ThreadLife: `at` is where in `menu.c` or
`partC.c` the thread is, and each of its steps is taken on the CPU, so that the timer
can come between any two. A line is a sequence of commands, a command its name and its
number of words; `cmdtable` says how many words each takes and where its function
begins. File system calls return success or failure. A program is a thread that
sleeps, comes back and ends, in any order and perhaps never. `pid` in `common_prog`
points to a dead local variable, so `thread_join`, with all its steps, is called with any
word. `shutdown` empties the tables; from then on `Masked` keeps interrupts away, because
`splhigh` is never undone.

**Interval** is the clock around a command: `begin` reads it, `end` reads it again and shows
what `getinterval` makes of the two, in unsigned nanoseconds and a `time_t` of finite width.
The clock goes on by itself and may be set, ahead or back. It is a module of its own, since
the menu's other state does not depend on it.

**ProcessPrograms** is the process exercises, one script of calls per process;
**Processes** says what the calls do. `tty` distinguishes a terminal, where a newline
flushes stdout, from a file. Every `fork` may fail, and `scanf` may never return.

**MatrixThreads** is the three programs of `project_3` in one: `main` creates and joins,
each thread goes through the rounds of its loops (`Job` says which product round s
adds to which cell), and a round is lock, load, store, unlock. `program` is the build:
which subroutine is called for the vector and for the matrix product. The copies of
the columns each thread makes are read in place, since nobody writes the matrices any
more.

**AtomicSemaphore**, **Mutex** and **Monitor** are the promises of `synch.h`, with
neither scheduler nor tables. `Mutex` and `Monitor` stop when a call breaks the rules and
never otherwise. `cv_signal` is outside the refinement, because it does not keep its promise. `Semaphore` maps `waiting` to `t_sleepaddr`. For a
cv it is `WaitingFor`: whoever was woken from the cv waits for the lock.

Definitions whose comment starts with "Mutated" are plausible bugs in the
definition that follows. They are used by nothing: they record that a property
notices the bug when the definition is replaced by them.

## Runs

| run | instance | shows |
|---|---|---|
| semaphore | 4 threads, 2 semaphores, counts -3 to 2 | one place per thread; no lost wakeup; counts not negative; the atomic semaphore is implemented, liveness included |
| lock | 4 threads, 2 locks | one place per thread; mutual exclusion; `lock_do_i_hold` tells the truth; nobody sleeps on a free lock; the mutex is implemented, liveness included |
| condvar | 4 threads, 2 cvs on one lock, one of them signalled, index 0 or 1 | locks stay correct through `cv_wait`, `cv_signal` and `cv_broadcast`; no broadcast is missed; a call that keeps to the rules stops the kernel in `cv_signal` only |
| condvar_broadcast | the same, `SignalCVs = {}` | one place per thread; the monitor is implemented, liveness of the lock included |
| life | boot thread and 2 more, one sleep address, `is_detached` of a new structure 0 or 1 | every turn on the CPU is accounted for; no dead thread is run; `numthreads` and the references of the directory are right; no child in use was destroyed; the kernel stops in the searches only; zombies are destroyed |
| matrix_threads | 2 threads, 2 by 4 and 4 by 4 matrices, 8 builds | no update is lost; the products are right at the end, which comes |
| processes | 6 programs of up to 3 processes, terminal or file | all end, if somebody types; one case of SIGPIPE; messages arrive whole; output in order, nothing twice; the right values |
| menu | boot thread and 2 programs, `is_detached` 0 or 1, 3 boot lines, 4 typed lines | the boot line is done before the prompt; the menu comes back or the machine stops |
| interval | a second of 3 nanoseconds, a 32-bit word of 6 values, a `time_t` of 4, a clock from 0 to 6 | the time shown is the time taken |
| lock_recycled | 2 threads, 1 lock | violated: see below |
| condvar_signal | 3 threads, 2 cvs on one lock, index 0 | violated |
| life_fresh | boot thread and 2 more, any word of a new structure 0 or 1 | violated |

Why the bounds are enough. With four threads there is a running thread, a woken
one, a newcomer and one that still sleeps. Two primitives put entries of others
between the entries a wakeup removes. The largest count of 2 has a smallest and
a largest positive value. In ThreadLife structures are not reused, so the number
of structures bounds the number of forks; three make a parent with two children
or a grandchild, and entries of destroyed threads in `joinable` that a living one
searches. The loop of `thread_exit` skips a child when a thread other than the boot thread
has two of them, which needs four threads: the run does not reach that, the theorem
`ChildrenCorrect` covers it. The pids double with each generation, `Words` holds all of them.
Two columns per thread tell quotient, remainder and block offset of the
matrix loops apart, and the two sample inputs have different entries. In Menu,
`MAXMENUARGS` is 3 for the code's 16: the widest command takes three words, and the
boot line `help` with four is one too many. The lines reach every place
where a command's function begins, unknown commands, wrong usage, the empty command and two commands
in a row, and each of the two structures can be forked once. In Interval a second fits
into the word exactly twice, as little as the code needs, and the clock goes round its
`time_t`; `ShownCorrect` proves the rest.
`fork-01.c` writes three lines for its 10. The values entered for `fork_test.c` are the
ends of the range it asks for, the values next to them, and one inside.
TLC's symmetry is used only in runs without liveness.

`CHECK_DEADLOCK FALSE` everywhere but in interval: after a panic the kernel stands still, and
nobody is obliged to call V or release a lock, programs and processes end, and the
machine is switched off.

### Fairness

Weak fairness on three things: the scheduler picks a thread when one is runnable;
a thread that has come back inside a wait loop goes on (it runs with interrupts
off); the timer makes a running thread yield. The code justifies them: none of
these paths blocks, and OS/161's `hardclock` calls `thread_yield`. Nothing is
assumed of callers. So what is promised is: while a semaphore stays positive, or a
lock stays free, somebody who waits gets it. A particular waiter may starve,
because newcomers may take the semaphore first: the code has no queue per
primitive, and `synch.h` promises no order. In MatrixThreads every thread that can run
runs again; that the mutex is fair is not assumed. In Processes, Unix runs every
process that can run, but nobody has to type: `Terminates` promises that all processes end
unless the child of `fork_test.c` is left in `scanf` for ever. A process that is killed has
ended as well; who may be killed, and when, is `KilledByFailure`.

ThreadLife assumes the same three things and nothing of the threads: they need not
fork, join or exit. `Reclaimed` is conditional: a zombie waits for a thread that
*comes back* from a switch, since one that starts in `mi_threadstart` does not
exorcise; it is promised while the boot thread comes back again and again.

In Menu it is also assumed that the boot thread makes progress though the timer strikes
again and again (strong fairness: the timer does not strike at each of its steps), and that
interrupts come (strong fairness: the clock ticks, devices answer). Programs need not
end, and nobody need type a line.

### Where the code differs from its comments

* **lock_recycled.** `lock_create` assigns `name` only. `synch.h` 44: "When the
  lock is created, no thread should be holding it." In recycled memory the owner
  may be a stale pointer, and the first `lock_acquire` sleeps forever.
* **condvar_signal.** `thread_wakeone` looks at one entry of `sleepers`, at an
  index it never assigns. `synch.h` 75 promises that `cv_signal` wakes up one
  thread that sleeps on the cv. Even with index 0 it wakes nobody if the first
  sleeper sleeps on something else. With any other index it also removes the wrong
  entry, so that a sleeper is in no table any more and another is in two
  (`Placement` fails with `SignalIndex = {0, 1}`). And it does not look at the size of the
  table: with nobody asleep the assertion of `array_getguy` stops the kernel, in a call
  that keeps to all the rules. That is the exception in `StopsInSignal`.
* **life_fresh.** A thread is to keep its descriptor until somebody joins or detaches it
  (thread.c 563). `thread_create` assigns nothing to `is_detached`. If its
  memory says that it is detached, a new thread can exit and be destroyed
  while its parent is still in `thread_fork`, which then writes to it and may enter it into
  `children`. There is a second way to the same end: once `thread_join` has made the child
  runnable (797) and turned interrupts on, the child may run into its last
  switch and be destroyed before its exit status is read (808). `ChildrenAlive` and
  `TurnsAccounted` except these two cases, and no other.

Four more that no run reports, since the passing properties name them as exceptions or say
nothing of them:

* The searches of `thread_join`, `thread_detach` and `thread_exit` can stop the kernel. A
  table may shrink between the test of its size and the access (thread.c 767 to 785), and
  `joinable` keeps the entries of threads that were destroyed (768, 814). `StopsInSearches`
  says that these, and the status read at 808, are the only places.
* `thread_join` does not wait. The comment (794) has it "suspend execution of curthread";
  it makes the *other* thread runnable, which may be running, queued or asleep already, and
  returns.
* A thread whose pid is not wanted is to be detached immediately (359); the code sets
  `is_detached` to 0 (391). It exits into `joinable` and stays. So does a
  thread that is detached after it has exited (876): nobody looks at the flag any more.
* If the second fork of `partB.c` fails, the child goes home with its pipe ends unused,
  and SIGPIPE may kill the parent at line 78, without its "End" (`KilledByFailure`).

`TurnsAccounted` says why the spurious turn that `thread_join` gives does no harm by itself:
`thread_exit` of a thread that is not detached has two switches, and the second turn
runs it into the second. The loop of the sleeping primitives absorbs it too, except for
`cv_wait`, which sleeps once. A thread that is joined while it sleeps keeps its entry in
`sleepers` (607) though it runs; it has no sleep address by then, so no wakeup
finds the entry, and the thread is never reclaimed. `Reclaimed` therefore speaks of the
spare turns in the run queue only.

Off a terminal, `fork` copies what stdout has not flushed: the first line of `partA.c`,
"Begin", then comes out once per process. `PrintedOnce` is stated for a terminal.

## Proofs

All from the assumptions named in the modules: `ThreadAssumption` (finitely many
threads, NULL is none of them and no address), `SemAssumption`, `LockAssumption`,
`CvAssumption` (primitives are addresses, a cv is no lock and has one),
`LifeAssumption` (the boot thread is one, and new structures have no children),
`IntervalAssumption` (a second of nanoseconds fits into the word twice), `MenuAssumption` (lines are sequences of
commands), `MatrixAssumption` (the number of threads divides the columns, as it does in
the three programs; entries are digits), `CountAssumption` (fork-01.c writes a natural
number of lines), `EnteredAssumption` (scanf leaves integers).

| theorem | module | states |
|---|---|---|
| TypeCorrect | SemaphoreProofs | `Spec => []SemTypeOK` |
| CountCorrect | SemaphoreProofs | `Spec => []CountOK` |
| WakeupCorrect | SemaphoreProofs | `Spec => []NoLostWakeup` |
| PlacementCorrect | SemaphoreProofs | `Spec => []Placement` |
| AtomicityCorrect | SemaphoreProofs | `Spec => ImplementsAtomicSafety` |
| TypeCorrect | LockProofs | `Spec => []LockTypeOK` |
| ExclusionCorrect | LockProofs | `Spec => []MutualExclusion` |
| PlacementCorrect | LockProofs | `Spec => []Placement` |
| HoldCorrect, SleeperCorrect, MutexCorrect | LockProofs | `HoldIsTruth`, `NoSleeperOnFree`, `ImplementsMutexSafety`, if `FreshOwner = {NULL}` |
| CvTypeCorrect, BroadcastCorrect | CondVarProofs | `CvSpec => []CvTypeOK`, `CvSpec => []NoMissedBroadcast` |
| CvHoldCorrect, CvSleeperCorrect | CondVarProofs | `HoldIsTruth`, `NoSleeperOnFree` for `CvSpec`, if `FreshOwner = {NULL}` |
| StopsCorrect | CondVarProofs | `CvSpec => []StopsInSignal`, if `FreshOwner = {NULL}` |
| CvPlacementCorrect | CondVarProofs | `Placement` for `CvSpec`, if `SignalCVs = {}` |
| MonitorCorrect | CondVarProofs | `CvSpec => ImplementsMonitorSafety`, under both conditions |
| NumthreadsCorrect, CwdCorrect | ThreadLifeProofs | `Spec => []NumthreadsOK`, `Spec => []CwdCounted` |
| LifeTypeCorrect | ThreadLifeProofs | `Spec => []LifeTypeOK` |
| TurnsCorrect, ChildrenCorrect | ThreadLifeProofs | `Spec => []TurnsAccounted`, `Spec => []ChildrenAlive` |
| StopsCorrect | ThreadLifeProofs | `Spec => []StopsInSearches` |
| ShownCorrect | MenuProofs | `IntervalSpec => []IntervalShown` |
| BootLineCorrect | MenuProofs | `MenuSpec => []BootLineDone` |
| MenuTypeCorrect | MenuProofs | `MenuSpec => []MenuTypeOK` |
| MatrixTypeCorrect | MatrixThreadsProofs | `Spec => []MatrixTypeOK` |
| UpdatesCorrect | MatrixThreadsProofs | `Spec => []NoLostUpdate` |
| ProductCorrect | MatrixThreadsProofs | `Spec => []ProductAtEnd` |
| ProcTypeCorrect, ValuesCorrect | ProcessesProofs | `Spec => []ProcTypeOK`, `Spec => []ValuesShown` |
| PrintedCorrect | ProcessesProofs | `Spec => []PrintedOnce` |
| MessagesCorrect | ProcessesProofs | `Spec => []MessagesDelivered` |
| OrderCorrect | ProcessesProofs | `Spec => []OutputInOrder` |

The argument. `ThreadSwitchProofs` begins with what `Entries` (the subsequence at a set
of positions) returns: that it exists, its range, and that it is injective where the
table is. Since the provers cannot instantiate the induction theorems, induction goes
through a least counterexample (`LeastNumber`). Then it shows once, for each building block, that it keeps `Placed`, the types, and the set of threads that sleep
on an address. The modules after it then go through the actions.

`Placement` and `NoLostWakeup` are inductive together with the types;
`NoLostWakeup` is proved in the form that no entry of the table has the address of a
positive semaphore (`Awake`). Mutual exclusion is not inductive: it needs that
whoever holds a lock is its owner (`HolderOwns`). It holds even for garbage in the owner
field, since garbage keeps everybody out. A truthful `lock_do_i_hold` needs the converse
(`OwnerHolds`), and that is where the garbage matters: it is proved under
`FreshOwner = {NULL}`, the same condition without which the run
lock_recycled fails. `NoSleeperOnFree` needs that nobody sleeps on a lock without owner
(`UnownedAwake`).

`CondVarProofs` takes Lock's steps from `LockProofs` and adds those of the cvs. That no
broadcast is missed needs no other invariant than types: `cv_wait` tests the condition
and enters the table in one step (`BroadcastAwake`). The refinement to `Monitor` needs
all of it: the caller of `cv_signal` holds the lock because it is the owner
(`OwnerHolds`), the threads woken were in the table once and the one that comes back is no
longer in it (`Placement`). The two conditions are those without which the runs
lock_recycled and condvar_signal, or `Placement`, fail. That a call which keeps to the rules
stops the kernel in `cv_signal` only needs the two facts about owners: then the assertions
on `lock_do_i_hold` fail on misuse alone. It holds for every index.

`ThreadLifeProofs` counts: each thread between `thread_fork` and `fork_enqueue` has a
structure of its own that nobody else touches (`StagesInv`), and `exorcise` frees
zombies only, so every step changes `numthreads` and the set it counts by the same one
thread, and `vn_refs` and `t_cwd` as well. Nothing is assumed of fresh memory.

`TurnsAccounted` says how many turns a thread has still to come at each stage: a join gives
one too many, and the second switch of `thread_exit` uses it up, but only if the thread
was not detached. So it is not inductive on its own; it needs to know whose child a thread is
and what has become of it (`FamilyInv`): a child of a living thread is nobody else's child,
is not marked as detached, and is not past the last switch of `thread_exit` unless that
thread is joining it just now. The steps of a search change none of this, but they
must keep the child they have found (`SearchInv`). A hasty thread is dead at once
(`HastyInv`), so it can be excepted from the count without touching that of others.
`ChildrenAlive` follows from the same invariant. The loop of
`thread_exit` walks an array that shrinks under it, so it detaches some of the children
and skips others. The proof needs only what every round keeps (no new child, nobody's
field but a child's); `DetachLoop` is a recursive function whose equation is proved
first, and the rounds then go by a least counterexample. Nothing is assumed of fresh
memory here either.

`StopsInSearches` is what the invariant leaves when the kernel stops. It says that no dead
thread is in the run queue, so `switch_to` does not fault; that what `thread_fork` goes on to
write and what a search has found is not freed (`FreedIsNowhere`, `FreedChild`);
and that the loop of `thread_exit` meets a freed structure in `joinable` alone
(`LoopReadsFacts`).

`MenuProofs`: for the boot line, what has been passed and what is still to do make up the line at any time, and
a command that has begun has no words too many (`BootInv`). Each step of the menu is a
step of ThreadLife, except for the boot thread's directory, the destroyed tables and
the panic, which `MenuTypeCorrect` treats on their own. For the time shown, a number is
determined by its quotient and remainder (`DivUnique`), and cutting numbers to the width of
`time_t` before or after a subtraction makes no difference (`ModSub`); `IntervalInv` adds
that a running command began with the reading of its own start.

`MatrixThreadsProofs`: whoever is between lock and unlock holds the mutex, so what it has
loaded is still there when it stores (`MutexInv`). A thread's progress (`ProgressInv`) bounds the round it is in.
A round is a number whose digits are row, inner index and column, in the order of the
subroutine's loops; quotient and remainder give the digits, and each combination of
digits is exactly one round (`VectorDigits`, `MatrixDigits`). So every round stays within the
matrices, and the rounds of a cell match the inner indices one to one. The sums
in the properties are folds. `Total` is the same sum with the recursive function in
view: it is shown to exist, to be independent of the order of its additions, and to split
over disjoint parts. `SumInv` says that each cell is the total of the threads' shares. A store
adds one term to one share, and since the loaded value is fresh (`MutexInv`) to
the cell as well. At the end all rounds are done: for the vector the shares are the sums over
the threads' columns, which make up the row (`VectorShare`, `TotalParts`); for the matrix
one thread's share is the whole sum and the others have none (`MatrixShare`).

`ProcessesProofs` looks at the programs once. `Script` describes what a process has still
to do: which calls it may make, in which order (`MayPrecede`), and which must still follow
(`Followed`). The scripts of all six programs have this shape, for any `MAX_COUNT`
(`AllScripts`), and so has a script without its first call. With `Family` (who has been
forked, and that nobody forks after a failed fork) every step is then one of a few kinds
(`Moves`), and the five theorems never look into a program again. Each of them speaks of
the future of a process as well as of its past, which is what makes it inductive:

* `ValuesShown`: before the parent of `fork_test.c` shows the exit status it has `wait`
  ahead or has reaped its child (`CodeLater`), and what `wait` returned is the child's
  variable in one byte (`CodeKept`, `CodeShown`). The child of `fork_text.c` has its own
  copy, incremented once its call is past (`GlobalKept`, `GlobalShown`).
* `PrintedOnce`: on a terminal, the buffer of a process that has a fork ahead is empty
  (`OwnBuffers`), and no process has a line ahead that it has printed (`NeverAgain`).
* `MessagesDelivered`: a process of `partB.c` that has an end still to close has it open
  (`EndsOpen`). So each pipe and its two processes are in one of four states (`Delivery`):
  not written, written, message read, newline read. A write finds a reader: the fork comes
  before the write, so the reader exists (`ForkLater`), and it closes its end only after it has
  read (`ReaderThere`). A pipe that has not been written to has a writer for the same
  reason; where the writer is the grandchild, it exists because the parent reads only after
  `wait`, when the child has ended and thus has forked (`Waits`, `WriterThere`).
* `OutputInOrder`: who prints earlier is over when a line of someone later is printed, in
  a buffer or at the output (`EarlierOver`). It is over when it has ended or will never be
  born, since its fork has failed (`Over`). A buffer is copied by `fork` only while it
  holds nothing but what is outside the order (`OwnTurn`).

Only model-checked: liveness under fairness (out of the prover's reach, as is
ENABLED), hence the liveness halves of the refinements, `Reclaimed`, `MenuReturns` and
the two `Terminates`; and `KilledByFailure`. Every other safety property of a passing run has
a theorem; for the three refinements it is that every step maps to a step or a stutter.

## Not modelled

* Frees. The failure path of `thread_fork` frees `is_detached`, `has_exited` and
  `t_exit` twice, and `thread_destroy` frees `t_pid` twice: straight-line code that a
  reader sees, on a heap that is not in the repository.
* The room the tables preallocate: a table takes every entry. That it does not is what
  makes `fork_fail` possible at any time.
* `sem_destroy`, `lock_destroy`, `cv_destroy`: nobody in the repository calls them on a
  primitive in use, and the code promises nothing of the order with a thread that was
  woken and has not run.
* The values of exit statuses of threads (`t_exit`): `thread_join` does not wait, so no
  status is promised. That the structure is still there when it is read is modelled.
* The `args` array that `common_prog` shares with the new thread (menu.c 100 and 119): the
  comment names the race, and the code accepts it. With it go the assertions of
  `cmd_progthread` on its arguments (63, 77).
* The removal from `joinable` in `thread_join` (814): `k` stays -1 wherever a child was
  found, so it is never executed.
* The magic bytes on the stack, the address space, names, what is printed: no property is
  about them. Pids are kept, wording is not. The tests in `cmdtable` belong to the kernel
  that is not in the repository; they return 0.
* `sys_reboot` for halt and reboot: it differs from power off by the external call at its
  end. `boot` is modelled by the state it leaves.
* `pthread_create` succeeds. The matrix programs ignore its result (`partA.c` 60 to 62,
  `partB_take2.c` 66, `partC.c` 80); after a failure `main` would join the previous thread a
  second time, which is undefined.
* `pipe` succeeds: `partB.c` 35 to 37 ignore its result.
* The argument that `wait()` in `partB.c` is called without: it is taken for valid.
* `errno.h` (constants), `README.md` (notes), `fork.c` (prints a line).

## Plan

What is left, in this order:

1. The reserved room of the tables, and what happens when one must grow.
2. Destroying primitives, once a caller of `sem_destroy` and the like exists.
3. The values of exit statuses, with the exit code that `_exit.c` stores.
