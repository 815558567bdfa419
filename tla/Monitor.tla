------------------------------ MODULE Monitor -------------------------------
(***************************************************************************)
(* What synch.h promises of condition variables with their lock (Mesa      *)
(* semantics): cv_wait gives the lock up and starts waiting in one step,   *)
(* and a woken thread becomes one more waiter for the lock.  Mutex with    *)
(* three more operations.                                                  *)
(***************************************************************************)
EXTENDS Mutex

CONSTANTS CVs,
          LockOf  \* the lock that is used with each condition variable

Wait(t, c) ==
  /\ ~stopped /\ waiting[t] = NULL /\ LockOf[c] \in held[t]
  /\ held' = [held EXCEPT ![t] = @ \ {LockOf[c]}]
  /\ waiting' = [waiting EXCEPT ![t] = c]
  /\ UNCHANGED <<misused, stopped>>

\* A thread that holds the lock may wake.
MayWake(c) == ~stopped /\ \E t \in Threads : waiting[t] = NULL /\ LockOf[c] \in held[t]

Signal(w, c) ==
  /\ MayWake(c) /\ waiting[w] = c
  /\ waiting' = [waiting EXCEPT ![w] = LockOf[c]]
  /\ UNCHANGED <<held, misused, stopped>>

Broadcast(c) ==
  /\ MayWake(c)
  /\ waiting' = [w \in Threads |->
                   IF waiting[w] = c THEN LockOf[c] ELSE waiting[w]]
  /\ UNCHANGED <<held, misused, stopped>>

\* Misuse stops the kernel, and with it what anybody was waiting for.  An
\* operation on a condition variable is misused by a caller without its lock.
Stop ==
  /\ ~stopped /\ \E t \in Threads : waiting[t] = NULL
  /\ misused' = TRUE /\ stopped' = TRUE
  /\ waiting' \in [Threads -> Locks \cup CVs \cup {NULL}]
  /\ UNCHANGED held

MonitorNext ==
  \/ Next
  \/ \E c \in CVs : Broadcast(c) \/ \E t \in Threads : Wait(t, c) \/ Signal(t, c)
  \/ Stop

MonitorSpec == Init /\ [][MonitorNext]_vars /\ Liveness

=============================================================================
