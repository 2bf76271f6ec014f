----------------------------- MODULE SleepWake -----------------------------
(***************************************************************************)
(* What the scheduler promises the rest of the kernel (the contract of     *)
(* include/nuvix/sched.h and wait.h), with CPUs, run queues, locks and     *)
(* interrupts left out.  The modules that put tasks to sleep and wake them *)
(* rely on this specification; the scheduler of Sched implements it.       *)
(*                                                                         *)
(*   - a task that registered a sleep and lost its CPU does nothing until  *)
(*     somebody wakes it, and a wakeup that comes before it loses the CPU  *)
(*     cancels the sleep;                                                  *)
(*   - a woken task gets a CPU again;                                      *)
(*   - at most NrCpus tasks execute;                                       *)
(*   - a task that exits never executes again.                             *)
(***************************************************************************)
EXTENDS Integers

CONSTANTS NrCpus, Tasks

VARIABLES state,    \* task.state
          running   \* the tasks that hold a CPU

vars == <<state, running>>

Sleeps  == {"INTERRUPTIBLE", "UNINTERRUPTIBLE", "KILLABLE"}
Blocked == Sleeps \cup {"STOPPED"}

Init == state = [t \in Tasks |-> "NEW"] /\ running = {}

\* sched_publish.
Publish(t) ==
  /\ state[t] = "NEW"
  /\ state' = [state EXCEPT ![t] = "RUNNABLE"]
  /\ UNCHANGED running

\* A current task announces that it is going to sleep, or to stop.
Register(t, st) ==
  /\ t \in running /\ state[t] = "RUNNABLE"
  /\ state' = [state EXCEPT ![t] = st]
  /\ UNCHANGED running

\* sched_wake and its variants, and a signal seen by sched_park.
Wake(t) ==
  /\ state[t] \in Blocked
  /\ state' = [state EXCEPT ![t] = "RUNNABLE"]
  /\ UNCHANGED running

\* A task that may take a CPU.
Waiting(t) == state[t] = "RUNNABLE" /\ t \notin running

AtMostOne(S) == \A s, t \in S : s = t

\* The tasks in S can hold a CPU each, no two the same one.
HaveCpus(S) == \E cpu \in [S -> 0 .. NrCpus - 1] : \A s, t \in S : cpu[s] = cpu[t] => s = t

\* A CPU goes from the tasks in out to the tasks in enter, one or none each.
Replace(out, enter) ==
  /\ out \subseteq running /\ \A t \in enter : Waiting(t)
  /\ AtMostOne(out) /\ AtMostOne(enter)
  /\ running' = (running \ out) \cup enter
  /\ HaveCpus(running')

\* A switch.  The task that leaves is runnable, asleep, or finds that a signal
\* cancels the sleep it had registered.
Switch(out, enter) ==
  /\ Replace(out, enter)
  /\ \/ UNCHANGED state
     \/ \E t \in out : /\ state[t] \in Blocked
                       /\ state' = [state EXCEPT ![t] = "RUNNABLE"]

\* sched_exit: the last switch of t.
Exit(t, enter) ==
  /\ state[t] = "RUNNABLE"
  /\ Replace({t}, enter)
  /\ state' = [state EXCEPT ![t] = "ZOMBIE"]

Next ==
  \/ \E t \in Tasks : Publish(t) \/ Wake(t)
  \/ \E t \in Tasks, st \in Blocked : Register(t, st)
  \/ \E out, enter \in SUBSET Tasks : Switch(out, enter)
  \/ \E t \in Tasks, enter \in SUBSET Tasks : Exit(t, enter)

\* A task that waits for a CPU gets one: the promise behind every wakeup.
Dispatch(t) == Waiting(t) ~> t \in running

\* A registered sleep is committed or cancelled.
Commit(t) == state[t] \in Blocked /\ t \in running ~> state[t] = "RUNNABLE" \/ t \notin running

\* The promise without its liveness.
Safety == Init /\ [][Next]_vars

Spec == Safety /\ \A t \in Tasks : Dispatch(t) /\ Commit(t)
=============================================================================
