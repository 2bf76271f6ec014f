----------------------------- MODULE WaitQueue -----------------------------
(***************************************************************************)
(* Wait queues, kernel/wait.c, as operators on the task states and on the  *)
(* list of waiters that queue.lock protects.  The modules of the sleeping  *)
(* primitives use them; of the scheduler they assume SleepWake: a task     *)
(* that registered a sleep keeps running until it parks, one that parked   *)
(* does nothing until its state is RUNNABLE, and then it goes on.          *)
(***************************************************************************)
EXTENDS Sequences, Naturals

Sleeps == {"INTERRUPTIBLE", "UNINTERRUPTIBLE", "KILLABLE"}

\* The states after sched_wake(t).
SchedWake(state, t) == [state EXCEPT ![t] = IF @ \in Sleeps THEN "RUNNABLE" ELSE @]

\* Faulty variant: the entry stays on the list.
FinishWaitWoken(waiters, t) == waiters

\* finish_wait_locked: list_del of the entry, if it is on the list; a task whose
\* entry is not on the list has not registered a sleep.
FinishWait(waiters, t) ==
  LET entry == {i \in 1 .. Len(waiters) : waiters[i] = t}
      at == CHOOSE i \in entry : TRUE
  IN IF entry = {} THEN waiters
     ELSE SubSeq(waiters, 1, at - 1) \o SubSeq(waiters, at + 1, Len(waiters))

\* prepare_to_wait_locked: the entry is appended unless it is there.
PrepareToWait(waiters, t) ==
  IF \E i \in 1 .. Len(waiters) : waiters[i] = t THEN waiters ELSE Append(waiters, t)

\* Faulty variant: only the head of the list is tried.
WakeUpHead(state, waiters) ==
  IF waiters = <<>> THEN state ELSE SchedWake(state, Head(waiters))

\* wake_up_one_locked wakes the first waiter for which sched_wake succeeds: one
\* that somebody else has woken already does not use up the wakeup.
WakeUpOne(state, waiters) ==
  LET asleep == {i \in 1 .. Len(waiters) : state[waiters[i]] \in Sleeps} IN
  IF asleep = {} THEN state
  ELSE SchedWake(state, waiters[CHOOSE i \in asleep : \A j \in asleep : i <= j])

\* wake_up_all_locked.
WakeUpAll(state, waiters) ==
  [t \in DOMAIN state |->
     IF state[t] \in Sleeps /\ \E i \in 1 .. Len(waiters) : waiters[i] = t
     THEN "RUNNABLE" ELSE state[t]]

\* The tasks whose entries are on the list.
Elems(waiters) == {waiters[i] : i \in 1 .. Len(waiters)}

\* signal_pending_state for a task with these signal bits.
PendingState(mode, sig) ==
  \/ mode = "INTERRUPTIBLE" /\ "SIGPENDING" \in sig
  \/ mode = "KILLABLE" /\ "SIGKILL" \in sig
=============================================================================
