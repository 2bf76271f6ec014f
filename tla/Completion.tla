----------------------------- MODULE Completion -----------------------------
(***************************************************************************)
(* Completions, kernel/completion.c, with the timed wait and its private   *)
(* timer.  A step is a critical section of wait.lock, or the part of one   *)
(* up to the point where a signal or a timer can interfere.                *)
(*                                                                         *)
(* Of the timers the module assumes TimerSpec: an armed timer fires once   *)
(* its deadline has passed, and timer_cancel_sync waits for the callback.  *)
(***************************************************************************)
EXTENDS WaitQueue, FiniteSets

CONSTANTS Tasks, None,
          Signals,      \* the bits that a signal sets, for each kind of signal
          DoneMax,      \* UINT32_MAX
          MaxCompletes  \* bound: calls of complete since the last reinit

\* There are not as many tasks as values of the counter.
CompletionAssumption ==
  /\ None \notin Tasks /\ IsFiniteSet(Tasks)
  /\ Signals \subseteq {{"SIGPENDING"}, {"SIGPENDING", "SIGKILL"}}
  /\ DoneMax \in Nat /\ Cardinality(Tasks) <= DoneMax /\ MaxCompletes \in Nat

VARIABLES
  done,     \* completion.done
  waiters,  \* completion.wait.waiters
  lock,     \* the task inside a critical section of wait.lock, or None
  state,    \* task.state
  sig,      \* the signal bits of the task that matter to its sleeps
  owed,     \* tasks and signals whose sender has yet to call sched_wake_signal
  mode,     \* the kind of wait the task is in, or None
  pc,       \* where the task is
  timer,    \* the private timer: "idle", "armed", "firing", or "notified"
  expired,  \* tasks whose deadline has passed
  given,    \* calls of complete since the last reinit
  taken     \* completions consumed since then

waitVars  == <<mode, pc>>
sigVars   == <<sig, owed>>
timerVars == <<timer, expired>>
vars == <<done, waiters, lock, state, sigVars, waitVars, timerVars, given, taken>>

Modes == Sleeps \cup {"UNTIL"}

\* The state the task sleeps in: a timed wait is uninterruptible.
SleepState(m) == IF m = "UNTIL" THEN "UNINTERRUPTIBLE" ELSE m

Init ==
  /\ done = 0 /\ given = 0 /\ taken = 0
  /\ waiters = <<>> /\ lock = None
  /\ state = [t \in Tasks |-> "RUNNABLE"]
  /\ sig = [t \in Tasks |-> {}] /\ owed = {}
  /\ mode = [t \in Tasks |-> None]
  /\ pc = [t \in Tasks |-> "idle"]
  /\ timer = [t \in Tasks |-> "idle"] /\ expired = {}

-----------------------------------------------------------------------------
(* The producers, which may be interrupt handlers.                         *)

\* Faulty variant: complete overflows the counter.
IncDoneWrapped == (done + 1) % (DoneMax + 1)

IncDone == IF done = DoneMax THEN done ELSE done + 1

Complete ==
  /\ lock = None /\ given < MaxCompletes
  /\ done' = IncDone
  /\ state' = WakeUpOne(state, waiters)
  /\ given' = given + 1
  /\ UNCHANGED <<waiters, lock, sigVars, waitVars, timerVars, taken>>

CompleteAll ==
  /\ lock = None
  /\ done' = DoneMax
  /\ state' = WakeUpAll(state, waiters)
  /\ UNCHANGED <<waiters, lock, sigVars, waitVars, timerVars, given, taken>>

\* reinit_completion has the object for itself.
ReinitCompletion ==
  /\ \A t \in Tasks : pc[t] = "idle"
  /\ done' = 0 /\ given' = 0 /\ taken' = 0
  /\ UNCHANGED <<waiters, lock, state, sigVars, waitVars, timerVars>>

-----------------------------------------------------------------------------
(* The waiters.                                                            *)

DecDone == IF done = DoneMax THEN done ELSE done - 1

\* take_completion_locked when it returns true.
TakeCompletion ==
  /\ done # 0
  /\ done' = DecDone
  /\ taken' = IF done = DoneMax THEN taken ELSE taken + 1
  /\ UNCHANGED given

\* A wait is called.
WaitForCompletion(t, m) ==
  /\ pc[t] = "idle"
  /\ pc' = [pc EXCEPT ![t] = "begin"]
  /\ mode' = [mode EXCEPT ![t] = m]
  /\ UNCHANGED <<done, waiters, lock, state, sigVars, timerVars, given, taken>>

AtTop(t) == pc[t] \in {"begin", "wait"} \/ (pc[t] = "parked" /\ state[t] = "RUNNABLE")

\* The wait returns -ERESTARTSYS or -ETIMEDOUT.
GivesUp(t) ==
  /\ done = 0
  /\ PendingState(mode[t], sig[t]) \/ (mode[t] = "UNTIL" /\ t \in expired)

\* Faulty variant: the timer is not cancelled.
LeaveArmed(t) == [pc EXCEPT ![t] = "idle"]

\* A timed wait that has armed its timer has timer_cancel_sync still to do.
Leave(t) == [pc EXCEPT ![t] = IF mode[t] = "UNTIL" /\ pc[t] # "begin" THEN "drain" ELSE "idle"]

\* The arguments are gone when the wait returns.
Frame(t) ==
  IF pc'[t] = "idle"
  THEN mode' = [mode EXCEPT ![t] = None] /\ expired' = expired \ {t}
  ELSE UNCHANGED <<mode, expired>>

\* The loops of wait_for_completion_state and wait_for_completion_until, to the
\* registration of the sleep.  A timed wait arms its timer in its first round.
WaitTop(t) ==
  /\ AtTop(t) /\ lock = None
  /\ waiters' = FinishWait(waiters, t)
  /\ state' = SchedWake(state, t)
  /\ \/ /\ ~GivesUp(t)
        /\ TakeCompletion
        /\ pc' = Leave(t)
        /\ UNCHANGED <<lock, timer>>
     \/ /\ GivesUp(t)
        /\ pc' = Leave(t)
        /\ UNCHANGED <<done, given, taken, lock, timer>>
     \/ /\ done = 0 /\ ~GivesUp(t)
        /\ lock' = t
        /\ timer' = IF mode[t] = "UNTIL" /\ pc[t] = "begin"
                    THEN [timer EXCEPT ![t] = "armed"] ELSE timer
        /\ pc' = [pc EXCEPT ![t] = "prepare"]
        /\ UNCHANGED <<done, given, taken>>
  /\ Frame(t)
  /\ UNCHANGED sigVars

\* prepare_to_wait_locked and the unlock.
WaitPrepare(t) ==
  /\ pc[t] = "prepare"
  /\ waiters' = PrepareToWait(waiters, t)
  /\ state' = [state EXCEPT ![t] = SleepState(mode[t])]
  /\ lock' = None
  /\ pc' = [pc EXCEPT ![t] = "park"]
  /\ UNCHANGED <<done, sigVars, mode, timerVars, given, taken>>

SleepCancelled(t) == state[t] = "RUNNABLE" \/ PendingState(state[t], sig[t])

\* sched_park: a wakeup or a signal that came first cancels the sleep.
SchedPark(t) ==
  /\ pc[t] = "park"
  /\ state' = IF SleepCancelled(t) THEN [state EXCEPT ![t] = "RUNNABLE"] ELSE state
  /\ pc' = [pc EXCEPT ![t] = IF SleepCancelled(t) THEN "wait" ELSE "parked"]
  /\ UNCHANGED <<done, waiters, lock, sigVars, mode, timerVars, given, taken>>

\* try_wait_for_completion when it succeeds, by a task or an interrupt handler.
TryWait ==
  /\ lock = None
  /\ TakeCompletion
  /\ UNCHANGED <<waiters, lock, state, sigVars, waitVars, timerVars>>

-----------------------------------------------------------------------------
(* The private timer of a timed wait.                                      *)

Expire(t) ==
  /\ mode[t] = "UNTIL" /\ t \notin expired
  /\ expired' = expired \cup {t}
  /\ UNCHANGED <<done, waiters, lock, state, sigVars, waitVars, timer, given, taken>>

\* timer_tick takes the timer off its base and calls completion_timed_out.
TimerFire(t) ==
  /\ timer[t] = "armed" /\ t \in expired
  /\ timer' = [timer EXCEPT ![t] = "firing"]
  /\ UNCHANGED <<done, waiters, lock, state, sigVars, waitVars, expired, given, taken>>

\* Faulty variant: the callback does not take wait.lock.
CallbackLockedNever(t) == TRUE

CallbackLocked(t) == lock = None

CompletionTimedOut(t) ==
  /\ timer[t] = "firing" /\ CallbackLocked(t)
  /\ state' = SchedWake(state, t)
  /\ timer' = [timer EXCEPT ![t] = "notified"]
  /\ UNCHANGED <<done, waiters, lock, sigVars, waitVars, expired, given, taken>>

\* The callback returns and timer_tick makes the timer IDLE.
TimerDone(t) ==
  /\ timer[t] = "notified"
  /\ timer' = [timer EXCEPT ![t] = "idle"]
  /\ UNCHANGED <<done, waiters, lock, state, sigVars, waitVars, expired, given, taken>>

\* timer_cancel_sync returns.
Drain(t) ==
  /\ pc[t] = "drain" /\ timer[t] \in {"idle", "armed"}
  /\ timer' = [timer EXCEPT ![t] = "idle"]
  /\ pc' = [pc EXCEPT ![t] = "idle"]
  /\ Frame(t)
  /\ UNCHANGED <<done, waiters, lock, state, sigVars, given, taken>>

-----------------------------------------------------------------------------
(* Signals.                                                                *)

\* send_signal sets the bits, and calls sched_wake_signal after it has released
\* signal_lock.
SendSignal(t, bits) ==
  /\ bits \notin SUBSET sig[t]
  /\ sig' = [sig EXCEPT ![t] = @ \cup bits]
  /\ owed' = owed \cup {<<t, bits>>}
  /\ UNCHANGED <<done, waiters, lock, state, waitVars, timerVars, given, taken>>

SchedWakeSignal(t, bits) ==
  /\ <<t, bits>> \in owed
  /\ owed' = owed \ {<<t, bits>>}
  /\ state' = [state EXCEPT ![t] = IF PendingState(@, bits) THEN "RUNNABLE" ELSE @]
  /\ UNCHANGED <<done, waiters, lock, sig, waitVars, timerVars, given, taken>>

\* The task delivers its signals on the way out of the kernel.
GetSignal(t) ==
  /\ pc[t] = "idle" /\ sig[t] # {}
  /\ sig' = [sig EXCEPT ![t] = {}]
  /\ UNCHANGED <<done, waiters, lock, state, owed, waitVars, timerVars, given, taken>>

-----------------------------------------------------------------------------
WaitStep(t)  == WaitTop(t) \/ WaitPrepare(t) \/ SchedPark(t) \/ Drain(t)
TimerStep(t) == TimerFire(t) \/ CompletionTimedOut(t) \/ TimerDone(t)

Next ==
  \/ Complete \/ CompleteAll \/ ReinitCompletion \/ TryWait
  \/ \E t \in Tasks :
       \/ \E m \in Modes : WaitForCompletion(t, m)
       \/ WaitStep(t) \/ TimerStep(t) \/ Expire(t)
       \/ \E bits \in Signals : SendSignal(t, bits) \/ SchedWakeSignal(t, bits)
       \/ GetSignal(t)

Spec == Init /\ [][Next]_vars

-----------------------------------------------------------------------------
\* Every variable has its type.
TypeOK ==
  /\ done \in 0 .. DoneMax /\ given \in 0 .. MaxCompletes /\ taken \in 0 .. MaxCompletes
  /\ waiters \in Seq(Tasks) /\ lock \in Tasks \cup {None}
  /\ state \in [Tasks -> Sleeps \cup {"RUNNABLE"}]
  /\ sig \in [Tasks -> SUBSET {"SIGPENDING", "SIGKILL"}] /\ owed \subseteq Tasks \X Signals
  /\ mode \in [Tasks -> Modes \cup {None}]
  /\ pc \in [Tasks -> {"idle", "begin", "wait", "prepare", "park", "parked", "drain"}]
  /\ timer \in [Tasks -> {"idle", "armed", "firing", "notified"}] /\ expired \subseteq Tasks

\* complete, take_completion_locked and their saturation neither lose nor invent
\* a completion: unless the completion is permanent, every one that was given is
\* available or was consumed by exactly one caller.
Conservation == done # DoneMax => given = taken + done

\* complete loses no waiter to one that gives up, was woken already, or is
\* overtaken: while a task sleeps, every available completion has a queued
\* waiter of its own that is awake and going to look.
NoLostCompletion ==
  (\E t \in Tasks : state[t] # "RUNNABLE") =>
    done <= Cardinality({t \in Elems(waiters) : state[t] = "RUNNABLE"})

\* The wait_entry and the timer are on the stack of the wait: when it returns,
\* neither list nor tick knows them any more.
StackInv ==
  /\ TypeOK
  /\ \A t \in Tasks : pc[t] = "idle" => t \notin Elems(waiters) /\ timer[t] = "idle"

\* A timed wait does not sleep past its deadline: while it sleeps, its timer is
\* armed or the callback has the wakeup still to do.
NoSleepOverDeadline ==
  \A t \in Tasks : mode[t] = "UNTIL" /\ state[t] # "RUNNABLE" => timer[t] \in {"armed", "firing"}

\* A waiter sleeps only while no completion is left for it and never past its
\* deadline, every completion is taken once or still counted, and a wait that
\* returned has left nothing behind.
CompletionInv == StackInv /\ NoLostCompletion /\ Conservation /\ NoSleepOverDeadline
=============================================================================
