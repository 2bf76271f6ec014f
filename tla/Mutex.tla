------------------------------- MODULE Mutex -------------------------------
(***************************************************************************)
(* Mutexes, kernel/mutex.c.  A step is a critical section of wait.lock, or *)
(* the part of one up to the point where another CPU can interfere: the    *)
(* signal bits and the task states are not protected by wait.lock, so the  *)
(* check for a signal and the registration of the sleep are separate steps *)
(* of one critical section.                                                *)
(***************************************************************************)
EXTENDS WaitQueue, FiniteSets

CONSTANTS Tasks, None

ASSUME MutexAssumption == None \notin Tasks

VARIABLES
  owner,    \* mutex.owner
  waiters,  \* mutex.wait.waiters
  lock,     \* the task inside a critical section of mutex.wait.lock, or None
  state,    \* task.state
  sig,      \* the signal bits of the task that matter to its sleeps
  owed,     \* tasks whose sender has yet to call sched_wake_signal
  mode,     \* the sleep state the caller of mutex_lock_state asked for
  pc        \* where the task is

vars == <<owner, waiters, lock, state, sig, owed, mode, pc>>
sigVars == <<sig, owed>>

Modes == {"INTERRUPTIBLE", "UNINTERRUPTIBLE"}

Init ==
  /\ owner = None /\ waiters = <<>> /\ lock = None
  /\ state = [t \in Tasks |-> "RUNNABLE"]
  /\ sig = [t \in Tasks |-> {}] /\ owed = {}
  /\ mode = [t \in Tasks |-> "UNINTERRUPTIBLE"]
  /\ pc = [t \in Tasks |-> "idle"]

-----------------------------------------------------------------------------
\* mutex_lock or mutex_lock_interruptible is called.
MutexLock(t, m) ==
  /\ pc[t] = "idle"
  /\ pc' = [pc EXCEPT ![t] = "lock"]
  /\ mode' = [mode EXCEPT ![t] = m]
  /\ UNCHANGED <<owner, waiters, lock, state, sigVars>>

\* A task that was parked goes on at the top of the loop when it is RUNNABLE.
AtTop(t) == pc[t] = "lock" \/ (pc[t] = "parked" /\ state[t] = "RUNNABLE")

\* Faulty variant: a woken waiter takes for granted that the mutex is its own.
MayTakeWoken(t) == owner = None \/ pc[t] = "parked"

MayTake(t) == owner = None

\* Faulty variant: a signal ends every wait, that of mutex_lock too.
InterruptedAny(t) == owner # None /\ sig[t] # {}

Interrupted(t) == owner # None /\ PendingState(mode[t], sig[t])

\* The loop of mutex_lock_state, to the check for a signal.
LockTop(t) ==
  /\ AtTop(t) /\ lock = None
  /\ waiters' = FinishWait(waiters, t)
  /\ state' = SchedWake(state, t)
  /\ \/ /\ MayTake(t)
        /\ owner' = t
        /\ pc' = [pc EXCEPT ![t] = "owner"]
        /\ UNCHANGED lock
     \/ /\ Interrupted(t)
        /\ pc' = [pc EXCEPT ![t] = "idle"]
        /\ UNCHANGED <<owner, lock>>
     \/ /\ ~MayTake(t) /\ ~Interrupted(t)
        /\ lock' = t
        /\ pc' = [pc EXCEPT ![t] = "prepare"]
        /\ UNCHANGED owner
  /\ UNCHANGED <<sigVars, mode>>

\* prepare_to_wait_locked and the unlock.
LockPrepare(t) ==
  /\ pc[t] = "prepare"
  /\ waiters' = PrepareToWait(waiters, t)
  /\ state' = [state EXCEPT ![t] = mode[t]]
  /\ lock' = None
  /\ pc' = [pc EXCEPT ![t] = "park"]
  /\ UNCHANGED <<owner, sigVars, mode>>

\* Faulty variant: sched_park goes by the state alone.
SleepCancelledBlind(t) == state[t] = "RUNNABLE"

SleepCancelled(t) == state[t] = "RUNNABLE" \/ PendingState(state[t], sig[t])

\* sched_park: a wakeup or a signal that came first cancels the sleep.
SchedPark(t) ==
  /\ pc[t] = "park"
  /\ state' = IF SleepCancelled(t) THEN [state EXCEPT ![t] = "RUNNABLE"] ELSE state
  /\ pc' = [pc EXCEPT ![t] = IF SleepCancelled(t) THEN "lock" ELSE "parked"]
  /\ UNCHANGED <<owner, waiters, lock, sigVars, mode>>

\* mutex_trylock when it succeeds; otherwise it changes nothing.
MutexTrylock(t) ==
  /\ pc[t] = "idle" /\ lock = None /\ owner = None
  /\ owner' = t
  /\ pc' = [pc EXCEPT ![t] = "owner"]
  /\ UNCHANGED <<waiters, lock, state, sigVars, mode>>

\* Faulty variant: a waiter that has not left its CPU yet is not woken.
UnlockWakesParked ==
  WakeUpOne(state, SelectSeq(waiters, LAMBDA t : pc[t] = "parked"))

UnlockWakes == WakeUpOne(state, waiters)

MutexUnlock(t) ==
  /\ pc[t] = "owner" /\ lock = None
  /\ owner' = None
  /\ state' = UnlockWakes
  /\ pc' = [pc EXCEPT ![t] = "idle"]
  /\ UNCHANGED <<waiters, lock, sigVars, mode>>

-----------------------------------------------------------------------------
\* send_signal sets the bit, and calls sched_wake_signal after it has released
\* signal_lock.
SendSignal(t) ==
  /\ "SIGPENDING" \notin sig[t]
  /\ sig' = [sig EXCEPT ![t] = {"SIGPENDING"}]
  /\ owed' = owed \cup {t}
  /\ UNCHANGED <<owner, waiters, lock, state, mode, pc>>

SchedWakeSignal(t) ==
  /\ t \in owed
  /\ owed' = owed \ {t}
  /\ state' = [state EXCEPT ![t] = IF @ = "INTERRUPTIBLE" THEN "RUNNABLE" ELSE @]
  /\ UNCHANGED <<owner, waiters, lock, sig, mode, pc>>

\* The task delivers its signals on the way out of the kernel.
GetSignal(t) ==
  /\ pc[t] = "idle"
  /\ sig[t] # {}
  /\ sig' = [sig EXCEPT ![t] = {}]
  /\ UNCHANGED <<owner, waiters, lock, state, owed, mode, pc>>

-----------------------------------------------------------------------------
Next ==
  \E t \in Tasks :
    \/ \E m \in Modes : MutexLock(t, m)
    \/ LockTop(t) \/ LockPrepare(t) \/ SchedPark(t)
    \/ MutexTrylock(t) \/ MutexUnlock(t)
    \/ SendSignal(t) \/ SchedWakeSignal(t) \/ GetSignal(t)

Spec == Init /\ [][Next]_vars

\* A task inside mutex_lock_state goes on whenever it can (Dispatch and Commit
\* of SleepWake).  Nothing makes an owner release, a caller call or a signal come.
Fairness == \A t \in Tasks : WF_vars(LockTop(t) \/ LockPrepare(t) \/ SchedPark(t))
FairSpec == Spec /\ Fairness

-----------------------------------------------------------------------------
\* Every variable has its type.
TypeOK ==
  /\ owner \in Tasks \cup {None} /\ lock \in Tasks \cup {None}
  /\ waiters \in Seq(Tasks)
  /\ state \in [Tasks -> Modes \cup {"RUNNABLE"}]
  /\ sig \in [Tasks -> SUBSET {"SIGPENDING"}] /\ owed \subseteq Tasks
  /\ mode \in [Tasks -> Modes]
  /\ pc \in [Tasks -> {"idle", "lock", "prepare", "park", "parked", "owner"}]

\* A wait_entry lives on the stack of mutex_lock_state: it is on the list only
\* while its task is inside, once, and every registered sleeper is on the list.
EntryInv ==
  /\ TypeOK
  /\ \A i, j \in 1 .. Len(waiters) : waiters[i] = waiters[j] => i = j
  /\ \A t \in Elems(waiters) : pc[t] \in {"lock", "park", "parked"}
  /\ \A t \in Tasks : pc[t] = "parked" \/ state[t] \in Sleeps => t \in Elems(waiters)

\* mutex_unlock and the wakeups that overtake it lose no waiter: when the mutex
\* is free and a waiter sleeps, another waiter is awake and going to look.
NoLostWakeup ==
  owner = None /\ (\E t \in Tasks : pc[t] = "parked" /\ state[t] \in Sleeps)
    => \E t \in Elems(waiters) : state[t] = "RUNNABLE"

\* An interruptible waiter does not sleep over a signal, unless the sender has
\* still to wake it.
NoSleepOverSignal ==
  \A t \in Tasks : pc[t] = "parked" /\ PendingState(state[t], sig[t]) => t \in owed

\* The waiters of mutex_lock_state: their entries are on the list while they are
\* inside, no unlock leaves all of them asleep, and no signal is slept over.
WaitersInv == EntryInv /\ NoLostWakeup /\ NoSleepOverSignal

\* kernel/mutex.c implements the abstract mutex, liveness included: one owner, who
\* found the mutex free, mutex_lock returns with the mutex and only
\* mutex_lock_interruptible may return without it, for a signal, and a free mutex
\* that is waited for is taken.
Inside == {"lock", "prepare", "park", "parked"}
Promise == INSTANCE MutexSpec WITH
  waiting <- {t \in Tasks : pc[t] \in Inside},
  interruptible <- {t \in Tasks : pc[t] \in Inside /\ mode[t] = "INTERRUPTIBLE"},
  signalled <- {t \in Tasks : "SIGPENDING" \in sig[t]}
MutexContract == Promise!Spec
=============================================================================
