---------------------------- MODULE MutexProofs ----------------------------
(***************************************************************************)
(* The mutex of any number of tasks: no wakeup and no signal is lost, and  *)
(* every step is a step of the abstract mutex.                             *)
(***************************************************************************)
EXTENDS Mutex, WaitLemmas

USE SMTT(30)

Asleep(t) == state[t] \in Sleeps

\* The entries of the waiters.
ListInv ==
  /\ Distinct(waiters)
  /\ \A t \in Elems(waiters) : pc[t] \in {"lock", "park", "parked"}
  /\ \A t \in Tasks : pc[t] \in {"park", "parked"} => t \in Elems(waiters)
  /\ \A t \in Tasks : Asleep(t) => pc[t] \in {"park", "parked"}

\* Who holds wait.lock across the check for a signal, and who owns the mutex.  A
\* task that is about to sleep has seen an owner, who cannot leave meanwhile.
HoldInv ==
  /\ \A t \in Tasks : lock = t <=> pc[t] = "prepare"
  /\ \A t \in Tasks : owner = t <=> pc[t] = "owner"
  /\ \A t \in Tasks : pc[t] = "prepare" => owner # None

\* NoLostWakeup also of the tasks that have registered a sleep and not left
\* their CPU yet: the unlock may come between the two.
SomeoneLooks ==
  owner = None /\ (\E t \in Tasks : Asleep(t)) =>
    \E u \in Elems(waiters) : state[u] = "RUNNABLE"

MutexIInv == TypeOK /\ ListInv /\ HoldInv /\ SomeoneLooks /\ NoSleepOverSignal

\* The sleep states and RUNNABLE differ, and so do the tasks and None.
LEMMA StateFacts ==
  /\ "RUNNABLE" \notin Sleeps /\ Modes \subseteq Sleeps
  /\ \A x \in Modes \cup {"RUNNABLE"} : x \notin Sleeps <=> x = "RUNNABLE"
  /\ "RUNNABLE" \in Modes \cup {"RUNNABLE"}
  /\ \A t \in Tasks : t # None
  BY MutexAssumption DEF Sleeps, Modes

\* The invariant of the runs follows.
LEMMA MutexIInvImplies == MutexIInv => WaitersInv
<1> SUFFICES ASSUME MutexIInv PROVE WaitersInv
  OBVIOUS
<1>1. EntryInv
  BY StateFacts DEF MutexIInv, ListInv, Distinct, EntryInv, Asleep
<1>2. NoLostWakeup
  BY DEF MutexIInv, SomeoneLooks, NoLostWakeup, Asleep
<1> QED BY <1>1, <1>2 DEF MutexIInv, WaitersInv

\* Nobody has called.
LEMMA MutexInit == Init => MutexIInv
<1> SUFFICES ASSUME Init PROVE MutexIInv
  OBVIOUS
<1>1. Elems(waiters) = {} /\ Distinct(waiters) /\ waiters \in Seq(Tasks)
  BY DEF Init, Elems, Distinct
<1> QED
  BY <1>1, StateFacts DEF Init, MutexIInv, TypeOK, ListInv, HoldInv, SomeoneLooks,
     NoSleepOverSignal, Asleep, Modes, PendingState

\* The loop of mutex_lock_state: the task takes its entry off and is awake; it
\* owns the mutex, gives up because of a signal, or keeps wait.lock.
LEMMA LockTopKeeps ==
  ASSUME MutexIInv, NEW t \in Tasks, LockTop(t)
  PROVE  MutexIInv'
<1>1. /\ waiters' \in Seq(Tasks) /\ Distinct(waiters')
      /\ Elems(waiters') = Elems(waiters) \ {t} /\ Elems(waiters) \subseteq Tasks
  BY FinishFacts, ElemsFacts DEF MutexIInv, TypeOK, ListInv, LockTop
<1>2. /\ state' = state /\ state[t] = "RUNNABLE"
      /\ UNCHANGED <<sig, owed, mode>> /\ lock = None
      /\ pc[t] \in {"lock", "parked"}
  <2>1. ~Asleep(t)
    BY StateFacts DEF MutexIInv, ListInv, LockTop, AtTop, Asleep
  <2>2. state' = state
    BY <2>1 DEF MutexIInv, TypeOK, LockTop, SchedWake, Asleep
  <2> QED BY <2>1, <2>2, StateFacts DEF MutexIInv, TypeOK, LockTop, AtTop, Asleep, sigVars
<1> DEFINE l == pc'[t]
<1>3. /\ pc' = [pc EXCEPT ![t] = l] /\ l \in {"owner", "idle", "prepare"}
      /\ l = "owner" => owner = None /\ owner' = t /\ lock' = None
      /\ l = "idle" => owner # None /\ owner' = owner /\ lock' = None
      /\ l = "prepare" => owner # None /\ owner' = owner /\ lock' = t
  BY <1>2 DEF MutexIInv, TypeOK, LockTop, MayTake, Interrupted
<1> HIDE DEF l
<1>4. TypeOK' BY <1>1, <1>2, <1>3 DEF MutexIInv, TypeOK
<1>5. ListInv' BY <1>1, <1>2, <1>3, StateFacts DEF MutexIInv, TypeOK, ListInv, Asleep
<1>6. HoldInv' BY <1>2, <1>3, StateFacts DEF MutexIInv, TypeOK, HoldInv
<1>7. SomeoneLooks' BY <1>3, StateFacts DEF SomeoneLooks
<1>8. NoSleepOverSignal'
  BY <1>2, <1>3 DEF MutexIInv, TypeOK, NoSleepOverSignal
<1> QED BY <1>4, <1>5, <1>6, <1>7, <1>8 DEF MutexIInv

\* prepare_to_wait_locked: the mutex still has the owner that was seen.
LEMMA LockPrepareKeeps ==
  ASSUME MutexIInv, NEW t \in Tasks, LockPrepare(t)
  PROVE  MutexIInv'
<1>1. /\ waiters' \in Seq(Tasks) /\ Distinct(waiters')
      /\ Elems(waiters') = Elems(waiters) \cup {t} /\ Elems(waiters) \subseteq Tasks
  BY PrepareFacts, ElemsFacts, Zenon DEF MutexIInv, TypeOK, ListInv, LockPrepare
<1>2. /\ state' = [state EXCEPT ![t] = mode[t]] /\ mode[t] \in Modes
      /\ pc[t] = "prepare" /\ pc' = [pc EXCEPT ![t] = "park"]
      /\ owner # None /\ lock = t /\ lock' = None
      /\ UNCHANGED <<owner, sig, owed, mode>>
  BY DEF MutexIInv, TypeOK, HoldInv, LockPrepare, sigVars
<1>3. TypeOK' BY <1>1, <1>2 DEF MutexIInv, TypeOK
<1>4. ListInv' BY <1>1, <1>2, StateFacts DEF MutexIInv, TypeOK, ListInv, Asleep
<1>5. HoldInv' BY <1>2, StateFacts DEF MutexIInv, TypeOK, HoldInv
<1>6. SomeoneLooks' BY <1>2 DEF SomeoneLooks
<1>7. NoSleepOverSignal' BY <1>2 DEF MutexIInv, TypeOK, NoSleepOverSignal
<1> QED BY <1>3, <1>4, <1>5, <1>6, <1>7 DEF MutexIInv

\* sched_park: the task that does not sleep keeps its entry, and looks again.
LEMMA SchedParkKeeps ==
  ASSUME MutexIInv, NEW t \in Tasks, SchedPark(t)
  PROVE  MutexIInv'
<1>1. /\ pc[t] = "park" /\ t \in Elems(waiters) /\ Elems(waiters) \subseteq Tasks
      /\ UNCHANGED <<owner, waiters, lock, sig, owed, mode>> /\ Elems(waiters') = Elems(waiters)
  BY ElemsFacts DEF MutexIInv, TypeOK, ListInv, SchedPark, sigVars
<1>2. CASE SleepCancelled(t)
  <2>1. state' = [state EXCEPT ![t] = "RUNNABLE"] /\ pc' = [pc EXCEPT ![t] = "lock"]
    BY <1>2 DEF SchedPark
  <2>2. TypeOK' BY <1>1, <2>1 DEF MutexIInv, TypeOK
  <2>3. ListInv' BY <1>1, <2>1, StateFacts DEF MutexIInv, TypeOK, ListInv, Asleep
  <2>4. HoldInv' BY <1>1, <2>1 DEF MutexIInv, TypeOK, HoldInv
  <2>5. SomeoneLooks' BY <1>1, <2>1 DEF MutexIInv, TypeOK, SomeoneLooks
  <2>6. NoSleepOverSignal' BY <1>1, <2>1 DEF MutexIInv, TypeOK, NoSleepOverSignal
  <2> QED BY <2>2, <2>3, <2>4, <2>5, <2>6 DEF MutexIInv
<1>3. CASE ~SleepCancelled(t)
  <2>1. state' = state /\ pc' = [pc EXCEPT ![t] = "parked"]
    BY <1>3 DEF SchedPark
  <2>2. TypeOK' BY <1>1, <2>1 DEF MutexIInv, TypeOK
  <2>3. ListInv' BY <1>1, <2>1 DEF MutexIInv, TypeOK, ListInv, Asleep
  <2>4. HoldInv' BY <1>1, <2>1 DEF MutexIInv, TypeOK, HoldInv
  <2>5. SomeoneLooks' BY <1>1, <2>1 DEF MutexIInv, SomeoneLooks, Asleep
  <2>6. NoSleepOverSignal'
    BY <1>1, <1>3, <2>1 DEF MutexIInv, TypeOK, NoSleepOverSignal, SleepCancelled
  <2> QED BY <2>2, <2>3, <2>4, <2>5, <2>6 DEF MutexIInv
<1> QED BY <1>2, <1>3

\* mutex_unlock: if anybody sleeps, wake_up_one_locked finds one of them.
LEMMA MutexUnlockKeeps ==
  ASSUME MutexIInv, NEW t \in Tasks, MutexUnlock(t)
  PROVE  MutexIInv'
<1>1. /\ pc[t] = "owner" /\ owner' = None /\ pc' = [pc EXCEPT ![t] = "idle"] /\ lock = None
      /\ UNCHANGED <<waiters, lock, sig, owed, mode>>
      /\ Elems(waiters') = Elems(waiters) /\ Elems(waiters) \subseteq Tasks
  BY ElemsFacts DEF MutexIInv, TypeOK, MutexUnlock, sigVars
<1>2. \/ state' = state /\ \A u \in Elems(waiters) : ~Asleep(u)
      \/ \E u \in Elems(waiters) : Asleep(u) /\ state' = [state EXCEPT ![u] = "RUNNABLE"]
  BY WakeOneFacts, StateFacts, Zenon
  DEF MutexIInv, TypeOK, MutexUnlock, UnlockWakes, SchedWake, Asleep
<1>3. /\ state' \in [Tasks -> Modes \cup {"RUNNABLE"}]
      /\ \A u \in Tasks : state'[u] = state[u] \/ state'[u] = "RUNNABLE"
  BY <1>1, <1>2 DEF MutexIInv, TypeOK
<1>4. TypeOK' BY <1>1, <1>3, Zenon DEF MutexIInv, TypeOK
<1>5. ListInv' BY <1>1, <1>3, StateFacts DEF MutexIInv, TypeOK, ListInv, Asleep
<1>6. HoldInv' BY <1>1, StateFacts DEF MutexIInv, TypeOK, HoldInv
<1>7. SomeoneLooks'
  <2>1. CASE state' = state /\ \A u \in Elems(waiters) : ~Asleep(u)
    BY <1>1, <2>1 DEF MutexIInv, ListInv, SomeoneLooks, Asleep
  <2>2. CASE \E u \in Elems(waiters) : Asleep(u) /\ state' = [state EXCEPT ![u] = "RUNNABLE"]
    BY <1>1, <2>2 DEF MutexIInv, TypeOK, SomeoneLooks
  <2> QED BY <1>2, <2>1, <2>2
<1>8. NoSleepOverSignal'
  BY <1>1, <1>3 DEF MutexIInv, TypeOK, NoSleepOverSignal, PendingState
<1> QED BY <1>4, <1>5, <1>6, <1>7, <1>8 DEF MutexIInv

\* The steps that touch neither the list nor a sleeper: a call, mutex_trylock, a
\* signal, its delivery, and the wakeup that its sender owes.
LEMMA OtherKeeps ==
  ASSUME MutexIInv, NEW t \in Tasks,
         \/ \E m \in Modes : MutexLock(t, m)
         \/ MutexTrylock(t) \/ SendSignal(t) \/ SchedWakeSignal(t) \/ GetSignal(t)
  PROVE  MutexIInv'
<1>1. Elems(waiters) \subseteq Tasks BY ElemsFacts DEF MutexIInv, TypeOK
<1> USE <1>1, StateFacts DEF MutexIInv, sigVars
<1>2. CASE \E m \in Modes : MutexLock(t, m)
  <2> USE <1>2 DEF MutexLock, TypeOK
  <2>1. TypeOK' OBVIOUS
  <2>2. ListInv' BY DEF ListInv, Asleep
  <2>3. HoldInv' BY DEF HoldInv
  <2>4. SomeoneLooks' /\ NoSleepOverSignal' BY DEF SomeoneLooks, NoSleepOverSignal, Asleep
  <2> QED BY <2>1, <2>2, <2>3, <2>4
<1>3. CASE MutexTrylock(t)
  <2> USE <1>3 DEF MutexTrylock, TypeOK
  <2>1. TypeOK' OBVIOUS
  <2>2. ListInv' BY DEF ListInv, Asleep
  <2>3. HoldInv' BY DEF HoldInv
  <2>4. SomeoneLooks' /\ NoSleepOverSignal' BY DEF SomeoneLooks, NoSleepOverSignal, Asleep
  <2> QED BY <2>1, <2>2, <2>3, <2>4
<1>4. CASE SendSignal(t)
  <2> USE <1>4 DEF SendSignal, TypeOK
  <2>1. TypeOK' OBVIOUS
  <2>2. ListInv' /\ HoldInv' /\ SomeoneLooks' BY DEF ListInv, HoldInv, SomeoneLooks, Asleep
  <2>3. NoSleepOverSignal' BY DEF NoSleepOverSignal
  <2> QED BY <2>1, <2>2, <2>3
<1>5. CASE SchedWakeSignal(t)
  <2>1. /\ UNCHANGED <<owner, waiters, lock, sig, mode, pc>> /\ owed' = owed \ {t}
        /\ state' \in [Tasks -> Modes \cup {"RUNNABLE"}]
        /\ \A u \in Tasks : state'[u] = state[u] \/ state'[u] = "RUNNABLE"
        /\ state'[t] # "INTERRUPTIBLE"
    BY <1>5 DEF SchedWakeSignal, TypeOK
  <2>2. TypeOK' BY <2>1 DEF TypeOK
  <2>3. ListInv' /\ HoldInv' /\ SomeoneLooks'
    BY <2>1 DEF ListInv, HoldInv, SomeoneLooks, Asleep
  <2>4. NoSleepOverSignal'
    <3> SUFFICES ASSUME NEW u \in Tasks, pc'[u] = "parked", PendingState(state'[u], sig'[u])
                 PROVE  u \in owed'
      BY DEF NoSleepOverSignal
    <3>1. sig[u] \subseteq {"SIGPENDING"} BY DEF TypeOK
    <3>2. state'[u] = "INTERRUPTIBLE" /\ u # t /\ state[u] = "INTERRUPTIBLE"
      BY <2>1, <3>1 DEF PendingState
    <3> QED BY <2>1, <3>2 DEF NoSleepOverSignal, PendingState
  <2> QED BY <2>2, <2>3, <2>4
<1>6. CASE GetSignal(t)
  <2> USE <1>6 DEF GetSignal, TypeOK
  <2>1. TypeOK' OBVIOUS
  <2>2. ListInv' /\ HoldInv' /\ SomeoneLooks' BY DEF ListInv, HoldInv, SomeoneLooks, Asleep
  <2>3. NoSleepOverSignal' BY DEF NoSleepOverSignal
  <2> QED BY <2>1, <2>2, <2>3
<1> QED BY <1>2, <1>3, <1>4, <1>5, <1>6

\* The invariant is inductive.
THEOREM MutexInvariant == Spec => []MutexIInv
<1>1. MutexIInv /\ [Next]_vars => MutexIInv'
  <2> SUFFICES ASSUME MutexIInv, [Next]_vars PROVE MutexIInv'
    OBVIOUS
  <2>1. CASE Next
    BY <2>1, LockTopKeeps, LockPrepareKeeps, SchedParkKeeps, MutexUnlockKeeps, OtherKeeps
    DEF Next
  <2>2. CASE UNCHANGED vars
    BY <2>2 DEF vars, sigVars, MutexIInv, TypeOK, ListInv, HoldInv, SomeoneLooks,
       NoSleepOverSignal, Asleep
  <2> QED BY <2>1, <2>2
<1> QED BY <1>1, MutexInit, PTL DEF Spec

\* For any tasks that lock, try, unlock and are sent signals in any order: an
\* entry is on mutex.wait only while its task is inside mutex_lock_state,
\* mutex_unlock never leaves a free mutex with all its waiters asleep, and no
\* interruptible waiter sleeps over a signal whose sender has woken it.
THEOREM NoWaiterLost == Spec => []WaitersInv
  BY MutexInvariant, MutexIInvImplies, PTL

-----------------------------------------------------------------------------
\* The abstract mutex sees who waits, who of them may be interrupted and who has a
\* signal.
Waiting == {u \in Tasks : pc[u] \in Inside}
Interruptible == {u \in Tasks : pc[u] \in Inside /\ mode[u] = "INTERRUPTIBLE"}
Signalled == {u \in Tasks : "SIGPENDING" \in sig[u]}

\* A task that leaves mutex_lock_state, with its mode and signals as they were.
LEMMA LeaveFacts ==
  ASSUME NEW t \in Tasks, pc'[t] \notin Inside, \A u \in Tasks \ {t} : pc'[u] = pc[u],
         UNCHANGED <<mode, sig>>
  PROVE  /\ Waiting' = Waiting \ {t} /\ Interruptible' = Interruptible \ {t}
         /\ UNCHANGED Signalled
<1>1. \A u \in Tasks : pc'[u] \in Inside <=> u # t /\ pc[u] \in Inside OBVIOUS
<1>2. Waiting' = Waiting \ {t} BY <1>1, Zenon DEF Waiting
<1>3. Interruptible' = Interruptible \ {t} BY <1>1, Zenon DEF Interruptible
<1> QED BY <1>2, <1>3 DEF Signalled

\* A task that stays inside mutex_lock_state, or outside.
LEMMA StayFacts ==
  ASSUME UNCHANGED <<owner, mode, sig>>, \A u \in Tasks : pc'[u] \in Inside <=> pc[u] \in Inside
  PROVE  UNCHANGED Promise!vars
<1>1. Waiting' = Waiting BY DEF Waiting
<1>2. Interruptible' = Interruptible BY DEF Interruptible
<1> QED BY <1>1, <1>2 DEF Promise!vars, Waiting, Interruptible

\* A step of mutex_lock_state acquires, abandons because of a signal, or changes
\* nothing abstract.
LEMMA LockTopRefines ==
  ASSUME MutexIInv, NEW t \in Tasks, LockTop(t)
  PROVE  [Promise!Next]_(Promise!vars)
<1>1. pc[t] \in Inside /\ UNCHANGED <<mode, sig>> BY DEF LockTop, AtTop, Inside, sigVars
<1>2. CASE MayTake(t) /\ owner' = t /\ pc' = [pc EXCEPT ![t] = "owner"]
  <2>0. pc'[t] \notin Inside /\ \A u \in Tasks \ {t} : pc'[u] = pc[u]
    BY <1>2 DEF MutexIInv, TypeOK, Inside
  <2>1. Waiting' = Waiting \ {t} /\ Interruptible' = Interruptible \ {t} /\ UNCHANGED Signalled
    BY <1>1, <2>0, LeaveFacts, Zenon
  <2>2. Promise!Acquire(t)
    BY <1>2, <2>1 DEF Promise!Acquire, Promise!Leave, MayTake, Waiting, Interruptible, Signalled
  <2> QED BY <2>2 DEF Promise!Next
<1>3. CASE Interrupted(t) /\ pc' = [pc EXCEPT ![t] = "idle"] /\ UNCHANGED owner
  <2>0. pc'[t] \notin Inside /\ \A u \in Tasks \ {t} : pc'[u] = pc[u]
    BY <1>3 DEF MutexIInv, TypeOK, Inside
  <2>1. Waiting' = Waiting \ {t} /\ Interruptible' = Interruptible \ {t} /\ UNCHANGED Signalled
    BY <1>1, <2>0, LeaveFacts, Zenon
  <2>2. mode[t] = "INTERRUPTIBLE" /\ "SIGPENDING" \in sig[t]
    BY <1>3 DEF MutexIInv, TypeOK, Modes, Interrupted, PendingState
  <2>3. Promise!Abandon(t)
    BY <1>1, <1>3, <2>1, <2>2 DEF Promise!Abandon, Promise!Leave, Waiting, Interruptible, Signalled
  <2> QED BY <2>3 DEF Promise!Next
<1>4. CASE pc' = [pc EXCEPT ![t] = "prepare"] /\ UNCHANGED owner
  <2>1. \A u \in Tasks : pc'[u] \in Inside <=> pc[u] \in Inside
    BY <1>1, <1>4 DEF MutexIInv, TypeOK, Inside
  <2> QED BY <1>1, <1>4, <2>1, StayFacts
<1> QED BY <1>2, <1>3, <1>4 DEF LockTop

\* Every step of kernel/mutex.c is a step of the abstract mutex, or none.
LEMMA StepRefines ==
  ASSUME MutexIInv, [Next]_vars
  PROVE  [Promise!Next]_(Promise!vars)
<1>1. ASSUME UNCHANGED <<owner, mode, sig, pc>> PROVE UNCHANGED Promise!vars
  BY <1>1, StayFacts
<1>2. ASSUME NEW t \in Tasks, NEW m \in Modes, MutexLock(t, m) PROVE Promise!Next
  <2>1. /\ pc[t] \notin Inside /\ pc'[t] \in Inside /\ mode'[t] = m
        /\ \A u \in Tasks \ {t} : pc'[u] = pc[u] /\ mode'[u] = mode[u]
    BY <1>2 DEF MutexLock, MutexIInv, TypeOK, Inside
  <2>2. owner # t /\ UNCHANGED <<owner, sig>> BY <1>2 DEF MutexLock, MutexIInv, HoldInv, sigVars
  <2>3. Waiting' = Waiting \cup {t} /\ t \notin Waiting BY <2>1 DEF Waiting
  <2>4. Interruptible' \in {Interruptible, Interruptible \cup {t}} BY <2>1 DEF Interruptible
  <2>5. Promise!Request(t)
    BY <2>2, <2>3, <2>4 DEF Promise!Request, Waiting, Interruptible
  <2> QED BY <2>5 DEF Promise!Next
<1>3. ASSUME NEW t \in Tasks, LockPrepare(t) \/ SchedPark(t) PROVE UNCHANGED Promise!vars
  <2>1. \A u \in Tasks : pc'[u] \in Inside <=> pc[u] \in Inside
    BY <1>3 DEF LockPrepare, SchedPark, MutexIInv, TypeOK, Inside
  <2>2. UNCHANGED <<owner, mode, sig>> BY <1>3 DEF LockPrepare, SchedPark, sigVars
  <2> QED BY <2>1, <2>2, StayFacts
<1>4. ASSUME NEW t \in Tasks, MutexTrylock(t) PROVE Promise!Next
  <2>1. pc' = [pc EXCEPT ![t] = "owner"] /\ UNCHANGED <<mode, sig>> /\ owner = None /\ owner' = t
    BY <1>4 DEF MutexTrylock, sigVars
  <2>0. pc'[t] \notin Inside /\ \A u \in Tasks \ {t} : pc'[u] = pc[u]
    BY <2>1 DEF MutexIInv, TypeOK, Inside
  <2>2. Waiting' = Waiting \ {t} /\ Interruptible' = Interruptible \ {t} /\ UNCHANGED Signalled
    BY <2>0, <2>1, LeaveFacts, Zenon
  <2>3. Promise!Acquire(t)
    BY <2>1, <2>2 DEF Promise!Acquire, Promise!Leave, Waiting, Interruptible, Signalled
  <2> QED BY <2>3 DEF Promise!Next
<1>5. ASSUME NEW t \in Tasks, MutexUnlock(t) PROVE Promise!Next
  <2>1. owner # None /\ owner' = None /\ UNCHANGED <<mode, sig>>
    BY <1>5, StateFacts DEF MutexUnlock, MutexIInv, HoldInv, sigVars
  <2>2. \A u \in Tasks : pc'[u] \in Inside <=> pc[u] \in Inside
    BY <1>5 DEF MutexUnlock, MutexIInv, TypeOK, Inside
  <2>3. Waiting' = Waiting /\ Interruptible' = Interruptible
    BY <2>1, <2>2 DEF Waiting, Interruptible
  <2>4. Promise!Release BY <2>1, <2>3 DEF Promise!Release, Waiting, Interruptible
  <2> QED BY <2>4 DEF Promise!Next
<1>6. ASSUME NEW t \in Tasks, SendSignal(t) \/ GetSignal(t) PROVE Promise!Next
  <2>1. UNCHANGED <<owner, mode, pc>> BY <1>6 DEF SendSignal, GetSignal
  <2>2. Waiting' = Waiting /\ Interruptible' = Interruptible BY <2>1 DEF Waiting, Interruptible
  <2>3. \/ Signalled' = Signalled \cup {t}
        \/ t \notin Waiting /\ Signalled' = Signalled \ {t}
    BY <1>6 DEF SendSignal, GetSignal, MutexIInv, TypeOK, Signalled, Waiting, Inside
  <2>4. Promise!Signal(t)
    BY <2>1, <2>2, <2>3 DEF Promise!Signal, Waiting, Interruptible, Signalled
  <2> QED BY <2>4 DEF Promise!Next
<1>7. ASSUME NEW t \in Tasks, SchedWakeSignal(t) PROVE UNCHANGED Promise!vars
  BY <1>1, <1>7 DEF SchedWakeSignal
<1>8. CASE UNCHANGED vars BY <1>1, <1>8 DEF vars, sigVars
<1> QED BY <1>2, <1>3, <1>4, <1>5, <1>6, <1>7, <1>8, LockTopRefines DEF Next

\* For any number of tasks kernel/mutex.c implements the abstract mutex, but for
\* its liveness: one owner at a time, who found the mutex free, a mutex_lock that
\* ends in the ownership, and a mutex_lock_interruptible that is abandoned only for a
\* signal.
THEOREM MutexRefines == Spec => Promise!Safety
<1>1. Init => Promise!Init BY DEF Init, Promise!Init, Inside
<1>2. MutexIInv /\ [Next]_vars => [Promise!Next]_(Promise!vars) BY StepRefines
<1> QED BY <1>1, <1>2, MutexInvariant, PTL DEF Spec, Promise!Safety
=============================================================================
