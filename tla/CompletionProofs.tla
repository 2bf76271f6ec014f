-------------------------- MODULE CompletionProofs --------------------------
(***************************************************************************)
(* Completions of any number of tasks: none is lost, none is invented, and *)
(* a wait leaves neither its entry nor its timer behind.                   *)
(***************************************************************************)
EXTENDS Completion, WaitLemmas, FiniteSetTheorems

USE SMTT(30)

Asleep(t) == state[t] \in Sleeps

\* The waiters that are going to look at the counter.
Awake == {t \in Elems(waiters) : state[t] = "RUNNABLE"}

\* The entries of the waiters.
ListInv ==
  /\ Distinct(waiters)
  /\ \A t \in Elems(waiters) : pc[t] \in {"wait", "park", "parked"}
  /\ \A t \in Tasks : pc[t] \in {"park", "parked"} => t \in Elems(waiters)
  /\ \A t \in Tasks : Asleep(t) => pc[t] \in {"park", "parked"}

\* Who holds wait.lock from the look at the counter to the registration of the
\* sleep: the counter is still zero.
LockInv ==
  /\ \A t \in Tasks : lock = t <=> pc[t] = "prepare"
  /\ lock # None => done = 0

\* The counter and its history, also while the completion is permanent.
CountInv == Conservation /\ taken <= given

\* NoLostCompletion, of the sleeps that are registered.
LookersInv == (\E t \in Tasks : Asleep(t)) => done <= Cardinality(Awake)

\* The timer of a timed wait, from its first round to timer_cancel_sync.  Between
\* the look at the deadline and the sleep it may fire, and its callback waits for
\* wait.lock.
TimerInv ==
  \A t \in Tasks :
    /\ pc[t] # "idle" => mode[t] \in Modes
    /\ timer[t] # "idle" => mode[t] = "UNTIL" /\ pc[t] \notin {"idle", "begin"}
    /\ mode[t] = "UNTIL" /\ pc[t] \in {"wait", "prepare", "park", "parked"} /\ t \notin expired =>
         timer[t] = "armed"
    /\ mode[t] = "UNTIL" /\ (pc[t] = "prepare" \/ Asleep(t)) => timer[t] \in {"armed", "firing"}

CompletionIInv == TypeOK /\ ListInv /\ LockInv /\ CountInv /\ LookersInv /\ TimerInv

\* The sleep states and RUNNABLE differ, and so do the tasks and None.
LEMMA StateFacts ==
  ASSUME CompletionAssumption
  PROVE  /\ "RUNNABLE" \notin Sleeps
         /\ \A x \in Sleeps \cup {"RUNNABLE"} : x \notin Sleeps <=> x = "RUNNABLE"
         /\ "RUNNABLE" \in Sleeps \cup {"RUNNABLE"}
         /\ \A m \in Modes : SleepState(m) \in Sleeps
         /\ \A t \in Tasks : t # None
  BY DEF CompletionAssumption, Sleeps, Modes, SleepState

\* The tasks are fewer than the values of the counter: while one of them sleeps,
\* the others do not account for a permanent completion.
LEMMA AwakeFacts ==
  ASSUME CompletionAssumption, CompletionIInv
  PROVE  /\ Elems(waiters) \subseteq Tasks /\ Awake \subseteq Tasks
         /\ IsFiniteSet(Awake) /\ Cardinality(Awake) \in Nat
         /\ DoneMax \in Nat /\ done \in 0 .. DoneMax
         /\ done = DoneMax => \A t \in Tasks : ~Asleep(t)
<1>1. /\ Elems(waiters) \subseteq Tasks /\ Awake \subseteq Tasks
      /\ DoneMax \in Nat /\ done \in 0 .. DoneMax
  BY ElemsFacts DEF CompletionIInv, TypeOK, Awake, CompletionAssumption
<1>2. IsFiniteSet(Tasks) /\ Cardinality(Tasks) \in Nat /\ Cardinality(Tasks) <= DoneMax
  BY FS_CardinalityType DEF CompletionAssumption
<1>3. /\ IsFiniteSet(Awake) /\ Cardinality(Awake) \in Nat
      /\ Cardinality(Awake) <= Cardinality(Tasks)
      /\ Cardinality(Awake) = Cardinality(Tasks) => Awake = Tasks
  BY <1>1, <1>2, FS_Subset, FS_CardinalityType
<1>4. ASSUME done = DoneMax, NEW t \in Tasks, Asleep(t) PROVE FALSE
  <2>1. done <= Cardinality(Awake) BY <1>4 DEF CompletionIInv, LookersInv
  <2>2. t \notin Awake BY <1>4, StateFacts DEF Awake, Asleep
  <2> QED BY <1>1, <1>2, <1>3, <1>4, <2>1, <2>2
<1> QED BY <1>1, <1>3, <1>4

\* The invariant of the runs follows.
LEMMA CompletionIInvImplies ==
  ASSUME CompletionAssumption, CompletionIInv
  PROVE  CompletionInv
<1>1. \A t \in Tasks : state[t] # "RUNNABLE" <=> Asleep(t)
  BY StateFacts DEF CompletionIInv, TypeOK, Asleep
<1>2. NoLostCompletion
  BY <1>1 DEF CompletionIInv, LookersInv, NoLostCompletion, Awake
<1>3. StackInv BY DEF CompletionIInv, ListInv, TimerInv, StackInv
<1>4. NoSleepOverDeadline BY <1>1 DEF CompletionIInv, TimerInv, NoSleepOverDeadline
<1> QED BY <1>2, <1>3, <1>4 DEF CompletionIInv, CountInv, CompletionInv

\* Nobody has called.
LEMMA CompletionInit ==
  ASSUME CompletionAssumption, Init
  PROVE  CompletionIInv
<1>1. Elems(waiters) = {} /\ Distinct(waiters) /\ waiters \in Seq(Tasks)
  BY DEF Init, Elems, Distinct
<1>2. TypeOK BY <1>1 DEF Init, TypeOK, CompletionAssumption
<1>3. ListInv BY <1>1, StateFacts DEF Init, ListInv, Asleep
<1>4. LockInv BY StateFacts DEF Init, LockInv
<1>5. CountInv BY DEF Init, CountInv, Conservation
<1>6. LookersInv BY StateFacts DEF Init, LookersInv, Asleep
<1>7. TimerInv BY StateFacts DEF Init, TimerInv, Asleep
<1> QED BY <1>2, <1>3, <1>4, <1>5, <1>6, <1>7 DEF CompletionIInv

\* More waiters look, and there is no more to look for.
LEMMA LookersKeep ==
  ASSUME CompletionAssumption, CompletionIInv,
         Awake' \subseteq Tasks, Awake \subseteq Awake',
         done' \in Nat, done' <= done,
         (\E t \in Tasks : Asleep(t)') => \E t \in Tasks : Asleep(t)
  PROVE  LookersInv'
<1>1. IsFiniteSet(Awake') /\ Cardinality(Awake') \in Nat
  BY FS_Subset, FS_CardinalityType DEF CompletionAssumption
<1>2. Cardinality(Awake) <= Cardinality(Awake') BY <1>1, FS_Subset
<1>3. (\E t \in Tasks : Asleep(t)') => done <= Cardinality(Awake)
  BY DEF CompletionIInv, LookersInv
<1>4. done \in Nat /\ Cardinality(Awake) \in Nat BY AwakeFacts
<1>5. (\E t \in Tasks : Asleep(t)') => done' <= Cardinality(Awake')
  BY <1>1, <1>2, <1>3, <1>4
<1> QED BY <1>5 DEF LookersInv

\* A step that wakes tasks and moves nobody: what it keeps of the list.
LEMMA WakeStep ==
  ASSUME CompletionAssumption, CompletionIInv, UNCHANGED <<waiters, pc>>,
         state' \in [Tasks -> Sleeps \cup {"RUNNABLE"}],
         \A t \in Tasks : state'[t] = state[t] \/ state'[t] = "RUNNABLE"
  PROVE  /\ ListInv' /\ Awake' \subseteq Tasks /\ Awake \subseteq Awake'
         /\ \A t \in Tasks : Asleep(t)' => Asleep(t)
<1>1. \A t \in Tasks : Asleep(t)' => Asleep(t) BY StateFacts DEF Asleep
<1>2. Elems(waiters') = Elems(waiters) /\ Elems(waiters) \subseteq Tasks BY AwakeFacts
<1>3. ListInv' BY <1>1, <1>2 DEF CompletionIInv, ListInv
<1>4. Awake' \subseteq Tasks /\ Awake \subseteq Awake' BY <1>2 DEF Awake
<1> QED BY <1>1, <1>3, <1>4

\* complete counts one more and wakes one sleeper, if there is any.
LEMMA CompleteKeeps ==
  ASSUME CompletionAssumption, CompletionIInv, Complete
  PROVE  CompletionIInv'
<1>1. /\ lock = None /\ given < MaxCompletes /\ given' = given + 1
      /\ done' = IF done = DoneMax THEN done ELSE done + 1
      /\ UNCHANGED <<waiters, lock, sig, owed, mode, pc, timer, expired, taken>>
  BY DEF Complete, IncDone, sigVars, waitVars, timerVars
<1>2. \/ state' = state /\ \A u \in Elems(waiters) : ~Asleep(u)
      \/ \E u \in Elems(waiters) : Asleep(u) /\ state' = [state EXCEPT ![u] = "RUNNABLE"]
  BY WakeOneFacts, StateFacts, ZenonT(40) DEF CompletionIInv, TypeOK, Complete, SchedWake, Asleep
<1>3. /\ state' \in [Tasks -> Sleeps \cup {"RUNNABLE"}]
      /\ \A t \in Tasks : state'[t] = state[t] \/ state'[t] = "RUNNABLE"
  BY <1>2, AwakeFacts DEF CompletionIInv, TypeOK
<1>4. /\ ListInv' /\ Awake' \subseteq Tasks /\ Awake \subseteq Awake'
      /\ \A t \in Tasks : Asleep(t)' => Asleep(t)
  BY <1>1, <1>3, WakeStep
<1>5. /\ MaxCompletes \in Nat /\ given \in Nat /\ taken \in Nat /\ DoneMax \in Nat
      /\ done \in 0 .. DoneMax
  BY DEF CompletionIInv, TypeOK, CompletionAssumption
<1>6. done' \in 0 .. DoneMax /\ done' <= done + 1 /\ (done' # DoneMax => done' = done + 1)
  BY <1>1, <1>5
<1>7. TypeOK'
  <2>1. given' \in 0 .. MaxCompletes BY <1>1, <1>5
  <2> QED BY <1>1, <1>3, <1>6, <2>1 DEF CompletionIInv, TypeOK
<1>8. LockInv' BY <1>1 DEF CompletionIInv, LockInv
<1>9. CountInv'
  <2>1. done' # DoneMax => done # DoneMax BY <1>1
  <2>2. (done # DoneMax => given = taken + done) /\ taken <= given
    BY DEF CompletionIInv, CountInv, Conservation
  <2>3. done' # DoneMax => given' = taken + done' BY <1>1, <1>5, <1>6, <2>1, <2>2
  <2>4. taken <= given' BY <1>1, <1>5, <2>2
  <2> QED BY <1>1, <2>3, <2>4 DEF CountInv, Conservation
<1>10. LookersInv'
  <2>1. CASE state' = state /\ \A u \in Elems(waiters) : ~Asleep(u)
    <3>1. \A t \in Tasks : ~Asleep(t) BY <2>1 DEF CompletionIInv, ListInv
    <3> QED BY <1>4, <3>1 DEF LookersInv
  <2>2. ASSUME NEW u \in Elems(waiters), Asleep(u), state' = [state EXCEPT ![u] = "RUNNABLE"]
        PROVE  LookersInv'
    <3>1. u \in Tasks /\ u \notin Awake BY <2>2, AwakeFacts, StateFacts DEF Awake, Asleep
    <3>2. Awake' = Awake \cup {u}
      <4>1. Elems(waiters') = Elems(waiters) BY <1>1
      <4>2. state'[u] = "RUNNABLE" /\ \A v \in Tasks \ {u} : state'[v] = state[v]
        BY <2>2, <3>1 DEF CompletionIInv, TypeOK
      <4> QED BY <3>1, <4>1, <4>2, AwakeFacts DEF Awake
    <3>3. Cardinality(Awake') = Cardinality(Awake) + 1
      BY <3>1, <3>2, AwakeFacts, FS_AddElement, ZenonT(40)
    <3>4. done <= Cardinality(Awake) BY <2>2, <3>1 DEF CompletionIInv, LookersInv
    <3>5. Cardinality(Awake) \in Nat BY AwakeFacts
    <3>6. done' <= Cardinality(Awake') BY <1>5, <1>6, <3>3, <3>4, <3>5
    <3> QED BY <3>6 DEF LookersInv
  <2> QED BY <1>2, <2>1, <2>2
<1>11. TimerInv' BY <1>1, <1>4 DEF CompletionIInv, TimerInv
<1> QED BY <1>4, <1>7, <1>8, <1>9, <1>10, <1>11 DEF CompletionIInv

\* complete_all wakes everybody.
LEMMA CompleteAllKeeps ==
  ASSUME CompletionAssumption, CompletionIInv, CompleteAll
  PROVE  CompletionIInv'
<1>1. /\ lock = None /\ done' = DoneMax
      /\ UNCHANGED <<waiters, lock, sig, owed, mode, pc, timer, expired, given, taken>>
  BY DEF CompleteAll, sigVars, waitVars, timerVars
<1>2. /\ state' \in [Tasks -> Sleeps \cup {"RUNNABLE"}]
      /\ \A t \in Tasks : state'[t] =
           IF state[t] \in Sleeps /\ t \in Elems(waiters) THEN "RUNNABLE" ELSE state[t]
  <2> DEFINE States == Sleeps \cup {"RUNNABLE"}
  <2>1. state \in [Tasks -> States] /\ waiters \in Seq(Tasks) /\ "RUNNABLE" \in States
    BY DEF CompletionIInv, TypeOK
  <2> HIDE DEF States
  <2>2. /\ WakeUpAll(state, waiters) \in [Tasks -> States]
        /\ \A t \in Tasks : WakeUpAll(state, waiters)[t] =
             IF state[t] \in Sleeps /\ t \in Elems(waiters) THEN "RUNNABLE" ELSE state[t]
    BY <2>1, WakeAllFacts
  <2> QED BY <2>2 DEF CompleteAll, States
<1>3. /\ ListInv' /\ \A t \in Tasks : Asleep(t)' => Asleep(t)
  <2>1. \A t \in Tasks : state'[t] = state[t] \/ state'[t] = "RUNNABLE" BY <1>2
  <2> QED BY <1>1, <1>2, <2>1, WakeStep
<1>4. \A t \in Tasks : ~Asleep(t)'
  BY <1>2, StateFacts DEF CompletionIInv, ListInv, Asleep
<1>5. TypeOK' BY <1>1, <1>2 DEF CompletionIInv, TypeOK, CompletionAssumption
<1>6. LockInv' BY <1>1 DEF CompletionIInv, LockInv
<1>7. CountInv' BY <1>1 DEF CompletionIInv, CountInv, Conservation
<1>8. LookersInv' BY <1>4 DEF LookersInv
<1>9. TimerInv' BY <1>1, <1>3 DEF CompletionIInv, TimerInv
<1> QED BY <1>3, <1>5, <1>6, <1>7, <1>8, <1>9 DEF CompletionIInv

\* reinit_completion finds nobody in a wait.
LEMMA ReinitKeeps ==
  ASSUME CompletionAssumption, CompletionIInv, ReinitCompletion
  PROVE  CompletionIInv'
<1>1. /\ \A t \in Tasks : pc[t] = "idle"
      /\ done' = 0 /\ given' = 0 /\ taken' = 0
      /\ UNCHANGED <<waiters, lock, state, sig, owed, mode, pc, timer, expired>>
  BY DEF ReinitCompletion, sigVars, waitVars, timerVars
<1>2. \A t \in Tasks : ~Asleep(t)' BY <1>1 DEF CompletionIInv, ListInv, Asleep
<1>3. TypeOK' BY <1>1 DEF CompletionIInv, TypeOK, CompletionAssumption
<1>4. ListInv' BY <1>1 DEF CompletionIInv, ListInv, Asleep
<1>5. LockInv' BY <1>1 DEF CompletionIInv, LockInv
<1>6. CountInv' BY <1>1 DEF CountInv, Conservation
<1>7. LookersInv' BY <1>2 DEF LookersInv
<1>8. TimerInv' BY <1>1 DEF CompletionIInv, TimerInv, Asleep
<1> QED BY <1>3, <1>4, <1>5, <1>6, <1>7, <1>8 DEF CompletionIInv

\* What take_completion_locked does to the counter.
LEMMA TakeFacts ==
  ASSUME CompletionAssumption, CompletionIInv, TakeCompletion
  PROVE  /\ done' \in 0 .. DoneMax /\ done' <= done /\ done # 0
         /\ done # DoneMax => done' = done - 1
         /\ given' = given /\ taken' \in 0 .. MaxCompletes /\ CountInv'
<1>1. /\ DoneMax \in Nat /\ MaxCompletes \in Nat /\ done \in 0 .. DoneMax
      /\ given \in 0 .. MaxCompletes /\ taken \in 0 .. MaxCompletes
      /\ (done # DoneMax => given = taken + done) /\ taken <= given
  BY DEF CompletionIInv, TypeOK, CountInv, Conservation, CompletionAssumption
<1>2. /\ done # 0 /\ done' = (IF done = DoneMax THEN done ELSE done - 1)
      /\ taken' = (IF done = DoneMax THEN taken ELSE taken + 1) /\ given' = given
  BY DEF TakeCompletion, DecDone
<1>3. CASE done = DoneMax BY <1>1, <1>2, <1>3 DEF CountInv, Conservation
<1>4. CASE done # DoneMax
  <2>1. done' = done - 1 /\ done' \in 0 .. DoneMax /\ taken' = taken + 1
    BY <1>1, <1>2, <1>4
  <2>2. given' = taken' + done' /\ taken' <= given' /\ taken' \in 0 .. MaxCompletes
    BY <1>1, <1>2, <1>4, <2>1
  <2> QED BY <1>1, <1>2, <2>1, <2>2 DEF CountInv, Conservation
<1> QED BY <1>3, <1>4

\* try_wait_for_completion takes one from the counter and from nobody.
LEMMA TryWaitKeeps ==
  ASSUME CompletionAssumption, CompletionIInv, TryWait
  PROVE  CompletionIInv'
<1>1. /\ lock = None /\ TakeCompletion
      /\ UNCHANGED <<waiters, lock, state, sig, owed, mode, pc, timer, expired>>
  BY DEF TryWait, sigVars, waitVars, timerVars
<1>2. /\ done' \in 0 .. DoneMax /\ done' <= done
      /\ given' = given /\ taken' \in 0 .. MaxCompletes /\ CountInv'
  BY <1>1, TakeFacts
<1>3. TypeOK' BY <1>1, <1>2 DEF CompletionIInv, TypeOK
<1>4. ListInv' BY <1>1 DEF CompletionIInv, ListInv, Asleep
<1>5. LockInv' BY <1>1 DEF CompletionIInv, LockInv
<1>6. Awake' = Awake /\ \A t \in Tasks : Asleep(t)' = Asleep(t)
  BY <1>1 DEF Awake, Asleep
<1>7. LookersInv' BY <1>2, <1>6, AwakeFacts, LookersKeep
<1>8. TimerInv' BY <1>1 DEF CompletionIInv, TimerInv, Asleep
<1> QED BY <1>2, <1>3, <1>4, <1>5, <1>7, <1>8 DEF CompletionIInv

\* Only the timer, the deadline and the signals change, or a sleeper is woken.
LEMMA WakeOnlyStep ==
  ASSUME CompletionAssumption, CompletionIInv, TypeOK', TimerInv',
         UNCHANGED <<done, waiters, lock, pc, given, taken>>,
         \A t \in Tasks : state'[t] = state[t] \/ state'[t] = "RUNNABLE"
  PROVE  CompletionIInv'
<1>1. /\ ListInv' /\ Awake' \subseteq Tasks /\ Awake \subseteq Awake'
      /\ \A t \in Tasks : Asleep(t)' => Asleep(t)
  <2>1. state' \in [Tasks -> Sleeps \cup {"RUNNABLE"}] BY DEF TypeOK
  <2> QED BY <2>1, WakeStep
<1>2. LockInv' /\ CountInv' BY DEF CompletionIInv, LockInv, CountInv, Conservation
<1>3. done' \in Nat /\ done' <= done BY AwakeFacts
<1>4. LookersInv' BY <1>1, <1>3, LookersKeep
<1> QED BY <1>1, <1>2, <1>4 DEF CompletionIInv

\* The deadline passes, and the timer fires, calls back and is done.
LEMMA TimerKeeps ==
  ASSUME CompletionAssumption, CompletionIInv, NEW t \in Tasks, TimerStep(t) \/ Expire(t)
  PROVE  CompletionIInv'
<1> USE DEF sigVars, waitVars, timerVars
<1>1. CASE Expire(t)
  <2>1. TypeOK' BY <1>1 DEF Expire, CompletionIInv, TypeOK
  <2>2. TimerInv' BY <1>1 DEF Expire, CompletionIInv, TimerInv, Asleep
  <2> QED BY <1>1, <2>1, <2>2, WakeOnlyStep DEF Expire
<1>2. CASE TimerFire(t)
  <2>1. TypeOK' BY <1>2 DEF TimerFire, CompletionIInv, TypeOK
  <2>2. TimerInv' BY <1>2 DEF TimerFire, CompletionIInv, TypeOK, TimerInv, Asleep
  <2> QED BY <1>2, <2>1, <2>2, WakeOnlyStep DEF TimerFire
<1>3. CASE CompletionTimedOut(t)
  <2>1. /\ timer[t] = "firing" /\ lock = None /\ timer' = [timer EXCEPT ![t] = "notified"]
        /\ state' = SchedWake(state, t)
        /\ UNCHANGED <<done, waiters, lock, sig, owed, mode, pc, expired, given, taken>>
    BY <1>3 DEF CompletionTimedOut, CallbackLocked
  <2>2. /\ state' \in [Tasks -> Sleeps \cup {"RUNNABLE"}] /\ state'[t] \notin Sleeps
        /\ \A u \in Tasks \ {t} : state'[u] = state[u]
    BY <2>1, StateFacts DEF CompletionIInv, TypeOK, SchedWake
  <2>3. \A u \in Tasks : state'[u] = state[u] \/ state'[u] = "RUNNABLE"
    BY <2>2, StateFacts
  <2>4. TypeOK' BY <2>1, <2>2, ZenonT(40) DEF CompletionIInv, TypeOK
  <2>5. pc[t] = "drain" \/ t \in expired
    BY <2>1 DEF CompletionIInv, TypeOK, TimerInv
  <2>6. pc[t] # "prepare" BY <2>1, StateFacts DEF CompletionIInv, LockInv
  <2>7. TimerInv' BY <2>1, <2>2, <2>5, <2>6 DEF CompletionIInv, TypeOK, TimerInv, Asleep
  <2> QED BY <2>1, <2>3, <2>4, <2>7, WakeOnlyStep
<1>4. CASE TimerDone(t)
  <2>1. TypeOK' BY <1>4 DEF TimerDone, CompletionIInv, TypeOK
  <2>2. TimerInv' BY <1>4 DEF TimerDone, CompletionIInv, TypeOK, TimerInv, Asleep
  <2> QED BY <1>4, <2>1, <2>2, WakeOnlyStep DEF TimerDone
<1> QED BY <1>1, <1>2, <1>3, <1>4 DEF TimerStep

\* A signal is sent, its sender calls sched_wake_signal, the task delivers it.
LEMMA SignalKeeps ==
  ASSUME CompletionAssumption, CompletionIInv, NEW t \in Tasks,
         \/ \E bits \in Signals : SendSignal(t, bits) \/ SchedWakeSignal(t, bits)
         \/ GetSignal(t)
  PROVE  CompletionIInv'
<1> USE DEF sigVars, waitVars, timerVars
<1>1. ASSUME NEW bits \in Signals, SendSignal(t, bits) PROVE CompletionIInv'
  <2>1. bits \in SUBSET {"SIGPENDING", "SIGKILL"} BY DEF CompletionAssumption
  <2>2. sig' \in [Tasks -> SUBSET {"SIGPENDING", "SIGKILL"}] /\ owed' \subseteq Tasks \X Signals
    <3>1. sig[t] \cup bits \in SUBSET {"SIGPENDING", "SIGKILL"}
      BY <2>1, ZenonT(40) DEF CompletionIInv, TypeOK
    <3>2. sig' = [sig EXCEPT ![t] = sig[t] \cup bits] /\ owed' = owed \cup {<<t, bits>>}
      BY <1>1 DEF SendSignal
    <3> QED BY <3>1, <3>2 DEF CompletionIInv, TypeOK
  <2>3. TypeOK' BY <1>1, <2>2 DEF SendSignal, CompletionIInv, TypeOK
  <2>4. TimerInv' BY <1>1 DEF SendSignal, CompletionIInv, TimerInv, Asleep
  <2> QED BY <1>1, <2>3, <2>4, WakeOnlyStep DEF SendSignal
<1>2. ASSUME NEW bits \in Signals, SchedWakeSignal(t, bits) PROVE CompletionIInv'
  <2>1. /\ owed' \subseteq owed
        /\ UNCHANGED <<done, waiters, lock, sig, mode, pc, timer, expired, given, taken>>
        /\ state' = [state EXCEPT ![t] = IF PendingState(@, bits) THEN "RUNNABLE" ELSE @]
    BY <1>2 DEF SchedWakeSignal
  <2>2. /\ state' \in [Tasks -> Sleeps \cup {"RUNNABLE"}]
        /\ \A u \in Tasks : state'[u] = state[u] \/ state'[u] = "RUNNABLE"
    BY <2>1 DEF CompletionIInv, TypeOK
  <2>3. TypeOK' BY <2>1, <2>2, ZenonT(40) DEF CompletionIInv, TypeOK
  <2>4. TimerInv' BY <2>1, <2>2, StateFacts, ZenonT(40) DEF CompletionIInv, TimerInv, Asleep
  <2> QED BY <2>1, <2>2, <2>3, <2>4, WakeOnlyStep
<1>3. CASE GetSignal(t)
  <2>1. TypeOK' BY <1>3 DEF GetSignal, CompletionIInv, TypeOK
  <2>2. TimerInv' BY <1>3 DEF GetSignal, CompletionIInv, TimerInv, Asleep
  <2> QED BY <1>3, <2>1, <2>2, WakeOnlyStep, ZenonT(40) DEF GetSignal
<1> QED BY <1>1, <1>2, <1>3

\* The top of the loops of a wait.  The task takes its entry off the list; it
\* takes a completion, gives up, or keeps wait.lock because there is none.
LEMMA WaitTopKeeps ==
  ASSUME CompletionAssumption, CompletionIInv, NEW t \in Tasks, WaitTop(t)
  PROVE  CompletionIInv'
<1>1. /\ waiters' \in Seq(Tasks) /\ Distinct(waiters')
      /\ Elems(waiters') = Elems(waiters) \ {t} /\ Elems(waiters) \subseteq Tasks
  BY FinishFacts, ElemsFacts DEF CompletionIInv, TypeOK, ListInv, WaitTop
<1>2. /\ state' = state /\ ~Asleep(t) /\ UNCHANGED <<sig, owed>> /\ lock = None
      /\ pc[t] \in {"begin", "wait", "parked"} /\ mode[t] \in Modes
  <2>1. ~Asleep(t)
    BY StateFacts DEF CompletionIInv, ListInv, WaitTop, AtTop, Asleep
  <2>2. state' = state
    BY <2>1 DEF CompletionIInv, TypeOK, WaitTop, SchedWake, Asleep
  <2> QED BY <2>1, <2>2, ZenonT(40) DEF CompletionIInv, TimerInv, WaitTop, AtTop, sigVars
<1>3. Frame(t) BY DEF WaitTop
<1> DEFINE l == pc'[t]
<1>4. /\ pc' = [pc EXCEPT ![t] = l] /\ l \in {"idle", "drain", "prepare"}
      /\ l = "idle" => mode[t] # "UNTIL" \/ pc[t] = "begin"
      /\ l = "drain" => mode[t] = "UNTIL" /\ pc[t] # "begin"
      /\ l # "prepare" => lock' = None /\ timer' = timer
      /\ l = "prepare" => lock' = t /\ done = 0 /\ ~GivesUp(t)
      /\ l = "prepare" => timer' = IF mode[t] = "UNTIL" /\ pc[t] = "begin"
                                   THEN [timer EXCEPT ![t] = "armed"] ELSE timer
  BY <1>2, ZenonT(40) DEF CompletionIInv, TypeOK, WaitTop, Leave
<1>5. TakeCompletion \/ (done = 0 /\ UNCHANGED <<done, given, taken>>)
  BY DEF WaitTop, GivesUp
<1>6. l = "prepare" => done' = 0
  BY <1>4, <1>5 DEF TakeCompletion
<1>7. /\ l = "idle" => mode' = [mode EXCEPT ![t] = None] /\ expired' = expired \ {t}
      /\ l # "idle" => mode' = mode /\ expired' = expired
  BY <1>3 DEF Frame
<1>8. /\ done' \in 0 .. DoneMax /\ given' \in 0 .. MaxCompletes /\ taken' \in 0 .. MaxCompletes
      /\ CountInv'
  <2>1. CASE TakeCompletion BY <2>1, TakeFacts DEF CompletionIInv, TypeOK
  <2>2. CASE UNCHANGED <<done, given, taken>>
    BY <2>2 DEF CompletionIInv, TypeOK, CountInv, Conservation
  <2> QED BY <1>5, <2>1, <2>2
<1> HIDE DEF l
<1>9. TypeOK'
  <2>1. pc' \in [Tasks -> {"idle", "begin", "wait", "prepare", "park", "parked", "drain"}]
    BY <1>4 DEF CompletionIInv, TypeOK
  <2>2. timer' \in [Tasks -> {"idle", "armed", "firing", "notified"}]
    BY <1>4 DEF CompletionIInv, TypeOK
  <2>3. mode' \in [Tasks -> Modes \cup {None}] /\ expired' \subseteq Tasks
    BY <1>7 DEF CompletionIInv, TypeOK
  <2>4. lock' \in Tasks \cup {None} BY <1>4
  <2> QED BY <1>1, <1>2, <1>8, <2>1, <2>2, <2>3, <2>4, ZenonT(40) DEF CompletionIInv, TypeOK
<1>10. ListInv' BY <1>1, <1>2, <1>4 DEF CompletionIInv, TypeOK, ListInv, Asleep
<1>11. LockInv' BY <1>2, <1>4, <1>6, StateFacts DEF CompletionIInv, TypeOK, LockInv
<1>12. LookersInv'
  <2>1. /\ Awake' = Awake \ {t} /\ IsFiniteSet(Awake') /\ Cardinality(Awake) \in Nat
        /\ Cardinality(Awake') \in Nat /\ Cardinality(Awake') >= Cardinality(Awake) - 1
    <3>1. Awake' = Awake \ {t} BY <1>1, <1>2 DEF Awake
    <3>2. /\ IsFiniteSet(Awake') /\ Cardinality(Awake') = IF t \in Awake
            THEN Cardinality(Awake) - 1 ELSE Cardinality(Awake)
      BY <3>1, AwakeFacts, FS_RemoveElement
    <3>3. Cardinality(Awake) \in Nat /\ Cardinality(Awake') \in Nat
      BY <3>2, AwakeFacts, FS_CardinalityType
    <3> QED BY <3>1, <3>2, <3>3
  <2>2. CASE done = 0 /\ done' = done BY <2>1, <2>2 DEF LookersInv
  <2>3. CASE TakeCompletion
    <3> SUFFICES ASSUME NEW u \in Tasks, Asleep(u)' PROVE done' <= Cardinality(Awake')
      BY DEF LookersInv
    <3>1. Asleep(u) BY <1>2 DEF Asleep
    <3>2. done # DoneMax /\ done \in 0 .. DoneMax /\ DoneMax \in Nat BY <3>1, AwakeFacts
    <3>3. done' = done - 1 BY <2>3, <3>2, TakeFacts
    <3>4. done <= Cardinality(Awake) BY <3>1 DEF CompletionIInv, LookersInv
    <3> QED BY <2>1, <3>2, <3>3, <3>4
  <2> QED BY <1>5, <2>2, <2>3
<1>13. TimerInv'
  <2>1. ASSUME NEW u \in Tasks \ {t}
        PROVE  /\ pc'[u] = pc[u] /\ mode'[u] = mode[u] /\ timer'[u] = timer[u]
               /\ u \in expired' <=> u \in expired
    BY <1>4, <1>7 DEF CompletionIInv, TypeOK
  <2>2. pc'[t] = l BY <1>4, ZenonT(40) DEF CompletionIInv, TypeOK
  <2>3. CASE l = "idle"
    <3>1. timer'[t] = "idle" BY <1>4, <2>3, ZenonT(40) DEF CompletionIInv, TimerInv
    <3> QED BY <1>2, <2>1, <2>2, <2>3, <3>1, ZenonT(40) DEF CompletionIInv, TimerInv, Asleep
  <2>4. CASE l = "drain"
    <3>1. timer'[t] = timer[t] /\ mode'[t] = mode[t] /\ mode[t] = "UNTIL"
      BY <1>4, <1>7, <2>4, ZenonT(40)
    <3> QED BY <1>2, <2>1, <2>2, <2>4, <3>1, ZenonT(40) DEF CompletionIInv, TimerInv, Asleep
  <2>5. CASE l = "prepare"
    <3>1. mode[t] = "UNTIL" => t \notin expired BY <1>4, <2>5, ZenonT(40) DEF GivesUp
    <3>2. mode[t] = "UNTIL" => timer'[t] = "armed"
      BY <1>2, <1>4, <2>5, <3>1, ZenonT(40) DEF CompletionIInv, TypeOK, TimerInv
    <3>3. mode[t] # "UNTIL" => timer'[t] = "idle"
      BY <1>4, <2>5 DEF CompletionIInv, TimerInv
    <3>4. mode'[t] = mode[t] BY <1>7, <2>5
    <3> QED BY <1>2, <2>1, <2>2, <2>5, <3>2, <3>3, <3>4 DEF CompletionIInv, TimerInv, Asleep
  <2> QED BY <1>4, <2>3, <2>4, <2>5, ZenonT(40)
<1> QED BY <1>8, <1>9, <1>10, <1>11, <1>12, <1>13, ZenonT(40) DEF CompletionIInv

\* prepare_to_wait_locked: the counter is still zero, and the callback of the
\* timer has not run.
LEMMA WaitPrepareKeeps ==
  ASSUME CompletionAssumption, CompletionIInv, NEW t \in Tasks, WaitPrepare(t)
  PROVE  CompletionIInv'
<1>1. /\ waiters' \in Seq(Tasks) /\ Distinct(waiters')
      /\ Elems(waiters') = Elems(waiters) \cup {t} /\ Elems(waiters) \subseteq Tasks
  BY PrepareFacts, ElemsFacts, ZenonT(40) DEF CompletionIInv, TypeOK, ListInv, WaitPrepare
<1>2. /\ state' = [state EXCEPT ![t] = SleepState(mode[t])] /\ SleepState(mode[t]) \in Sleeps
      /\ pc[t] = "prepare" /\ pc' = [pc EXCEPT ![t] = "park"]
      /\ done = 0 /\ lock = t /\ lock' = None
      /\ UNCHANGED <<done, sig, owed, mode, timer, expired, given, taken>>
  BY StateFacts, ZenonT(40) DEF CompletionIInv, TimerInv, LockInv, WaitPrepare, sigVars, timerVars
<1>3. TypeOK' BY <1>1, <1>2 DEF CompletionIInv, TypeOK
<1>4. ListInv' BY <1>1, <1>2 DEF CompletionIInv, TypeOK, ListInv, Asleep
<1>5. LockInv' BY <1>2, StateFacts DEF CompletionIInv, TypeOK, LockInv
<1>6. CountInv' BY <1>2 DEF CompletionIInv, CountInv, Conservation
<1>7. LookersInv'
  <2>1. Awake' \subseteq Tasks BY <1>1 DEF Awake
  <2>2. Cardinality(Awake') \in Nat
    BY <2>1, FS_Subset, FS_CardinalityType DEF CompletionAssumption
  <2>3. done' = 0 BY <1>2, ZenonT(40)
  <2> QED BY <2>2, <2>3 DEF LookersInv
<1>8. TimerInv'
  <2>1. \A u \in Tasks \ {t} : pc'[u] = pc[u] /\ Asleep(u)' = Asleep(u)
    BY <1>2 DEF CompletionIInv, TypeOK, Asleep
  <2>2. pc'[t] = "park" BY <1>2, ZenonT(40) DEF CompletionIInv, TypeOK
  <2> QED BY <1>2, <2>1, <2>2 DEF CompletionIInv, TimerInv
<1> QED BY <1>3, <1>4, <1>5, <1>6, <1>7, <1>8, ZenonT(40) DEF CompletionIInv

\* sched_park: the task that does not sleep keeps its entry, and looks again.
LEMMA SchedParkKeeps ==
  ASSUME CompletionAssumption, CompletionIInv, NEW t \in Tasks, SchedPark(t)
  PROVE  CompletionIInv'
<1>1. /\ pc[t] = "park" /\ t \in Elems(waiters) /\ Elems(waiters) \subseteq Tasks
      /\ UNCHANGED <<done, waiters, lock, sig, owed, mode, timer, expired, given, taken>>
      /\ Elems(waiters') = Elems(waiters)
  BY AwakeFacts DEF CompletionIInv, ListInv, SchedPark, sigVars, timerVars
<1>2. /\ state' \in [Tasks -> Sleeps \cup {"RUNNABLE"}]
      /\ \A u \in Tasks : state'[u] = state[u] \/ state'[u] = "RUNNABLE"
  BY DEF SchedPark, CompletionIInv, TypeOK
<1>3. /\ pc' = [pc EXCEPT ![t] = pc'[t]] /\ pc'[t] \in {"wait", "parked"}
      /\ Asleep(t)' => pc'[t] = "parked"
  BY StateFacts DEF SchedPark, CompletionIInv, TypeOK, Asleep
<1>4. \A u \in Tasks : Asleep(u)' => Asleep(u) BY <1>2, StateFacts, ZenonT(40) DEF Asleep
<1>5. Awake' \subseteq Tasks /\ Awake \subseteq Awake' BY <1>1, <1>2 DEF Awake
<1>6. \A u \in Tasks \ {t} : pc'[u] = pc[u] BY <1>3 DEF CompletionIInv, TypeOK
<1>7. TypeOK' BY <1>1, <1>2, <1>3 DEF CompletionIInv, TypeOK
<1>8. ListInv' BY <1>1, <1>3, <1>4, <1>6 DEF CompletionIInv, ListInv
<1>9. LockInv' BY <1>1, <1>3, <1>6 DEF CompletionIInv, LockInv
<1>10. CountInv' BY <1>1 DEF CompletionIInv, CountInv, Conservation
<1>11. LookersInv'
  <2>1. done' \in Nat /\ done' <= done BY <1>1, AwakeFacts
  <2> QED BY <1>4, <1>5, <2>1, LookersKeep
<1>12. TimerInv' BY <1>1, <1>3, <1>4, <1>6 DEF CompletionIInv, TimerInv
<1> QED BY <1>7, <1>8, <1>9, <1>10, <1>11, <1>12 DEF CompletionIInv

\* A wait is called, or returns after timer_cancel_sync.
LEMMA CallReturnKeeps ==
  ASSUME CompletionAssumption, CompletionIInv, NEW t \in Tasks,
         Drain(t) \/ \E m \in Modes : WaitForCompletion(t, m)
  PROVE  CompletionIInv'
<1>1. /\ UNCHANGED <<done, waiters, lock, state, sig, owed, given, taken>>
      /\ pc[t] \in {"idle", "drain"} /\ pc' = [pc EXCEPT ![t] = pc'[t]]
      /\ pc'[t] \in {"idle", "begin"} /\ mode' \in [Tasks -> Modes \cup {None}]
      /\ mode' = [mode EXCEPT ![t] = mode'[t]]
      /\ pc'[t] = "begin" => mode'[t] \in Modes
      /\ expired' \subseteq expired /\ expired \ {t} \subseteq expired'
      /\ timer' = [timer EXCEPT ![t] = "idle"]
  <2>1. CASE Drain(t)
    BY <2>1 DEF Drain, Frame, CompletionIInv, TypeOK, sigVars
  <2>2. ASSUME NEW m \in Modes, WaitForCompletion(t, m)
        PROVE  /\ UNCHANGED <<done, waiters, lock, state, sig, owed, given, taken, expired, timer>>
               /\ pc[t] = "idle" /\ pc' = [pc EXCEPT ![t] = "begin"]
               /\ mode' = [mode EXCEPT ![t] = m]
    BY <2>2 DEF WaitForCompletion, sigVars, timerVars
  <2>3. pc[t] = "idle" => timer[t] = "idle" BY ZenonT(40) DEF CompletionIInv, TimerInv
  <2> QED BY <2>1, <2>2, <2>3 DEF CompletionIInv, TypeOK
<1>2. /\ t \notin Elems(waiters) /\ ~Asleep(t)
      /\ \A u \in Tasks : Asleep(u)' = Asleep(u)
      /\ Awake' = Awake /\ Elems(waiters') = Elems(waiters)
  BY <1>1 DEF CompletionIInv, ListInv, Asleep, Awake
<1>3. \A u \in Tasks \ {t} : /\ pc'[u] = pc[u] /\ mode'[u] = mode[u] /\ timer'[u] = timer[u]
                             /\ u \in expired' <=> u \in expired
  BY <1>1 DEF CompletionIInv, TypeOK
<1>4. timer'[t] = "idle" BY <1>1 DEF CompletionIInv, TypeOK
<1>5. TypeOK' BY <1>1 DEF CompletionIInv, TypeOK
<1>6. ListInv' BY <1>1, <1>2, <1>3, AwakeFacts DEF CompletionIInv, ListInv
<1>7. LockInv' BY <1>1, <1>3 DEF CompletionIInv, LockInv
<1>8. CountInv' BY <1>1 DEF CompletionIInv, CountInv, Conservation
<1>9. LookersInv' BY <1>1, <1>2, ZenonT(40) DEF CompletionIInv, LookersInv
<1>10. TimerInv' BY <1>1, <1>2, <1>3, <1>4 DEF CompletionIInv, TimerInv
<1> QED BY <1>5, <1>6, <1>7, <1>8, <1>9, <1>10, ZenonT(40) DEF CompletionIInv

\* The inductive invariant of a completion, for any tasks, range of the counter
\* and number of calls of complete.
THEOREM CompletionInvariant ==
  ASSUME CompletionAssumption
  PROVE  Spec => []CompletionIInv
<1>1. Init => CompletionIInv BY CompletionInit
<1>2. CompletionIInv /\ [Next]_vars => CompletionIInv'
  <2> SUFFICES ASSUME CompletionIInv, [Next]_vars PROVE CompletionIInv' BY ZenonT(40)
  <2>1. CASE UNCHANGED vars
    BY <2>1 DEF vars, sigVars, waitVars, timerVars, CompletionIInv, TypeOK, ListInv, LockInv,
                CountInv, Conservation, LookersInv, Awake, TimerInv, Asleep
  <2>2. CASE Complete \/ CompleteAll \/ ReinitCompletion \/ TryWait
    BY <2>2, CompleteKeeps, CompleteAllKeeps, ReinitKeeps, TryWaitKeeps
  <2>3. ASSUME NEW t \in Tasks,
               \/ \E m \in Modes : WaitForCompletion(t, m)
               \/ WaitStep(t) \/ TimerStep(t) \/ Expire(t)
               \/ \E bits \in Signals : SendSignal(t, bits) \/ SchedWakeSignal(t, bits)
               \/ GetSignal(t)
        PROVE  CompletionIInv'
    BY <2>3, WaitTopKeeps, WaitPrepareKeeps, SchedParkKeeps, CallReturnKeeps, TimerKeeps,
       SignalKeeps DEF WaitStep
  <2> QED BY <2>1, <2>2, <2>3 DEF Next
<1> QED BY <1>1, <1>2, PTL DEF Spec

\* kernel/completion.c, for any number of tasks, with signals, deadlines and
\* complete_all at any time: a completion is taken once or still counted, while a
\* task sleeps every available one has an awake waiter of its own, a timed wait
\* sleeps only under a timer that will wake it, and a wait that has returned is on
\* no list and has no timer.
THEOREM CompletionCorrect ==
  ASSUME CompletionAssumption
  PROVE  Spec => []CompletionInv
<1>1. CompletionIInv => CompletionInv BY CompletionIInvImplies
<1> QED BY <1>1, CompletionInvariant, PTL
=============================================================================
