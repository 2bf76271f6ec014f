------------------------------- MODULE Timer -------------------------------
(***************************************************************************)
(* One-shot timers, kernel/timer.c, and their tick, kernel/tick.c.  Each   *)
(* CPU has a base: the queued timers in the order of their deadlines, the  *)
(* earliest one cached, and the queue of tasks that wait for a running     *)
(* callback.  A step is one critical section of base->drain.lock.          *)
(*                                                                         *)
(* A timer lives on the stack of the task that uses it, which is written   *)
(* with the same name: the timer is live until timer_cancel_sync returns.  *)
(* The red-black tree is the set of the timers in state QUEUED.            *)
(***************************************************************************)
EXTENDS WaitQueue, FiniteSets

CONSTANTS Timers, Cpus, None,
          MaxTime,    \* bound: the last value of the clock
          MaxStarts   \* bound: calls of timer_start per base

ASSUME TimerAssumption == None \notin Timers /\ MaxTime \in Nat /\ MaxStarts \in Nat

VARIABLES
  now,       \* time_read()
  cpu,       \* timer.cpu_id
  tstate,    \* timer.state
  deadline,  \* timer.deadline
  seq,       \* timer.sequence
  first,     \* base.first
  nextSeq,   \* base.next_sequence
  drain,     \* base.drain.waiters
  tick,      \* the time of the timer_tick in progress on a CPU, or None
  firing,    \* the timer whose callback that tick is executing, or None
  state,     \* task.state of the owner
  pc         \* where the owner is

timerVars == <<cpu, tstate, deadline, seq>>
baseVars  == <<first, nextSeq>>
tickVars  == <<tick, firing>>
ownerVars == <<drain, state, pc>>
vars      == <<now, timerVars, baseVars, tickVars, ownerVars>>

\* timers_init; no timer is live.
Init ==
  /\ now = 0
  /\ cpu = [t \in Timers |-> None]
  /\ tstate = [t \in Timers |-> "IDLE"]
  /\ deadline = [t \in Timers |-> 0]
  /\ seq = [t \in Timers |-> 0]
  /\ first = [c \in Cpus |-> None]
  /\ nextSeq = [c \in Cpus |-> 0]
  /\ drain = [c \in Cpus |-> <<>>]
  /\ tick = [c \in Cpus |-> None]
  /\ firing = [c \in Cpus |-> None]
  /\ state = [t \in Timers |-> "RUNNABLE"]
  /\ pc = [t \in Timers |-> "idle"]

-----------------------------------------------------------------------------
(* The base.                                                               *)

Queued(c) == {t \in Timers : tstate[t] = "QUEUED" /\ cpu[t] = c}

\* t is left of u in the tree.
Before(t, u) ==
  \/ deadline[t] < deadline[u]
  \/ deadline[t] = deadline[u] /\ seq[t] < seq[u]

\* rb_next.
Successor(t) ==
  LET later == {u \in Queued(cpu[t]) : Before(t, u)} IN
  IF later = {} THEN None ELSE CHOOSE u \in later : \A v \in later \ {u} : Before(u, v)

\* The descent of timer_start never goes right.  The new timer has the highest
\* sequence number of its base.
GoesFirst(c, d) == \A u \in Queued(c) : d < deadline[u]

\* timer_start on base c of a timer that is IDLE.
TimerStart(t, c, d) ==
  /\ tstate[t] = "IDLE" /\ nextSeq[c] < MaxStarts
  /\ deadline' = [deadline EXCEPT ![t] = d]
  /\ seq' = [seq EXCEPT ![t] = nextSeq[c]]
  /\ nextSeq' = [nextSeq EXCEPT ![c] = @ + 1]
  /\ first' = IF GoesFirst(c, d) THEN [first EXCEPT ![c] = t] ELSE first
  /\ tstate' = [tstate EXCEPT ![t] = "QUEUED"]
  /\ UNCHANGED <<now, tickVars, drain, state>>

\* Faulty variant: the cached timer is not looked at.
RemoveTimerUncached(t) == UNCHANGED first

\* remove_timer_locked.
RemoveTimer(t) ==
  first' = IF first[cpu[t]] = t THEN [first EXCEPT ![cpu[t]] = Successor(t)] ELSE first

\* timer_cancel_locked.
TimerCancelLocked(t) ==
  \/ /\ tstate[t] = "QUEUED"
     /\ RemoveTimer(t)
     /\ tstate' = [tstate EXCEPT ![t] = "IDLE"]
  \/ /\ tstate[t] \in {"RUNNING", "DRAINING"}
     /\ tstate' = [tstate EXCEPT ![t] = "DRAINING"]
     /\ UNCHANGED first
  \/ /\ tstate[t] = "IDLE"
     /\ UNCHANGED <<tstate, first>>

-----------------------------------------------------------------------------
(* The owner.                                                              *)

\* timer_init for the base of CPU c, and the first timer_start.
OwnerInit(t, c, d) ==
  /\ pc[t] = "idle"
  /\ pc' = [pc EXCEPT ![t] = "live"]
  /\ cpu' = [cpu EXCEPT ![t] = c]
  /\ TimerStart(t, c, d)

\* timer_start again.  It returns -EBUSY unless the timer is IDLE.
OwnerRestart(t, d) ==
  /\ pc[t] = "live"
  /\ TimerStart(t, cpu[t], d)
  /\ UNCHANGED <<cpu, pc>>

\* timer_cancel, by anybody who knows that the timer is live.
TimerCancel(t) ==
  /\ pc[t] = "live"
  /\ TimerCancelLocked(t)
  /\ UNCHANGED <<now, cpu, deadline, seq, nextSeq, tickVars, ownerVars>>

\* The owner is at the top of the loop of timer_cancel_sync.
AtTop(t) == pc[t] \in {"live", "cancel"} \/ (pc[t] = "parked" /\ state[t] = "RUNNABLE")

\* Faulty variant: a callback that is running counts as cancelled.
MustDrainQueued(t) == tstate[t] = "DRAINING"

\* timer_cancel_locked returns -EBUSY.
MustDrain(t) == tstate[t] \in {"RUNNING", "DRAINING"}

\* One round of timer_cancel_sync.  The memory is the owner's when it returns.
TimerCancelSync(t) ==
  LET c == cpu[t] IN
  /\ AtTop(t)
  /\ TimerCancelLocked(t)
  /\ IF MustDrain(t)
     THEN /\ drain' = [drain EXCEPT ![c] = PrepareToWait(FinishWait(@, t), t)]
          /\ state' = [state EXCEPT ![t] = "UNINTERRUPTIBLE"]
          /\ pc' = [pc EXCEPT ![t] = "park"]
     ELSE /\ drain' = [drain EXCEPT ![c] = FinishWait(@, t)]
          /\ UNCHANGED state
          /\ pc' = [pc EXCEPT ![t] = "idle"]
  /\ UNCHANGED <<now, cpu, deadline, seq, nextSeq, tickVars>>

SchedPark(t) ==
  /\ pc[t] = "park"
  /\ pc' = [pc EXCEPT ![t] = IF state[t] = "RUNNABLE" THEN "cancel" ELSE "parked"]
  /\ UNCHANGED <<now, timerVars, baseVars, tickVars, drain, state>>

-----------------------------------------------------------------------------
(* The tick.                                                               *)

Advance ==
  /\ now < MaxTime
  /\ now' = now + 1
  /\ UNCHANGED <<timerVars, baseVars, tickVars, ownerVars>>

\* tick_handle reads the clock once and calls timer_tick with it.  When the next
\* tick comes is left open.
TickHandle(c) ==
  /\ tick[c] = None
  /\ tick' = [tick EXCEPT ![c] = now]
  /\ UNCHANGED <<now, timerVars, baseVars, firing, ownerVars>>

\* Faulty variant: any queued timer is taken.
DueAny(c) == first[c] # None

Due(c) == first[c] # None /\ deadline[first[c]] <= tick[c]

\* The first critical section of the loop of timer_tick.
TimerTick(c) ==
  /\ tick[c] # None /\ firing[c] = None
  /\ IF Due(c)
     THEN /\ RemoveTimer(first[c])
          /\ tstate' = [tstate EXCEPT ![first[c]] = "RUNNING"]
          /\ firing' = [firing EXCEPT ![c] = first[c]]
          /\ UNCHANGED tick
     ELSE /\ tick' = [tick EXCEPT ![c] = None]
          /\ UNCHANGED <<tstate, first, firing>>
  /\ UNCHANGED <<now, cpu, deadline, seq, nextSeq, ownerVars>>

\* Faulty variant: the waiters of the callback are not woken.
CallbackDoneQuiet(c) ==
  /\ firing[c] # None
  /\ tstate' = [tstate EXCEPT ![firing[c]] = "IDLE"]
  /\ firing' = [firing EXCEPT ![c] = None]
  /\ UNCHANGED <<now, cpu, deadline, seq, baseVars, tick, drain, pc, state>>

\* The second one, after the callback.
CallbackDone(c) ==
  LET t == firing[c] IN
  /\ t # None
  /\ tstate' = [tstate EXCEPT ![t] = "IDLE"]
  /\ state' = IF tstate[t] = "DRAINING" THEN WakeUpAll(state, drain[c]) ELSE state
  /\ firing' = [firing EXCEPT ![c] = None]
  /\ UNCHANGED <<now, cpu, deadline, seq, baseVars, tick, drain, pc>>

-----------------------------------------------------------------------------
OwnerStep(t) == TimerCancelSync(t) \/ SchedPark(t)
TickStep(c) == TickHandle(c) \/ TimerTick(c) \/ CallbackDone(c)

Next ==
  \/ Advance
  \/ \E t \in Timers :
       \/ \E d \in 1 .. MaxTime : (\E c \in Cpus : OwnerInit(t, c, d)) \/ OwnerRestart(t, d)
       \/ TimerCancel(t) \/ OwnerStep(t)
  \/ \E c \in Cpus : TickStep(c)

Spec == Init /\ [][Next]_vars

\* Every CPU keeps ticking, and an owner that has begun to cancel goes on.
FairSpec ==
  /\ Spec
  /\ \A c \in Cpus : WF_vars(TickStep(c))
  /\ \A t \in Timers : WF_vars(pc[t] # "live" /\ OwnerStep(t))

-----------------------------------------------------------------------------
\* Every variable has its type.
TypeOK ==
  /\ now \in 0 .. MaxTime
  /\ cpu \in [Timers -> Cpus \cup {None}]
  /\ tstate \in [Timers -> {"IDLE", "QUEUED", "RUNNING", "DRAINING"}]
  /\ deadline \in [Timers -> 0 .. MaxTime] /\ seq \in [Timers -> 0 .. MaxStarts]
  /\ first \in [Cpus -> Timers \cup {None}] /\ nextSeq \in [Cpus -> 0 .. MaxStarts]
  /\ drain \in [Cpus -> Seq(Timers)]
  /\ tick \in [Cpus -> 0 .. MaxTime \cup {None}] /\ firing \in [Cpus -> Timers \cup {None}]
  /\ state \in [Timers -> {"RUNNABLE", "UNINTERRUPTIBLE"}]
  /\ pc \in [Timers -> {"idle", "live", "cancel", "park", "parked"}]

\* base->first is the queued timer that expires first, the older one of two
\* with the same deadline, through every order of starts, cancels and ticks.
FirstInv ==
  /\ TypeOK
  /\ \A c \in Cpus :
       IF Queued(c) = {} THEN first[c] = None
       ELSE first[c] \in Queued(c) /\ \A u \in Queued(c) \ {first[c]} : Before(first[c], u)

\* A released timer is neither queued nor executing, on any CPU: the memory of
\* the owner's stack frame is not used after timer_cancel_sync returned.
ReleasedInv ==
  \A t \in Timers : pc[t] = "idle" => tstate[t] = "IDLE" /\ \A c \in Cpus : firing[c] # t

\* base->first is the earliest queued timer of each CPU, and a timer whose owner
\* returned from timer_cancel_sync is neither queued nor executing.
BasesInv == FirstInv /\ ReleasedInv

\* The refinement mapping.
Status(x) == CASE x = "IDLE" -> "idle" [] x = "QUEUED" -> "armed" [] OTHER -> "firing"
StatusOf == [t \in Timers |-> Status(tstate[t])]
Live == {t \in Timers : pc[t] # "idle"}

\* kernel/timer.c implements the timers of include/nuvix/timer.h.
Promise == INSTANCE TimerSpec WITH status <- StatusOf, live <- Live
TimerContract == Promise!Spec

\* timer_cancel_sync returns, whatever the tick and the other owners do.
CancelReturns == \A t \in Timers : pc[t] \in {"cancel", "park", "parked"} ~> pc[t] = "idle"
=============================================================================
