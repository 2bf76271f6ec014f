------------------------------- MODULE Sched -------------------------------
(***************************************************************************)
(* The scheduler, kernel/sched.c: one run queue per CPU, tasks pinned to   *)
(* the CPU they were first published on, sleeping and waking from any CPU. *)
(*                                                                         *)
(* A step is one critical section of an rq.lock, or one access outside it. *)
(* The lock is free between steps, with one exception that the code is     *)
(* built around: sched_prepare_switch_locked leaves it held across         *)
(* switch_to and the next task releases it.  switching[c] is the task      *)
(* being switched out of CPU c while its lock is held that way.            *)
(*                                                                         *)
(* The idle thread of CPU c is written c.  The same name stands for the    *)
(* hard-IRQ context of CPU c, in which timers and devices wake tasks.      *)
(* Quanta are left out: a tick that expires may come at any time.  The mm  *)
(* references that travel with a switch are not part of this module, and   *)
(* of an IPI only the interrupt bit is: Ipi has the mailbox behind it, and *)
(* the panic of a sender that the firmware refuses.                        *)
(***************************************************************************)
EXTENDS Integers, Sequences, FiniteSets

CONSTANTS NrCpus,   \* nr_cpus, frozen before anything is published
          Tasks,    \* the ordinary tasks that may be created
          SigBits,  \* which signal bits of a task change in this instance
          None

Cpus == 0 .. NrCpus - 1
Threads == Tasks \cup Cpus

ASSUME NrCpusAssumption == NrCpus \in Nat \ {0}
ASSUME TasksAssumption  == Tasks \cap Cpus = {} /\ None \notin Threads
ASSUME SigBitsAssumption == SigBits \subseteq {"SIGPENDING", "SIGKILL", "STOPPENDING"}

VARIABLES
  state,       \* task.state
  cpuId,       \* task.cpu_id
  onRq,        \* task.on_rq
  onCpu,       \* task.on_cpu
  needResched, \* TF_NEED_RESCHED
  sig,         \* TF_SIGPENDING, SIGKILL in pending.signal, TF_STOPPENDING
  curr,        \* rq.curr
  ready,       \* rq.ready_list
  nrRunnable,  \* rq.nr_runnable
  nextCpu,     \* next_cpu
  switching,   \* the task leaving the CPU while rq.lock is retained, or None
  dead,        \* the zombie whose task_finish_exit the CPU is about to call
  freed,       \* tasks whose kernel stack task_finish_exit has freed
  step,        \* where a thread is in its own code
  notify,      \* the idle CPU a context has still to interrupt, or None
  ssip         \* the software interrupt pending bit of the CPU

placeVars == <<cpuId, nextCpu>>
queueVars == <<onRq, ready, nrRunnable>>
cpuVars   == <<onCpu, curr, switching>>
exitVars  == <<dead, freed>>
ipiVars   == <<notify, ssip>>
vars      == <<state, needResched, sig, step, placeVars, queueVars, cpuVars, exitVars, ipiVars>>

Sleeps  == {"INTERRUPTIBLE", "UNINTERRUPTIBLE", "KILLABLE"}
Blocked == Sleeps \cup {"STOPPED"}
Steps   == {"run", "park", "boot", "ack", "check", "switch", "wfi", "irqon"}
States  == Blocked \cup {"NEW", "RUNNABLE", "ZOMBIE"}

Init ==
  /\ state       = [x \in Threads |-> IF x \in Cpus THEN "RUNNABLE" ELSE "NEW"]
  /\ cpuId       = [x \in Threads |-> IF x \in Cpus THEN x ELSE None]
  /\ onRq        = [x \in Threads |-> FALSE]
  /\ onCpu       = [x \in Threads |-> x \in Cpus]
  /\ needResched = [x \in Threads |-> FALSE]
  /\ sig         = [x \in Threads |-> {}]
  /\ curr        = [c \in Cpus |-> c]
  /\ ready       = [c \in Cpus |-> <<>>]
  /\ nrRunnable  = [c \in Cpus |-> 0]
  /\ nextCpu     = 0
  /\ switching   = [c \in Cpus |-> None]
  /\ dead        = [c \in Cpus |-> None]
  /\ freed       = {}
  /\ step        = [x \in Threads |-> IF x = 0 THEN "boot"
                                      ELSE IF x \in Cpus THEN "ack" ELSE "run"]
  /\ notify      = [x \in Threads |-> None]
  /\ ssip        = [c \in Cpus |-> FALSE]

-----------------------------------------------------------------------------
(* Which context executes on a CPU.                                        *)

\* CPU c is neither in the tail of a switch nor in an interrupt handler that
\* still owes an IPI: it executes its current thread.
Quiet(c) == switching[c] = None /\ dead[c] = None /\ notify[c] = None

\* The current task of c executes ordinary code of its own.
Runs(c) == Quiet(c) /\ curr[c] \in Tasks /\ step[curr[c]] = "run"

\* CPU c can take an interrupt.  The idle loop opens a window after
\* arch_cpu_idle only; a task is interrupted anywhere outside a switch.
IrqOn(c) == Quiet(c) /\ (curr[c] = c => step[c] = "irqon")

\* x may call into the scheduler from CPU c: the current task, or the hard
\* IRQ context of c.
Caller(x, c) == \/ Runs(c) /\ x = curr[c] /\ notify[x] = None
                \/ IrqOn(c) /\ x = c

-----------------------------------------------------------------------------
(* Publication and wakeup.                                                 *)

\* Another context can take rq.lock of c: no switch on c is under way.
RqFree(c) == switching[c] = None

\* Faulty variant: the load of the queue is not counted.
EnqueueTaskUncounted(c, t) ==
  /\ ready' = [ready EXCEPT ![c] = Append(@, t)]
  /\ onRq'  = [onRq EXCEPT ![t] = TRUE]
  /\ needResched' = [needResched EXCEPT ![c] = @ \/ curr[c] = c]
  /\ UNCHANGED nrRunnable

\* enqueue_task, and the atomic_inc of nr_runnable both its callers add.
EnqueueTask(c, t) ==
  /\ ready' = [ready EXCEPT ![c] = Append(@, t)]
  /\ onRq'  = [onRq EXCEPT ![t] = TRUE]
  /\ needResched' = [needResched EXCEPT ![c] = @ \/ curr[c] = c]
  /\ nrRunnable' = [nrRunnable EXCEPT ![c] = @ + 1]

\* The caller x on CPU me leaves rq.lock of c owing c an IPI if c is idle.
NotifyIdle(x, me, c) ==
  notify' = [notify EXCEPT ![x] = IF curr[c] = c /\ c # me THEN c ELSE None]

\* The number of CPUs that select_cpu looks at before c.
Turn(c) == (c - nextCpu + NrCpus) % NrCpus

\* select_cpu returns c when it sampled these loads: a least loaded CPU, the
\* first one in the round that starts at next_cpu.
SelectCpu(c, load) ==
  \A d \in Cpus : \/ load[c] < load[d]
                  \/ load[c] = load[d] /\ Turn(c) <= Turn(d)

\* The loads are read one by one while other CPUs change them, so that the
\* sample need not be a state the run queues were ever in together.
Samples == [Cpus -> 0 .. Cardinality(Tasks)]

\* Where the next round of select_cpu starts.
NextCpu(c) == IF c + 1 = NrCpus THEN 0 ELSE c + 1

\* sched_publish, called by a task or by CPU 0 before its idle loop.
SchedPublish(x, me, t) ==
  /\ \/ Caller(x, me) /\ x \in Tasks
     \/ x = 0 /\ me = 0 /\ Quiet(0) /\ curr[0] = 0 /\ step[0] = "boot"
  /\ state[t] = "NEW"
  /\ \E c \in Cpus :
       /\ \E load \in Samples : SelectCpu(c, load)
       /\ RqFree(c)
       /\ nextCpu' = NextCpu(c)
       /\ cpuId' = [cpuId EXCEPT ![t] = c]
       /\ state' = [state EXCEPT ![t] = "RUNNABLE"]
       /\ EnqueueTask(c, t)
       /\ NotifyIdle(x, me, c)
  /\ UNCHANGED <<sig, step, cpuVars, exitVars, ssip>>

\* The state masks of sched_wake, sched_wake_interruptible, sched_wake_signal
\* (for SIGKILL) and sched_resume.
WakeMasks == {Sleeps, {"INTERRUPTIBLE"}, {"INTERRUPTIBLE", "KILLABLE"}, {"STOPPED"}}

\* Faulty variants: a task is queued whether or not it has left its CPU; a
\* task with a signal pending is left to whoever delivers it.
NeedsQueueing(t) == TRUE
OffCpuUnsignalled(t) == ~onCpu[t] /\ sig[t] = {}

\* A task that has not left its CPU yet will see its state when it switches.
OffCpu(t) == ~onCpu[t]

\* wake_task when states & task->state.
WakeTask(x, me, t) ==
  LET c == cpuId[t] IN
  /\ Caller(x, me)
  /\ state[t] \in UNION WakeMasks
  /\ RqFree(c)
  /\ state' = [state EXCEPT ![t] = "RUNNABLE"]
  /\ IF OffCpu(t) THEN EnqueueTask(c, t) /\ NotifyIdle(x, me, c)
                  ELSE UNCHANGED <<queueVars, needResched, notify>>
  /\ UNCHANGED <<sig, step, placeVars, cpuVars, exitVars, ssip>>

\* cpu_send_resched after the unlock, when it raises the interrupt.  A task may be
\* preempted before it.
CpuSendResched(x) ==
  /\ notify[x] # None
  /\ x \in Tasks => \E c \in Cpus : Runs(c) /\ curr[c] = x
  /\ ssip' = [ssip EXCEPT ![notify[x]] = TRUE]
  /\ notify' = [notify EXCEPT ![x] = None]
  /\ UNCHANGED <<state, needResched, sig, step, placeVars, queueVars, cpuVars, exitVars>>

\* send_signal and recalc_sigpending change the bits under signal_lock, which
\* the scheduler never takes.
SigChange(t) ==
  /\ state[t] \notin {"NEW", "ZOMBIE"}
  /\ \E b \in SigBits :
       sig' = [sig EXCEPT ![t] = IF b \in @ THEN @ \ {b} ELSE @ \cup {b}]
  /\ UNCHANGED <<state, needResched, step, placeVars, queueVars, cpuVars, exitVars, ipiVars>>

-----------------------------------------------------------------------------
(* Switching.                                                              *)

SignalPendingState(st, t) ==
  \/ st = "INTERRUPTIBLE" /\ "SIGPENDING" \in sig[t]
  \/ st = "KILLABLE" /\ "SIGKILL" \in sig[t]

\* The state sched_prepare_switch_locked goes by: a pending signal takes the
\* current task out of the sleep it has registered.
Effective(c) ==
  IF SignalPendingState(state[curr[c]], curr[c]) THEN "RUNNABLE" ELSE state[curr[c]]

\* The two early returns of sched_prepare_switch_locked.
KeepCurrent(c, st) ==
  /\ st = "RUNNABLE"
  /\ ready[c] = <<>> \/ (curr[c] # c /\ ~needResched[curr[c]])
  /\ state' = [state EXCEPT ![curr[c]] = st]
  /\ needResched' = [needResched EXCEPT ![curr[c]] = @ /\ ready[c] # <<>>]
  /\ UNCHANGED <<queueVars, cpuVars>>

\* Faulty variant: the task that used up its quantum goes to the front.
PickFromFront(c, st) ==
  IF st = "RUNNABLE" /\ curr[c] # c THEN <<curr[c]>> \o ready[c] ELSE ready[c]

\* The queue pick_next_task takes the next task from.
PickFrom(c, st) ==
  IF st = "RUNNABLE" /\ curr[c] # c THEN Append(ready[c], curr[c]) ELSE ready[c]

\* The rest of it: requeue a task that can still run, take the head of the
\* queue or idle, and leave with rq.lock held and both tasks on_cpu.
SwitchTo(c, st) ==
  LET prev  == curr[c]
      queue == PickFrom(c, st)
      next  == IF queue = <<>> THEN c ELSE Head(queue)
  IN
  /\ st # "RUNNABLE" \/ (ready[c] # <<>> /\ (prev = c \/ needResched[prev]))
  /\ state' = [state EXCEPT ![prev] = st]
  /\ nrRunnable' = [nrRunnable EXCEPT ![c] = IF st = "RUNNABLE" THEN @ ELSE @ - 1]
  /\ needResched' = [needResched EXCEPT ![prev] = FALSE]
  /\ ready' = [ready EXCEPT ![c] = IF queue = <<>> THEN queue ELSE Tail(queue)]
  /\ onRq' = [onRq EXCEPT ![prev] = st = "RUNNABLE" /\ prev # c, ![next] = FALSE]
  /\ curr' = [curr EXCEPT ![c] = next]
  /\ onCpu' = [onCpu EXCEPT ![next] = TRUE]
  /\ switching' = [switching EXCEPT ![c] = prev]

SchedPrepareSwitch(c, st) ==
  /\ KeepCurrent(c, st) \/ SwitchTo(c, st)
  /\ UNCHANGED <<placeVars, exitVars, ipiVars>>

\* sched_finish_switch in the context of the next task: prev is off the CPU,
\* its lock is released, and a zombie is handed to task_finish_exit.
SchedFinishSwitch(c) ==
  LET prev == switching[c] IN
  /\ prev # None
  /\ onCpu' = [onCpu EXCEPT ![prev] = FALSE]
  /\ switching' = [switching EXCEPT ![c] = None]
  /\ dead' = [dead EXCEPT ![c] = IF state[prev] = "ZOMBIE" THEN prev ELSE None]
  /\ UNCHANGED <<state, needResched, sig, step, placeVars, queueVars, curr, freed, ipiVars>>

\* Faulty variant: the zombie is disposed of before the switch is finished.
TaskFinishExitEarly(c) ==
  /\ switching[c] # None /\ state[switching[c]] = "ZOMBIE"
  /\ freed' = freed \cup {switching[c]}
  /\ UNCHANGED <<state, needResched, sig, step, placeVars, queueVars, cpuVars, dead, ipiVars>>

\* task_finish_exit frees the stack the zombie was running on.
TaskFinishExit(c) ==
  /\ dead[c] # None
  /\ freed' = freed \cup {dead[c]}
  /\ dead' = [dead EXCEPT ![c] = None]
  /\ UNCHANGED <<state, needResched, sig, step, placeVars, queueVars, cpuVars, ipiVars>>

-----------------------------------------------------------------------------
(* What the current task does.                                             *)

\* sched_set_sleep_locked; preemption stays off until sched_park.
SchedSetSleep(c, st) ==
  /\ Runs(c) /\ notify[curr[c]] = None
  /\ state' = [state EXCEPT ![curr[c]] = st]
  /\ step' = [step EXCEPT ![curr[c]] = "park"]
  /\ UNCHANGED <<needResched, sig, placeVars, queueVars, cpuVars, exitVars, ipiVars>>

\* sched_stop up to its call of sched_park.
SchedStop(c) ==
  LET t == curr[c] IN
  /\ Runs(c) /\ notify[t] = None
  /\ state' = [state EXCEPT ![t] = IF "STOPPENDING" \in sig[t] THEN "STOPPED" ELSE @]
  /\ sig' = [sig EXCEPT ![t] = @ \ {"STOPPENDING"}]
  /\ step' = [step EXCEPT ![t] = "park"]
  /\ UNCHANGED <<needResched, placeVars, queueVars, cpuVars, exitVars, ipiVars>>

\* sched_park.
SchedPark(c) ==
  /\ Quiet(c) /\ curr[c] \in Tasks /\ step[curr[c]] = "park"
  /\ step' = [step EXCEPT ![curr[c]] = "run"]
  /\ SchedPrepareSwitch(c, Effective(c))
  /\ UNCHANGED sig

\* preempt_schedule and sched_irq_exit.
PreemptSchedule(c) ==
  /\ Runs(c) /\ needResched[curr[c]]
  /\ SchedPrepareSwitch(c, Effective(c))
  /\ UNCHANGED <<step, sig>>

\* sched_exit: the state changes in the critical section of the last switch.
SchedExit(c) ==
  /\ Runs(c) /\ notify[curr[c]] = None
  /\ SchedPrepareSwitch(c, "ZOMBIE")
  /\ UNCHANGED <<step, sig>>

-----------------------------------------------------------------------------
(* Interrupts and the idle loop.                                           *)

\* sched_tick of an expired quantum.
SchedTick(c) ==
  /\ IrqOn(c) /\ curr[c] \in Tasks /\ ready[c] # <<>>
  /\ needResched' = [needResched EXCEPT ![curr[c]] = TRUE]
  /\ UNCHANGED <<state, sig, step, placeVars, queueVars, cpuVars, exitVars, ipiVars>>

\* The software interrupt of cpu_send_resched is taken and acknowledged; the switch
\* that may follow is PreemptSchedule.
CpuHandleIpi(c) ==
  /\ IrqOn(c) /\ ssip[c]
  /\ ssip' = [ssip EXCEPT ![c] = FALSE]
  /\ UNCHANGED <<state, needResched, sig, step, placeVars, queueVars, cpuVars, exitVars, notify>>

\* What a step within the idle loop leaves alone.
idleOnly == <<state, needResched, sig, placeVars, queueVars, cpuVars, exitVars>>

\* The idle thread of c takes its next step.
Idles(c, from, to) ==
  /\ Quiet(c) /\ curr[c] = c /\ step[c] = from
  /\ step' = [step EXCEPT ![c] = to]

\* CPU 0 has published what it must and enters sched_task.
SchedTask == Idles(0, "boot", "ack") /\ UNCHANGED <<idleOnly, ipiVars>>

\* cpu_handle_ipi at the top of the loop, interrupts off.
IdleAck(c) ==
  /\ Idles(c, "ack", "check")
  /\ ssip' = [ssip EXCEPT ![c] = FALSE]
  /\ UNCHANGED <<idleOnly, notify>>

IdleWork(c) == ready[c] # <<>> \/ needResched[c]

\* Faulty variant: idle trusts that an IPI comes for every task queued.
IdleCheckSkipped(c) == Idles(c, "check", "wfi") /\ UNCHANGED <<idleOnly, ipiVars>>

\* The check under rq.lock.
IdleCheck(c) ==
  /\ Idles(c, "check", IF IdleWork(c) THEN "switch" ELSE "wfi")
  /\ UNCHANGED <<idleOnly, ipiVars>>

\* sched_switch from the idle loop; idle comes back to the top of the loop.
IdleSwitch(c) ==
  /\ Idles(c, "switch", "ack")
  /\ SchedPrepareSwitch(c, Effective(c))
  /\ UNCHANGED sig

\* arch_cpu_idle returns for a pending IPI, or for any other interrupt.
IdleWake(c) == Idles(c, "wfi", "irqon") /\ UNCHANGED <<idleOnly, ipiVars>>

\* local_irq_enable is over: back to local_irq_disable.
IdleIrqOff(c) == Idles(c, "irqon", "ack") /\ UNCHANGED <<idleOnly, ipiVars>>

-----------------------------------------------------------------------------
CpuStep(c) ==
  \/ \E t \in Tasks, x \in Threads : SchedPublish(x, c, t)
  \/ \E t \in Tasks, x \in Threads : WakeTask(x, c, t)
  \/ \E st \in Sleeps : SchedSetSleep(c, st)
  \/ SchedStop(c) \/ SchedPark(c) \/ PreemptSchedule(c) \/ SchedExit(c)
  \/ SchedFinishSwitch(c) \/ TaskFinishExit(c)
  \/ SchedTick(c) \/ CpuHandleIpi(c)
  \/ IdleAck(c) \/ IdleCheck(c) \/ IdleSwitch(c) \/ IdleWake(c) \/ IdleIrqOff(c)

Next ==
  \/ SchedTask
  \/ \E c \in Cpus : CpuStep(c)
  \/ \E x \in Threads : CpuSendResched(x)
  \/ \E t \in Tasks : SigChange(t)

Spec == Init /\ [][Next]_vars

\* The next step the code on CPU c takes by itself.  At most one of these is
\* possible at a time; wfi returns for a pending IPI.
Progress(c) ==
  \/ SchedFinishSwitch(c) \/ TaskFinishExit(c)
  \/ SchedPark(c) \/ PreemptSchedule(c)
  \/ IdleAck(c) \/ IdleCheck(c) \/ IdleSwitch(c) \/ (ssip[c] /\ IdleWake(c)) \/ IdleIrqOff(c)

\* Every CPU keeps executing: interrupts may delay its code but not forever, and
\* the quantum of its current task does expire.  A handler that owes an IPI
\* sends it; a task preempted before sending it is not preempted there forever.
Fairness ==
  /\ \A c \in Cpus : SF_vars(Progress(c)) /\ SF_vars(SchedTick(c))
  /\ \A x \in Threads : SF_vars(CpuSendResched(x))
  /\ WF_vars(SchedTask)

FairSpec == Spec /\ Fairness

-----------------------------------------------------------------------------
(* Properties.                                                             *)

Elems(s) == {s[i] : i \in 1 .. Len(s)}
Distinct(s) == \A i, j \in 1 .. Len(s) : s[i] = s[j] => i = j

\* Every variable has its type.
TypeOK ==
  /\ state \in [Threads -> States]
  /\ cpuId \in [Threads -> Cpus \cup {None}]
  /\ onRq \in [Threads -> BOOLEAN]
  /\ onCpu \in [Threads -> BOOLEAN]
  /\ needResched \in [Threads -> BOOLEAN]
  /\ sig \in [Threads -> SUBSET SigBits]
  /\ curr \in [Cpus -> Threads] /\ \A c \in Cpus : curr[c] \in Tasks \cup {c}
  /\ ready \in [Cpus -> Seq(Tasks)]
  /\ nrRunnable \in [Cpus -> Int]
  /\ nextCpu \in Cpus
  /\ switching \in [Cpus -> Threads \cup {None}]
  /\ dead \in [Cpus -> Tasks \cup {None}]
  /\ freed \subseteq Tasks
  /\ step \in [Threads -> Steps]
  /\ notify \in [Threads -> Cpus \cup {None}]
  /\ ssip \in [Cpus -> BOOLEAN]

\* A task sits on the ready list of its own CPU at most once, exactly when its
\* on_rq is set, and only while it is RUNNABLE and not the current task: what
\* the assertion of enqueue_task relies on.
QueueInv ==
  /\ \A c \in Cpus : Distinct(ready[c])
  /\ \A c \in Cpus, t \in Tasks : t \in Elems(ready[c]) <=> onRq[t] /\ cpuId[t] = c
  /\ \A t \in Tasks : onRq[t] => state[t] = "RUNNABLE" /\ \A c \in Cpus : curr[c] # t

\* The load a current thread adds: idle adds none.
Busy(x) == IF x \in Tasks THEN 1 ELSE 0

\* nr_runnable, which select_cpu reads without the lock, counts the ready list
\* and the ordinary current task, never idle.
LoadInv == \A c \in Cpus : nrRunnable[c] = Len(ready[c]) + Busy(curr[c])

\* A published task is only ever current on the CPU it was published on, so
\* that no task executes on two CPUs; on_cpu is set for the current thread of
\* a CPU and for the one it is being switched away from, and for no other.
OnCpuInv ==
  /\ \A t \in Tasks : cpuId[t] = None <=> state[t] = "NEW"
  /\ \A c \in Cpus :
       /\ cpuId[c] = c /\ cpuId[curr[c]] = c
       /\ switching[c] # None => cpuId[switching[c]] = c /\ switching[c] # curr[c]
  /\ \A x \in Threads : onCpu[x] <=> \E c \in Cpus : curr[c] = x \/ switching[c] = x

\* No wakeup is lost against a switch: a RUNNABLE task is queued or current,
\* whatever the interleaving of wake_task with sched_park.
NoLostTask == \A t \in Tasks : state[t] = "RUNNABLE" => onRq[t] \/ \E c \in Cpus : curr[c] = t

\* A current task that executes ordinary code is RUNNABLE: it never returns
\* from sched_park still registered as asleep.
RunsRunnable ==
  \A c \in Cpus : curr[c] \in Tasks /\ step[curr[c]] = "run" => state[curr[c]] = "RUNNABLE"

\* TF_NEED_RESCHED is only set on a current thread that has a successor
\* waiting: no request is left behind on a task that was switched out.
ReschedInv ==
  \A x \in Threads : needResched[x] => \E c \in Cpus : curr[c] = x /\ ready[c] # <<>>

\* A CPU does not wait for interrupts over work: if the idle loop is in
\* arch_cpu_idle and a task is queued, an IPI is pending or still owed.
NoSleepOverWork ==
  \A c \in Cpus : curr[c] = c /\ step[c] = "wfi" /\ ready[c] # <<>>
                   => ssip[c] \/ \E x \in Threads : notify[x] = c

\* task_finish_exit frees a kernel stack no CPU is executing on and no queue
\* will ever hand to one: the zombie is off its CPU and stays there.
FreedInv ==
  \A t \in Tasks : t \in freed \/ (\E c \in Cpus : dead[c] = t)
                   => state[t] = "ZOMBIE" /\ ~onRq[t] /\ ~onCpu[t]

\* The idle thread is always runnable, never queued, and comes back to the top
\* of its loop when it gets the CPU.
IdleInv ==
  \A c \in Cpus : state[c] = "RUNNABLE" /\ ~onRq[c] /\ (curr[c] # c => step[c] = "ack")

\* The inductive invariant: what the scheduler's bookkeeping keeps together in every
\* state, each part needed to show that a switch or a wakeup preserves another.
IInv ==
  /\ TypeOK /\ IdleInv /\ OnCpuInv /\ QueueInv /\ LoadInv
  /\ NoLostTask /\ RunsRunnable /\ ReschedInv /\ NoSleepOverWork /\ FreedInv

\* What the contract sees: the states of the ordinary tasks, and which are current.
TaskStates == [t \in Tasks |-> state[t]]
Running == {t \in Tasks : \E c \in Cpus : curr[c] = t}
Contract == INSTANCE SleepWake WITH state <- TaskStates, running <- Running

\* The scheduler keeps the contract of include/nuvix/sched.h that the sleeping
\* primitives rely on: a sleep is cancelled by a wakeup that overtakes it, a
\* woken task gets its CPU however the others sleep, wake and exit around it,
\* at most one task executes per CPU and an exited one never does.
SchedContract == Contract!Spec
=============================================================================
