------------------------------- MODULE MCEnds -------------------------------
(***************************************************************************)
(* Instances for TLC of what must end, under the fairness the code         *)
(* justifies: the start of the other CPUs (CpuBoot), a wait at a pipe      *)
(* (Pipe) and a wait for a child (TaskLife). Each behaviour is one         *)
(* component's; the others' variables keep a value that means nothing. A   *)
(* boot that is not the one that runs is over.                             *)
(***************************************************************************)
EXTENDS CpuBoot

CONSTANTS Parts, Readers, Writers, Size, W, Counts, NonBlock, Interrupts,
  Faults, None, Procs, InitTask, Calls, Signals

VARIABLE part    \* the component this behaviour is about

VARIABLES
  head, tail, buffer, ends, owner, asleep, at, left, moved, stream, last, torn,
  doing, parent, published, refs, onSched, held, mm, lender, vfork, done,
  child, waiters, lock, state, sig

Fifo == INSTANCE Pipe WITH pc <- at, done <- moved
Life == INSTANCE TaskLife WITH Tasks <- Procs, pc <- doing

ASSUME CpuBootAssumption

SmpVars == <<boot, cpu, pc, target>>
FifoVars == <<head, tail, buffer, ends, owner, asleep, at, left, moved,
    stream, last, torn>>
LifeVars == <<doing, parent, published, refs, onSched, held, mm, lender,
    vfork, done, child, waiters, lock, state, sig>>
allVars == <<part, SmpVars, FifoVars, LifeVars>>

\* The variables of a component that is not the one that runs.
SmpIdle == boot = "FAILED" /\ cpu = [c \in Cpus |-> "FAILED"]
    /\ pc = [c \in Cpus |-> "halt"] /\ target = FirstTarget
FifoIdle == head = 0 /\ tail = 0 /\ buffer = 0 /\ ends = 0 /\ owner = 0
    /\ asleep = 0 /\ at = [t \in Readers \cup Writers |-> "idle"] /\ left = 0
    /\ moved = 0 /\ stream = 0 /\ last = 0 /\ torn = 0
LifeIdle == doing = [t \in Procs |-> "none"]
    /\ parent = [t \in Procs |-> None] /\ published = {} /\ refs = 0
    /\ onSched = 0 /\ held = 0 /\ mm = 0 /\ lender = 0 /\ vfork = 0
    /\ done = 0 /\ child = [t \in Procs |-> None] /\ waiters = 0 /\ lock = 0
    /\ state = 0 /\ sig = 0

MCInit ==
  /\ part \in Parts
  /\ IF part = "cpus" THEN Init ELSE SmpIdle
  /\ IF part = "pipe" THEN Fifo!Init ELSE FifoIdle
  /\ IF part = "tasks" THEN Life!Init ELSE LifeIdle

SmpStep == part = "cpus" /\ Next /\ UNCHANGED <<part, FifoVars, LifeVars>>
FifoStep == part = "pipe" /\ Fifo!Next /\ UNCHANGED <<part, SmpVars, LifeVars>>
LifeStep == part = "tasks" /\ Life!Next /\ UNCHANGED <<part, SmpVars, FifoVars>>

\* A boot may end, well or in panic, a pipe be closed, and the CPUs idle.
Stopped == part \in {"cpus", "pipe", "tasks"} /\ UNCHANGED allVars

MCNext == SmpStep \/ FifoStep \/ LifeStep \/ Stopped

MCSpec == MCInit /\ [][MCNext]_allVars /\ Fairness /\ Fifo!Fairness /\ Life!Fairness

-----------------------------------------------------------------------------

(* Once one end of a pipe is closed, every call at the other returns, unless
   others overtake it at the mutex for ever.                                *)
CloseEndsWait == Fifo!CloseEndsWait

(* A child that exits while its parent waits for it is reaped.              *)
ExitReaped == Life!ExitReaped
=============================================================================
