------------------------------ MODULE CpuBoot ------------------------------
(***************************************************************************)
(* The start of the secondary CPUs, kernel/cpu.c: smp_init on CPU 0 starts *)
(* them through the firmware, waits until all are READY, and releases them *)
(* into the scheduler; a failure, a timeout or a panic on any CPU fails    *)
(* the boot for all.  Every atomic access to boot_state or to the state of *)
(* a CPU is a step of its own.                                             *)
(***************************************************************************)
EXTENDS Naturals, TLAPS

CONSTANTS NrCpus  \* nr_cpus

CpuBootAssumption == NrCpus \in Nat \ {0}

Cpus == 0 .. NrCpus - 1

VARIABLES boot,    \* boot_state
          cpu,     \* cpus[].state
          pc,      \* where a CPU is: "stop" once it gave up a failed boot, "halt" after a panic
          target   \* cpu_id of the loops of smp_init

vars == <<boot, cpu, pc, target>>

\* Where the loops of smp_init start.
FirstTarget == 1

Init ==
  /\ boot = "WAITING" /\ target = FirstTarget
  /\ cpu = [c \in Cpus |-> IF c = 0 THEN "STARTING" ELSE "PREPARED"]
  /\ pc = [c \in Cpus |-> IF c = 0 THEN "enter" ELSE "off"]

Goto(c, l) == pc' = [pc EXCEPT ![c] = l]

\* cpu_boot_fail.
CpuBootFail == boot' = IF boot = "WAITING" THEN "FAILED" ELSE boot

\* panic: the boot fails if it is not over, and the CPU stops.
Panic(c) == CpuBootFail /\ Goto(c, "halt") /\ UNCHANGED <<cpu, target>>

-----------------------------------------------------------------------------
(* cpu_local_ready, on every CPU.                                          *)

LocalEnter(c) ==
  /\ pc[c] = "enter"
  /\ Goto(c, IF boot = "FAILED" THEN "stop" ELSE "tick")
  /\ UNCHANGED <<boot, cpu, target>>

\* tick_cpu_init fails or arch_cpu_init follows.
LocalTick(c) ==
  /\ pc[c] = "tick"
  /\ \/ Goto(c, "commit") /\ UNCHANGED cpu
     \/ cpu' = [cpu EXCEPT ![c] = "FAILED"] /\ Goto(c, "panic")
  /\ UNCHANGED <<boot, target>>

\* Faulty variant: READY is stored over whatever the boot CPU has decided.
CommitStore(c) ==
  /\ cpu' = [cpu EXCEPT ![c] = "READY"]
  /\ Goto(c, IF c = 0 THEN "start" ELSE "spin")

\* The cmpxchg of STARTING by READY.
Commit(c) ==
  IF cpu[c] = "STARTING"
  THEN /\ cpu' = [cpu EXCEPT ![c] = "READY"]
       /\ Goto(c, IF c = 0 THEN "start" ELSE "spin")
  ELSE /\ Goto(c, "stop")
       /\ UNCHANGED cpu

LocalReady(c) == pc[c] = "commit" /\ Commit(c) /\ UNCHANGED <<boot, target>>

\* A CPU with a failed clock, or any other one, panics.
PanicStep(c) == pc[c] \notin {"off", "stop", "halt"} /\ Panic(c)

-----------------------------------------------------------------------------
(* smp_init, on CPU 0.  An error is the end of the boot: kernel_main panics. *)

\* prepare_idle_tasks runs out of memory.
PrepareFails ==
  /\ pc[0] = "enter"
  /\ CpuBootFail
  /\ Goto(0, "panic")
  /\ UNCHANGED <<cpu, target>>

StartCheck ==
  /\ pc[0] = "start"
  /\ IF target = NrCpus
     THEN Goto(0, "wait") /\ target' = FirstTarget /\ UNCHANGED cpu
     ELSE IF boot = "FAILED"
     THEN Goto(0, "panic") /\ UNCHANGED <<cpu, target>>
     ELSE /\ cpu' = [cpu EXCEPT ![target] = "STARTING"]
          /\ Goto(0, "sbi")
          /\ UNCHANGED target
  /\ UNCHANGED boot

\* arch_start_cpu: the firmware starts the hart at smp_main.
ArchStartCpu ==
  /\ pc[0] = "sbi"
  /\ pc' = [pc EXCEPT ![0] = "start", ![target] = "enter"]
  /\ target' = target + 1
  /\ UNCHANGED <<boot, cpu>>

ArchStartFails ==
  /\ pc[0] = "sbi"
  /\ cpu' = [cpu EXCEPT ![target] = "FAILED"]
  /\ CpuBootFail
  /\ Goto(0, "panic")
  /\ UNCHANGED target

\* Faulty variant: the last CPU is not waited for.
AllReadyButLast == target = NrCpus - 1

AllReady == target = NrCpus

\* One look at the state of the target.
WaitReady ==
  /\ pc[0] = "wait"
  /\ IF AllReady THEN Goto(0, "release") /\ UNCHANGED <<boot, target>>
     ELSE IF cpu[target] = "READY" THEN target' = target + 1 /\ UNCHANGED <<boot, pc>>
     ELSE Goto(0, "check") /\ UNCHANGED <<boot, target>>
  /\ UNCHANGED cpu

\* A second look, for a failure.
WaitFailed ==
  /\ pc[0] = "check"
  /\ IF boot = "FAILED" \/ cpu[target] = "FAILED"
     THEN CpuBootFail /\ Goto(0, "panic")
     ELSE Goto(0, "wait") /\ UNCHANGED boot
  /\ UNCHANGED <<cpu, target>>

\* Faulty variant: FAILED is stored over a READY that came after the last look.
GiveUpStore == [cpu EXCEPT ![target] = "FAILED"]

\* The cmpxchg of STARTING by FAILED; the target may just have become READY.
GiveUp == IF cpu[target] = "STARTING" THEN [cpu EXCEPT ![target] = "FAILED"] ELSE cpu

\* The time is over.
WaitTimeout ==
  /\ pc[0] = "check" /\ boot # "FAILED" /\ cpu[target] # "FAILED"
  /\ cpu' = GiveUp
  /\ Goto(0, "fail")
  /\ UNCHANGED <<boot, target>>

TimeoutFail ==
  /\ pc[0] = "fail"
  /\ CpuBootFail
  /\ Goto(0, "panic")
  /\ UNCHANGED <<cpu, target>>

\* Faulty variant: RUNNING is stored over a failure.
MayReleaseAlways == TRUE

MayRelease == boot = "WAITING"

\* The cmpxchg of WAITING by RUNNING, and then the rest of kernel_main.
Release ==
  /\ pc[0] = "release"
  /\ IF MayRelease THEN boot' = "RUNNING" /\ Goto(0, "sched")
     ELSE Goto(0, "panic") /\ UNCHANGED boot
  /\ UNCHANGED <<cpu, target>>

-----------------------------------------------------------------------------
\* Faulty variant: only the release ends the loop.
SpinDeaf(c) == boot = "RUNNING" /\ Goto(c, "sched")

\* The loop of smp_main.
Spin(c) ==
  \/ boot = "RUNNING" /\ Goto(c, "sched")
  \/ boot = "FAILED" /\ Goto(c, "stop")

SmpMain(c) == pc[c] = "spin" /\ Spin(c) /\ UNCHANGED <<boot, cpu, target>>

SmpInit ==
  \/ PrepareFails \/ StartCheck \/ ArchStartCpu \/ ArchStartFails
  \/ WaitReady \/ WaitFailed \/ WaitTimeout \/ TimeoutFail \/ Release

LocalStep(c) == LocalEnter(c) \/ LocalTick(c) \/ LocalReady(c) \/ SmpMain(c)

Next == SmpInit \/ \E c \in Cpus : LocalStep(c) \/ PanicStep(c)

Spec == Init /\ [][Next]_vars

\* Every CPU that was started executes; time passes while CPU 0 waits.
Fairness ==
  /\ WF_vars(SmpInit) /\ SF_vars(WaitTimeout)
  /\ \A c \in Cpus : WF_vars(LocalStep(c)) /\ WF_vars(pc[c] = "panic" /\ Panic(c))

FairSpec == Spec /\ Fairness

-----------------------------------------------------------------------------
\* Every variable has its type.
TypeOK ==
  /\ boot \in {"WAITING", "RUNNING", "FAILED"}
  /\ cpu \in [Cpus -> {"PREPARED", "STARTING", "READY", "FAILED"}]
  /\ pc \in [Cpus -> {"off", "enter", "tick", "commit", "start", "sbi", "wait", "check",
                      "fail", "release", "spin", "sched", "panic", "stop", "halt"}]
  /\ target \in 1 .. NrCpus

\* The race of cpu_boot_fail with the release has one outcome for all: when a CPU
\* runs tasks, every CPU has initialized its clock and its traps, so that select_cpu
\* and cpu_send_resched never address a dead one, and none has given up the boot, as
\* a CPU does that saw it failed.  (A CPU may still panic later, alone.)
AllOrNone ==
  /\ TypeOK
  /\ (\E c \in Cpus : pc[c] = "sched") =>
       \A c \in Cpus : cpu[c] = "READY" /\ pc[c] \in {"spin", "sched", "panic", "halt"}

\* What a race has decided stays decided: a CPU that the boot CPU timed out does not
\* become READY afterwards, one that is READY is not failed by the timeout, and
\* neither a panic nor the release takes back the outcome of the boot.
OutcomeIsFinal ==
  [][/\ boot # "WAITING" => boot' = boot
     /\ \A c \in Cpus : cpu[c] \in {"READY", "FAILED"} => cpu'[c] = cpu[c]]_vars

\* The boot ends: every CPU that was started runs tasks or stops.
BootEnds == <>[](\A c \in Cpus : pc[c] \in {"off", "sched", "stop", "halt"})

-----------------------------------------------------------------------------
(* The boot of any number of CPUs: none runs tasks before all are READY.   *)

\* Where only CPU 0 can be: in smp_init.
Starting == {"start", "sbi", "wait", "check", "fail", "release"}

\* What smp_init knows at each of its steps: no CPU from the target on has been
\* started, or had its state set; the CPUs before the target of the second loop are READY.
SmpInitKnows ==
  /\ pc[0] \in {"enter", "tick", "commit"} => target = 1
  /\ pc[0] \in {"enter", "tick", "commit", "start", "sbi"} =>
       \A c \in target .. NrCpus - 1 : pc[c] = "off"
  /\ pc[0] \in {"enter", "tick", "commit", "start"} =>
       \A c \in target .. NrCpus - 1 : cpu[c] = "PREPARED"
  /\ pc[0] = "sbi" =>
       cpu[target] = "STARTING" /\ \A c \in target .. NrCpus - 1 : c # target => cpu[c] = "PREPARED"
  /\ pc[0] \in {"sbi", "check"} => target < NrCpus
  /\ pc[0] \in {"start", "sbi", "wait", "check", "release"} => cpu[0] = "READY"
  /\ pc[0] \in {"wait", "check"} => \A c \in 0 .. target - 1 : cpu[c] = "READY"
  /\ pc[0] = "release" => \A c \in Cpus : cpu[c] = "READY"

\* A CPU that is READY has left cpu_local_ready, so nothing can fail it any
\* more, the release comes after the last of them, and a CPU gives up only a boot
\* that cannot be released any more.
ReadyInv ==
  /\ \A c \in Cpus \ {0} : pc[c] \notin Starting
  /\ \A c \in Cpus : cpu[c] = "READY" => pc[c] \notin {"off", "enter", "tick", "commit"}
  /\ \A c \in Cpus : pc[c] = "sched" => boot = "RUNNING"
  /\ \A c \in Cpus : pc[c] = "stop" => boot = "FAILED" \/ cpu[c] # "READY"
  /\ boot = "RUNNING" => pc[0] \in {"sched", "halt"} /\ \A c \in Cpus : cpu[c] = "READY"

BootIInv == TypeOK /\ ReadyInv /\ SmpInitKnows

USE SMTT(30)

\* CPU 0 exists, and the target is a CPU or the number of them.
LEMMA CpuFacts ==
  ASSUME CpuBootAssumption
  PROVE  /\ 0 \in Cpus /\ 1 \in 1 .. NrCpus
         /\ \A i \in 1 .. NrCpus : i < NrCpus => i \in Cpus /\ i # 0 /\ i + 1 \in 1 .. NrCpus
         /\ \A i \in 1 .. NrCpus : i # NrCpus => i < NrCpus
         /\ \A i \in 1 .. NrCpus : 0 .. i - 1 \subseteq Cpus /\ 0 \in 0 .. i - 1
         /\ \A i \in 1 .. NrCpus : i .. NrCpus - 1 \subseteq Cpus \ {0}
         /\ 0 .. NrCpus - 1 = Cpus /\ 0 .. 1 - 1 = {0}
         /\ Cpus = {0} \cup (1 .. NrCpus - 1)
  BY DEF CpuBootAssumption, Cpus

\* Before smp_init has started anything.
LEMMA BootInit ==
  ASSUME CpuBootAssumption, Init
  PROVE  BootIInv
  BY CpuFacts DEF Init, BootIInv, TypeOK, ReadyInv, SmpInitKnows, Starting, FirstTarget

\* A panic fails the boot only while it is WAITING.
LEMMA PanicKeeps ==
  ASSUME CpuBootAssumption, BootIInv, NEW c \in Cpus, PanicStep(c)
  PROVE  BootIInv'
  BY CpuFacts DEF BootIInv, TypeOK, ReadyInv, SmpInitKnows, Starting, PanicStep, Panic, CpuBootFail, Goto

\* cpu_local_ready and the loop of smp_main: a CPU moves its own pc, and its own
\* state only before it is READY.
LEMMA LocalKeeps ==
  ASSUME CpuBootAssumption, BootIInv, NEW c \in Cpus, LocalStep(c)
  PROVE  BootIInv'
<1>1. /\ \A d \in Cpus \ {c} : pc'[d] = pc[d] /\ cpu'[d] = cpu[d]
      /\ TypeOK' /\ UNCHANGED <<boot, target>>
  <2> USE DEF BootIInv, TypeOK, Goto
  <2>1. CASE LocalEnter(c) BY <2>1 DEF LocalEnter
  <2>2. CASE LocalTick(c)
    <3>1. CASE UNCHANGED cpu BY <2>2, <3>1 DEF LocalTick
    <3>2. CASE cpu' = [cpu EXCEPT ![c] = "FAILED"] BY <2>2, <3>2 DEF LocalTick
    <3> QED BY <2>2, <3>1, <3>2 DEF LocalTick
  <2>3. CASE LocalReady(c) BY <2>3 DEF LocalReady, Commit
  <2>4. CASE SmpMain(c) BY <2>4 DEF SmpMain, Spin
  <2> QED BY <2>1, <2>2, <2>3, <2>4 DEF LocalStep
<1>2. /\ cpu[c] = "READY" => cpu'[c] = "READY"
      /\ cpu'[c] = "READY" => pc'[c] \notin {"off", "enter", "tick", "commit"}
      /\ pc'[c] = "sched" => boot = "RUNNING"
      /\ pc'[c] = "stop" => boot = "FAILED" \/ cpu'[c] # "READY"
      /\ c # 0 => pc'[c] \notin Starting
      /\ pc'[c] \in Starting => pc'[c] = "start" /\ pc[c] = "commit" /\ cpu'[c] = "READY"
      /\ pc[c] \notin {"off", "sched", "stop", "halt"} /\ pc'[c] # "off"
      /\ pc'[c] \in {"enter", "tick", "commit"} => pc[c] \in {"enter", "tick", "commit"}
  <2> USE DEF BootIInv, TypeOK, ReadyInv, Starting, Goto
  <2>1. CASE LocalEnter(c) BY <2>1 DEF LocalEnter
  <2>2. CASE LocalTick(c)
    <3>1. CASE UNCHANGED cpu /\ Goto(c, "commit") BY <2>2, <3>1 DEF LocalTick
    <3>2. CASE cpu' = [cpu EXCEPT ![c] = "FAILED"] /\ Goto(c, "panic")
      BY <2>2, <3>2 DEF LocalTick
    <3> QED BY <2>2, <3>1, <3>2 DEF LocalTick
  <2>3. CASE LocalReady(c) BY <2>3 DEF LocalReady, Commit
  <2>4. CASE SmpMain(c) BY <2>4 DEF SmpMain, Spin
  <2> QED BY <2>1, <2>2, <2>3, <2>4 DEF LocalStep
<1>3. ReadyInv' BY <1>1, <1>2, CpuFacts, Zenon DEF BootIInv, ReadyInv
<1>4. SmpInitKnows'
  <2> USE CpuFacts DEF BootIInv, TypeOK, SmpInitKnows
  <2>1. CASE c = 0 BY <1>1, <1>2, <2>1 DEF Starting
  <2>2. CASE c # 0 BY <1>1, <1>2, <2>2
  <2> QED BY <2>1, <2>2
<1> QED BY <1>1, <1>3, <1>4 DEF BootIInv

\* The steps of smp_init.
LEMMA SmpInitKeeps ==
  ASSUME CpuBootAssumption, BootIInv, SmpInit
  PROVE  BootIInv'
<1> USE CpuFacts DEF BootIInv, TypeOK, ReadyInv, SmpInitKnows, Starting, Goto, CpuBootFail
<1>1. CASE PrepareFails BY <1>1 DEF PrepareFails
<1>2. CASE StartCheck
  <2>1. CASE target = NrCpus BY <1>2, <2>1 DEF StartCheck, FirstTarget
  <2>2. CASE target # NrCpus /\ boot = "FAILED"
    <3>1. pc' = [pc EXCEPT ![0] = "panic"] /\ UNCHANGED <<boot, cpu, target>>
      BY <1>2, <2>2 DEF StartCheck
    <3> QED BY <2>2, <3>1
  <2>3. CASE target # NrCpus /\ boot # "FAILED"
    <3>1. /\ pc[0] = "start" /\ pc' = [pc EXCEPT ![0] = "sbi"] /\ UNCHANGED <<boot, target>>
          /\ cpu' = [cpu EXCEPT ![target] = "STARTING"]
      BY <1>2, <2>3 DEF StartCheck
    <3>2. target \in Cpus /\ target # 0 /\ target < NrCpus /\ pc[target] = "off"
      BY <2>3, <3>1
    <3> QED BY <2>3, <3>1, <3>2
  <2> QED BY <2>1, <2>2, <2>3, Zenon
<1>3. CASE ArchStartCpu
  <2>1. TypeOK' BY <1>3 DEF ArchStartCpu
  <2>2. ReadyInv' BY <1>3 DEF ArchStartCpu
  <2>3. SmpInitKnows' BY <1>3 DEF ArchStartCpu
  <2> QED BY <2>1, <2>2, <2>3, Zenon
<1>4. CASE ArchStartFails BY <1>4 DEF ArchStartFails
<1>5. CASE WaitReady
  <2>1. TypeOK' BY <1>5 DEF WaitReady, AllReady
  <2>2. ReadyInv' BY <1>5 DEF WaitReady, AllReady
  <2>3. SmpInitKnows' BY <1>5 DEF WaitReady, AllReady
  <2> QED BY <2>1, <2>2, <2>3, Zenon
<1>6. CASE WaitFailed
  <2>1. TypeOK' BY <1>6 DEF WaitFailed
  <2>2. ReadyInv' BY <1>6 DEF WaitFailed
  <2>3. SmpInitKnows' BY <1>6 DEF WaitFailed
  <2> QED BY <2>1, <2>2, <2>3, Zenon
<1>7. CASE WaitTimeout
  <2>1. TypeOK' BY <1>7 DEF WaitTimeout, GiveUp
  <2>2. ReadyInv' BY <1>7 DEF WaitTimeout, GiveUp
  <2>3. SmpInitKnows' BY <1>7 DEF WaitTimeout, GiveUp
  <2> QED BY <2>1, <2>2, <2>3, Zenon
<1>8. CASE TimeoutFail BY <1>8 DEF TimeoutFail
<1>9. CASE Release BY <1>9 DEF Release, MayRelease
<1> QED BY <1>1, <1>2, <1>3, <1>4, <1>5, <1>6, <1>7, <1>8, <1>9 DEF SmpInit

\* The invariant of the boot is inductive.
THEOREM BootInvariant ==
  ASSUME CpuBootAssumption
  PROVE  Spec => []BootIInv
<1>1. Init => BootIInv BY BootInit
<1>2. BootIInv /\ [Next]_vars => BootIInv'
  <2>1. CASE Next BY <2>1, LocalKeeps, PanicKeeps, SmpInitKeeps DEF Next
  <2>2. CASE UNCHANGED vars
    BY <2>2 DEF vars, BootIInv, TypeOK, ReadyInv, SmpInitKnows
  <2> QED BY <2>1, <2>2
<1> QED BY <1>1, <1>2, PTL DEF Spec

\* However many CPUs there are, and whatever fails, panics or times out on any
\* of them: no CPU enters the scheduler before cpu_local_ready is done on all,
\* nor after one of them has given up.
THEOREM NoneBeforeAll ==
  ASSUME CpuBootAssumption
  PROVE  Spec => []AllOrNone
<1>1. BootIInv => AllOrNone
  <2> SUFFICES ASSUME BootIInv, NEW d \in Cpus, pc[d] = "sched", NEW c \in Cpus
               PROVE  cpu[c] = "READY" /\ pc[c] \in {"spin", "sched", "panic", "halt"}
    BY DEF BootIInv, AllOrNone
  <2>1. boot = "RUNNING" /\ cpu[c] = "READY" /\ pc[0] \in {"sched", "halt"}
    BY DEF BootIInv, ReadyInv
  <2>2. pc[c] \notin {"off", "enter", "tick", "commit", "stop"} /\ (c # 0 => pc[c] \notin Starting)
    BY <2>1 DEF BootIInv, ReadyInv
  <2> QED BY <2>1, <2>2 DEF BootIInv, TypeOK, Starting
<1> QED BY <1>1, BootInvariant, PTL

\* However many CPUs there are: neither the timeout and READY, nor a failure and
\* the release, overtake each other.
THEOREM OutcomesFinal ==
  ASSUME CpuBootAssumption
  PROVE  Spec => OutcomeIsFinal
<1> DEFINE Decided == /\ boot # "WAITING" => boot' = boot
                      /\ \A c \in Cpus : cpu[c] \in {"READY", "FAILED"} => cpu'[c] = cpu[c]
<1>1. ASSUME BootIInv, NEW d \in Cpus, LocalStep(d) \/ PanicStep(d)
      PROVE  Decided
  <2> USE <1>1 DEF BootIInv, TypeOK, ReadyInv
  <2>1. CASE UNCHANGED cpu /\ (boot # "WAITING" => boot' = boot) BY <2>1
  <2>2. CASE LocalTick(d) BY <2>2 DEF LocalTick
  <2>3. CASE LocalReady(d) BY <2>3 DEF LocalReady, Commit
  <2> QED BY <2>1, <2>2, <2>3 DEF LocalStep, LocalEnter, SmpMain, PanicStep, Panic, CpuBootFail
<1>2. ASSUME BootIInv, SmpInit
      PROVE  Decided
  <2> USE <1>2, CpuFacts DEF BootIInv, TypeOK, SmpInitKnows, CpuBootFail
  <2>1. CASE StartCheck
    <3>1. UNCHANGED boot /\ (UNCHANGED cpu \/ (target # NrCpus /\ pc[0] = "start"
                              /\ cpu' = [cpu EXCEPT ![target] = "STARTING"]))
      BY <2>1 DEF StartCheck
    <3>2. target # NrCpus /\ pc[0] = "start" => target \in Cpus /\ cpu[target] = "PREPARED"
      BY DEF Cpus
    <3> QED BY <3>1, <3>2
  <2>2. CASE ArchStartFails
    <3>1. target \in Cpus /\ cpu[target] = "STARTING" BY <2>2 DEF ArchStartFails
    <3> QED BY <2>2, <3>1 DEF ArchStartFails
  <2>3. CASE WaitTimeout BY <2>3 DEF WaitTimeout, GiveUp
  <2>4. CASE UNCHANGED cpu /\ (boot # "WAITING" => boot' = boot) BY <2>4
  <2> QED
    BY <2>1, <2>2, <2>3, <2>4 DEF SmpInit, PrepareFails, ArchStartCpu, WaitReady, WaitFailed,
       TimeoutFail, Release, MayRelease
<1>3. BootIInv /\ [Next]_vars => [Decided]_vars BY <1>1, <1>2 DEF Next
<1> QED BY <1>3, BootInvariant, PTL DEF Spec, OutcomeIsFinal
=============================================================================
