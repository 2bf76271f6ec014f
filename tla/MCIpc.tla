------------------------------- MODULE MCIpc --------------------------------
(***************************************************************************)
(* Instances for TLC of what tasks use to reach each other and the user:   *)
(* pipes (Pipe), process identifiers (Pid), the console (Tty, Uart) and    *)
(* the interrupts between CPUs (Ipi). Each behaviour is one component's;   *)
(* the others' variables keep a value that means nothing. A pipe that is   *)
(* not the one that runs stays as it was made.                             *)
(***************************************************************************)
EXTENDS Pipe, TLC

CONSTANTS Parts, Procs, InitTask, PidMax, TtyReaders, TtySize, TtyRange,
  Typed, TtyCount, TtyModes, NoOne, UartWriters, FifoSize, HwSize, Budget,
  FifoRange, TxChunk, Bytes, Datas, Echoes, Nobody, Senders

VARIABLE part    \* the component this behaviour is about

VARIABLES
  phase, pids, parent, noexec, pidmap, nextPid, refs, hashed, held, todo,
  char, tty, termios, parked, rlock, rd, typed, mixed,
  hw, fifo, rxwake, rxsleep, received, echo, txlock, wr,
  mail, ssip, sender, handler

Ids == INSTANCE Pid WITH Tasks <- Procs
Term == INSTANCE Tty WITH Modes <- TtyModes, Range <- TtyRange,
    Readers <- TtyReaders, MaxCount <- TtyCount, mode <- termios,
    asleep <- parked, stream <- typed
Port == INSTANCE Uart WITH Writers <- UartWriters, taken <- received
Ipi == INSTANCE Ipi

ASSUME PipeAssumption
ASSUME Ids!PidAssumption

FifoVars == <<head, tail, buffer, ends, owner, asleep, pc, left, done, stream,
    last, torn>>
IdsVars == <<phase, pids, parent, noexec, pidmap, nextPid, refs, hashed, held,
    todo>>
TermVars == <<char, tty, termios, parked, rlock, rd, typed, mixed>>
PortVars == <<hw, fifo, rxwake, rxsleep, received, echo, txlock, wr>>
IpiVars == <<mail, ssip, sender, handler>>
allVars == <<part, FifoVars, IdsVars, TermVars, PortVars, IpiVars>>

SomeModes == {[canon |-> TRUE, icrnl |-> TRUE], [canon |-> FALSE, icrnl |-> FALSE]}
SomeDatas == {<<"nl", "a", "nl">>, <<"nl">>}
SomeEchoes == {<<>>, <<"bs", "sp", "bs">>}

\* The variables of a component that is not the one that runs.
IdsIdle == phase = 0 /\ pids = 0 /\ parent = 0 /\ noexec = 0 /\ pidmap = 0
    /\ nextPid = 0 /\ refs = 0 /\ hashed = 0 /\ held = 0 /\ todo = 0
TermIdle == char = 0 /\ tty = 0 /\ termios = 0 /\ parked = 0 /\ rlock = 0
    /\ rd = 0 /\ typed = 0 /\ mixed = 0
PortIdle == hw = 0 /\ fifo = 0 /\ rxwake = 0 /\ rxsleep = 0 /\ received = 0
    /\ echo = 0 /\ txlock = 0 /\ wr = 0
IpiIdle == mail = 0 /\ ssip = 0 /\ sender = 0 /\ handler = 0

MCInit ==
  /\ part \in Parts
  /\ Init
  /\ IF part = "pid" THEN Ids!Init ELSE IdsIdle
  /\ IF part = "tty" THEN Term!TtyInit ELSE TermIdle
  /\ IF part = "uart" THEN Port!UartInit ELSE PortIdle
  /\ IF part = "ipi" THEN Ipi!Init ELSE IpiIdle

FifoStep == part = "pipe" /\ Next /\ UNCHANGED <<part, IdsVars, TermVars,
    PortVars, IpiVars>>
IdsStep == part = "pid" /\ Ids!Next /\ UNCHANGED <<part, FifoVars, TermVars,
    PortVars, IpiVars>>
TermStep == part = "tty" /\ Term!TtyNext /\ UNCHANGED <<part, FifoVars,
    IdsVars, PortVars, IpiVars>>
PortStep == part = "uart" /\ Port!UartNext /\ UNCHANGED <<part, FifoVars,
    IdsVars, TermVars, IpiVars>>
IpiStep == part = "ipi" /\ Ipi!Next /\ UNCHANGED <<part, FifoVars, IdsVars,
    TermVars, PortVars>>

\* A pipe may be closed, a line silent, a call the last one.
Stopped == part \in {"pipe", "tty", "uart"} /\ UNCHANGED allVars

MCNext == FifoStep \/ IdsStep \/ TermStep \/ PortStep \/ IpiStep \/ Stopped

MCSpec == MCInit /\ [][MCNext]_allVars

\* The components never meet in a behaviour, so their tasks share their names and
\* one set of permutations serves them all.
Symmetry == Permutations(Writers)

-----------------------------------------------------------------------------

(* The hash table, the bitmap and the references agree, a search for a      *)
(* number fails only when there is none, and a signal to a process, a group *)
(* or everybody reaches the processes that were found under pid_lock.       *)
HashInv == part = "pid" => Ids!HashInv /\ Ids!AllocComplete /\ Ids!TargetInv

(* A number in use is never handed out again.                               *)
FreshNumber == [][part = "pid" => Ids!FreshStep]_allVars

(* Readers get the typed line after editing, each byte once, and no reader  *)
(* sleeps over input that is ready; below that, bytes received and bytes    *)
(* written pass the serial port in order and once.                          *)
ConsoleInv ==
  /\ part = "tty" => Term!LineInv /\ Term!NoLostInput
  /\ part = "uart" => Port!RxInv /\ Port!WriteInv

(* No request to another CPU stays in its mailbox without the interrupt     *)
(* that announces it.                                                       *)
IpiInv == part = "ipi" => Ipi!IpiInv
=============================================================================
