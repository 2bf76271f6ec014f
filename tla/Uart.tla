-------------------------------- MODULE Uart --------------------------------
(***************************************************************************)
(* The UART driver, drivers/tty/ns16550a.c, with its receive queue         *)
(* (include/nuvix/kfifo.h), and what tty_write and the echo of tty_receive *)
(* (drivers/tty/tty.c) send through it.  A step is a critical section of   *)
(* rx_wait.lock; tx_lock keeps MutexSpec.                                  *)
(***************************************************************************)
EXTENDS Integers, Sequences, FiniteSets

CONSTANTS
  Writers,     \* the tasks of tty_write
  FifoSize,    \* UART_RX_FIFO_SIZE
  HwSize,      \* the receive queue of the UART itself
  Budget,      \* UART_IRQ_BUDGET
  FifoRange,   \* the range of the counters, 2^32 in the code
  TxChunk,     \* TTY_WRITE_CHUNK
  Bytes,       \* what arrives
  Datas,       \* what the writers write: sequences over {"a", "nl"}
  Echoes,      \* the echoes
  Nobody

VARIABLES
  hw,        \* the receive queue of the UART
  fifo,      \* rx_fifo: in, out and data
  rxwake,    \* the interrupt handler is about to call wake_up_all
  rxsleep,   \* tty_task sleeps on rx_wait
  taken,     \* history: the bytes that were queued and not taken, and the last one taken
  echo,      \* what tty_task has still to echo
  txlock,    \* who holds it
  wr         \* the calls of tty_write

rxVars == <<hw, fifo, rxwake, rxsleep, taken>>
uartVars == <<rxVars, echo, txlock, wr>>

NoByte == "none"
NoWrite == [pc |-> "idle", data |-> <<>>, done |-> 0, out |-> <<>>, sent |-> 0, onlcr |-> FALSE]

UartInit ==
  /\ hw = <<>> /\ rxwake = FALSE /\ rxsleep = FALSE
  /\ fifo = [in |-> 0, out |-> 0, data |-> [i \in 0 .. FifoSize - 1 |-> NoByte]]
  /\ taken = [queue |-> <<>>, byte |-> NoByte, first |-> NoByte]
  /\ echo = <<>> /\ txlock = Nobody /\ wr = [w \in Writers |-> NoWrite]

-----------------------------------------------------------------------------
(* Input.                                                                  *)

\* external: a byte arrives.
Arrive(c) ==
  /\ Len(hw) < HwSize
  /\ hw' = Append(hw, c)
  /\ UNCHANGED <<fifo, rxwake, rxsleep, taken, echo, txlock, wr>>

Length(f) == (f.in - f.out + FifoRange) % FifoRange

\* Faulty variant: the queue counts as full one byte too late.
FullLate(f) == Length(f) = FifoSize + 1

Full(f) == Length(f) = FifoSize

KfifoPut(f, c) ==
  IF Full(f) THEN f
  ELSE [f EXCEPT !.data[f.in % FifoSize] = c, !.in = (@ + 1) % FifoRange]

KfifoOut(f) ==
  [f EXCEPT !.data[f.out % FifoSize] = NoByte, !.out = (@ + 1) % FifoRange]

\* Faulty variant: the waiters are woken if the queue was empty at the end only.
QueuedFirst(n) == n = 1 /\ fifo.in = fifo.out

\* Some byte was queued.
Queued(n) == n > 0 /\ ~Full(fifo)

\* ns16550a_irq with ns16550a_receive: within its budget, of which the read of
\* the cause takes one, it empties the UART; bytes that find the queue full are
\* counted and lost.
NsIrq ==
  LET n == IF Len(hw) < Budget THEN Len(hw) ELSE Budget - 1
      put[i \in 0 .. n] == IF i = 0 THEN fifo ELSE KfifoPut(put[i - 1], hw[i])
      new == Length(put[n]) - Length(fifo)
  IN
  /\ hw # <<>> /\ ~rxwake
  /\ hw' = SubSeq(hw, n + 1, Len(hw))
  /\ fifo' = put[n]
  /\ rxwake' = Queued(n)
  /\ taken' = [taken EXCEPT !.queue = @ \o SubSeq(hw, 1, new)]
  /\ UNCHANGED <<rxsleep, echo, txlock, wr>>

\* wake_up_all(&port->rx_wait), in a critical section of its own.
NsIrqWake ==
  /\ rxwake
  /\ rxwake' = FALSE /\ rxsleep' = FALSE
  /\ UNCHANGED <<hw, fifo, taken, echo, txlock, wr>>

\* ns16550a_read of one byte by tty_task: the condition of the wait takes it.
NsRead ==
  /\ echo = <<>> /\ ~rxsleep
  /\ IF fifo.in = fifo.out THEN rxsleep' = TRUE /\ UNCHANGED <<fifo, taken, echo>>
     ELSE /\ fifo' = KfifoOut(fifo)
          /\ taken' = [queue |-> Tail(taken.queue), first |-> Head(taken.queue),
                       byte |-> fifo.data[fifo.out % FifoSize]]
          /\ echo' \in Echoes
          /\ UNCHANGED rxsleep
  /\ UNCHANGED <<hw, rxwake, txlock, wr>>

-----------------------------------------------------------------------------
(* Output.                                                                 *)

\* The echo of tty_receive: no signal interrupts the task.
EchoLock ==
  /\ echo # <<>> /\ txlock = Nobody
  /\ txlock' = "echo"
  /\ UNCHANGED <<rxVars, echo, wr>>

EchoOut ==
  /\ txlock = "echo"
  /\ echo' = Tail(echo)
  /\ txlock' = IF Len(echo) = 1 THEN Nobody ELSE txlock
  /\ UNCHANGED <<rxVars, wr>>

\* tty_opost.
Opost(onlcr, c) == IF onlcr /\ c = "nl" THEN <<"cr", "nl">> ELSE <<c>>

\* The bytes of a piece of output.
Expand(onlcr, s) ==
  LET upto[k \in 0 .. Len(s)] == IF k = 0 THEN <<>> ELSE upto[k - 1] \o Opost(onlcr, s[k])
  IN  upto[Len(s)]

\* What the call puts through the UART next, at most TxChunk characters.
Piece(c) ==
  SubSeq(c.data, c.done + 1, IF Len(c.data) < c.done + TxChunk THEN Len(c.data) ELSE c.done + TxChunk)

\* tty_write: c_oflag is read once.
WriteCall(w, data, onlcr) ==
  /\ wr[w].pc = "idle"
  /\ wr' = [wr EXCEPT ![w] = [NoWrite EXCEPT !.pc = "lock", !.data = data, !.onlcr = onlcr]]
  /\ UNCHANGED <<rxVars, echo, txlock>>

\* ns16550a_write: mutex_lock_interruptible.
WriteLock(w) ==
  /\ wr[w].pc = "lock"
  /\ \/ txlock = Nobody /\ txlock' = w /\ wr' = [wr EXCEPT ![w].pc = "send"]
     \/ txlock # Nobody /\ UNCHANGED txlock /\ wr' = [wr EXCEPT ![w].pc = "return"]
  /\ UNCHANGED <<rxVars, echo>>

\* ns16550a_transmit of the next byte.
Transmit(w) ==
  LET c == wr[w]
      bytes == Expand(c.onlcr, Piece(c))
  IN
  /\ c.pc = "send" /\ c.sent < Len(bytes)
  /\ wr' = [wr EXCEPT ![w].sent = @ + 1, ![w].out = Append(@, bytes[c.sent + 1])]
  /\ UNCHANGED <<rxVars, echo, txlock>>

\* Faulty variant: a character counts as soon as its first byte is out.
ConsumedBegun(c) ==
  Cardinality({k \in 1 .. Len(Piece(c)) : Len(Expand(c.onlcr, SubSeq(Piece(c), 1, k - 1))) < c.sent})

\* The characters of the piece of which every byte is out.
Consumed(c) ==
  Cardinality({k \in 1 .. Len(Piece(c)) : Len(Expand(c.onlcr, SubSeq(Piece(c), 1, k))) <= c.sent})

\* ns16550a_write returns: all bytes are out, or a signal came while the UART
\* was busy.  tty_write goes on after a complete piece.
WriteSent(w) ==
  LET c == wr[w]
      n == Consumed(c)
      done == c.done + n
  IN
  /\ c.pc = "send"
  /\ txlock' = Nobody
  /\ wr' = [wr EXCEPT ![w] = [c EXCEPT !.done = done, !.sent = 0,
              !.pc = IF n < Len(Piece(c)) \/ done = Len(c.data) THEN "return" ELSE "lock"]]
  /\ UNCHANGED <<rxVars, echo>>

WriteReturn(w) ==
  /\ wr[w].pc = "return"
  /\ wr' = [wr EXCEPT ![w] = NoWrite]
  /\ UNCHANGED <<rxVars, echo, txlock>>

-----------------------------------------------------------------------------
UartNext ==
  \/ \E c \in Bytes : Arrive(c)
  \/ NsIrq \/ NsIrqWake \/ NsRead \/ EchoLock \/ EchoOut
  \/ \E w \in Writers :
       \/ \E data \in Datas, onlcr \in BOOLEAN : WriteCall(w, data, onlcr)
       \/ WriteLock(w) \/ Transmit(w) \/ WriteSent(w) \/ WriteReturn(w)

UartSpec == UartInit /\ [][UartNext]_uartVars

-----------------------------------------------------------------------------
(* Properties.                                                             *)

\* ns16550a_read returns the queued bytes in order, each once, whatever the
\* counters of the kfifo have wrapped to; and tty_task sleeps only while the
\* queue is empty or the interrupt handler is about to wake it.
RxInv ==
  /\ taken.byte = taken.first
  /\ Length(fifo) = Len(taken.queue) /\ Length(fifo) <= FifoSize
  /\ rxsleep => fifo.in = fifo.out \/ rxwake

\* tty_write reports what went out: the bytes it has sent are those of the
\* characters it reports, and after a signal perhaps one more, the carriage
\* return of a newline that is not reported.
WriteInv ==
  \A w \in Writers : wr[w].pc = "return" =>
    LET bytes == Expand(wr[w].onlcr, SubSeq(wr[w].data, 1, wr[w].done))
    IN  wr[w].out = bytes \/ wr[w].out = Append(bytes, "cr")
=============================================================================
