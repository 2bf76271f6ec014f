-------------------------------- MODULE Tty --------------------------------
(***************************************************************************)
(* The input side of the terminal, drivers/tty/tty.c: tty_task takes       *)
(* characters from the UART (module Uart) through the line discipline into *)
(* the buffer of the terminal, readers take lines out of it, and TCSETS    *)
(* changes the mode at any time.  A step is a critical section of          *)
(* rwait.lock, or a copy between two of them.  The mutex rlock keeps       *)
(* MutexSpec.                                                              *)
(***************************************************************************)
EXTENDS Integers, Sequences, FiniteSets

CONSTANTS
  Readers,     \* the tasks of tty_read
  TtySize,     \* PAGE_SIZE
  Range,       \* the range of the counters, 2^32 in the code
  Typed,       \* the characters that are typed, of {"a", "nl", "cr", "erase"}
  MaxCount,    \* the longest read
  Modes,       \* the values of termios: [canon, icrnl]
  NoOne

VARIABLES
  char,      \* the character tty_task has read
  tty,       \* struct tty: head, tail, canon, buffer
  mode,      \* tty.termios
  asleep,    \* the waiters of rwait that are not RUNNABLE
  rlock,     \* who holds it
  rd,        \* the calls of tty_read
  stream,    \* history: the characters that were accepted and not read yet
  mixed      \* history: a reader was given other characters than the first of stream

ttyVars == <<char, tty, mode, asleep, rlock, rd, stream, mixed>>

NoRead == [pc |-> "idle", left |-> 0, count |-> 0, line |-> FALSE, some |-> FALSE]
Free == "free"

TtyInit ==
  /\ char = Free
  /\ tty = [head |-> 0, tail |-> 0, canon |-> 0, buffer |-> [i \in 0 .. TtySize - 1 |-> Free]]
  /\ mode \in Modes
  /\ asleep = {} /\ rlock = NoOne
  /\ rd = [r \in Readers |-> NoRead]
  /\ stream = <<>> /\ mixed = FALSE

Less(a, b) == IF a <= b THEN a ELSE b
Diff(a, b) == (a - b + Range) % Range

-----------------------------------------------------------------------------
(* tty_task and tty_receive.                                               *)

\* ns16550a_read returned a character.
TtyTask(c) ==
  /\ char = Free /\ char' = c
  /\ UNCHANGED <<tty, mode, asleep, rlock, rd, stream, mixed>>

Used == Diff(tty.head, tty.tail)

\* Faulty variant: the last place of the buffer takes any character.
AcceptsAny(c) == Used < TtySize

\* The last place of the buffer is kept for a newline.
Accepts(c) == Used < TtySize /\ (Used < TtySize - 1 \/ c = "nl")

\* Faulty variant: the erase character also takes back a line that is complete.
ErasableAll == tty.head # tty.tail

Erasable == tty.head # tty.canon

\* VERASE in canonical mode: the last character of the line that is typed goes.
Erase ==
  IF ~Erasable THEN UNCHANGED <<tty, stream>>
  ELSE /\ tty' = [tty EXCEPT !.head = Diff(@, 1), !.buffer[Diff(tty.head, 1) % TtySize] = Free]
       /\ stream' = SubSeq(stream, 1, Len(stream) - 1)

\* Another character is stored if there is room.
Store(c) ==
  LET head == (tty.head + 1) % Range
      ready == ~mode.canon \/ c = "nl"
  IN
  IF ~Accepts(c) THEN UNCHANGED <<tty, stream, asleep>>
  ELSE /\ tty' = [tty EXCEPT !.buffer[tty.head % TtySize] = c, !.head = head,
                             !.canon = IF ready THEN head ELSE @]
       /\ stream' = Append(stream, c)
       /\ asleep' = IF ready THEN asleep \ Readers ELSE asleep

\* The echo that follows is output (module Uart).
TtyReceive ==
  LET c == IF mode.icrnl /\ char = "cr" THEN "nl" ELSE char IN
  /\ char # Free /\ char' = Free
  /\ IF mode.canon /\ c = "erase" THEN Erase /\ UNCHANGED asleep ELSE Store(c)
  /\ UNCHANGED <<mode, rlock, rd, mixed>>

-----------------------------------------------------------------------------
(* tty_read.                                                               *)

HasLine == tty.tail # tty.canon

Goto(r, pc) == rd' = [rd EXCEPT ![r].pc = pc]
rdRest == <<char, mode>>

ReadCall(r, n) ==
  /\ rd[r].pc = "idle"
  /\ rd' = [rd EXCEPT ![r] = [NoRead EXCEPT !.pc = "wait", !.left = n]]
  /\ UNCHANGED <<rdRest, tty, asleep, rlock, stream, mixed>>

\* wait_event_interruptible, first and after every wakeup.
ReadWait(r) ==
  /\ rd[r].pc = "wait" /\ r \notin asleep
  /\ IF HasLine THEN Goto(r, "lock") /\ UNCHANGED asleep
                ELSE asleep' = asleep \cup {r} /\ UNCHANGED rd
  /\ UNCHANGED <<rdRest, tty, rlock, stream, mixed>>

\* A signal ends the wait for a line, or the wait for rlock.
ReadInterrupted(r) ==
  /\ \/ rd[r].pc = "wait" /\ ~HasLine
     \/ rd[r].pc = "lock" /\ rlock # NoOne
  /\ rd' = [rd EXCEPT ![r] = NoRead] /\ asleep' = asleep \ {r}
  /\ UNCHANGED <<rdRest, tty, rlock, stream, mixed>>

\* Faulty variant: the line another reader has taken meanwhile is not missed.
AfterLockBlind == "chunk"

\* With rlock held the condition is looked at again.
AfterLock == IF HasLine THEN "chunk" ELSE "wait"

ReadLock(r) ==
  /\ rd[r].pc = "lock" /\ rlock = NoOne
  /\ Goto(r, AfterLock)
  /\ rlock' = IF AfterLock = "chunk" THEN r ELSE NoOne
  /\ UNCHANGED <<rdRest, tty, asleep, stream, mixed>>

\* The characters from tail on.
At(k) == tty.buffer[(tty.tail + k - 1) % TtySize]

\* The next characters in one piece: committed, asked for, not past the end of
\* the buffer nor past a newline.
Count(r) ==
  LET n == Less(Less(Diff(tty.canon, tty.tail), TtySize - (tty.tail % TtySize)), rd[r].left)
      lines == {k \in 1 .. n : At(k) = "nl"}
  IN  IF lines = {} THEN n ELSE CHOOSE k \in lines : \A j \in lines : k <= j

Unlocked(r) == rd' = [rd EXCEPT ![r] = NoRead] /\ rlock' = NoOne

\* rwait.lock is dropped for the copy of Count characters.
ReadChunk(r) ==
  LET n == Count(r) IN
  /\ rd[r].pc = "chunk"
  /\ IF n = 0 THEN Unlocked(r)
     ELSE /\ rd' = [rd EXCEPT ![r].pc = "copy", ![r].count = n, ![r].line = At(n) = "nl"]
          /\ UNCHANGED rlock
  /\ UNCHANGED <<rdRest, tty, asleep, stream, mixed>>

\* copy_to_kiov moves n of them; the rest faults.
ReadCopy(r, n) ==
  LET call == rd[r] IN
  /\ call.pc = "copy" /\ n \in 0 .. call.count
  /\ mixed' = (mixed \/ \E k \in 1 .. n : k > Len(stream) \/ At(k) # stream[k])
  /\ stream' = SubSeq(stream, n + 1, Len(stream))
  /\ tty' = [tty EXCEPT !.tail = (@ + n) % Range,
               !.buffer = [i \in DOMAIN @ |->
                             IF Diff(i, tty.tail) % TtySize < n THEN Free ELSE @[i]]]
  /\ IF n < call.count \/ call.line \/ n = call.left THEN Unlocked(r)
     ELSE /\ rd' = [rd EXCEPT ![r] = [call EXCEPT !.pc = "chunk", !.left = @ - n, !.count = 0, !.some = TRUE]]
          /\ UNCHANGED rlock
  /\ UNCHANGED <<rdRest, asleep>>

-----------------------------------------------------------------------------
(* tty_ioctl: TCSETS.                                                      *)

\* Faulty variant: what was typed stays unfinished.
CanonAfterKept(m) == tty.canon

\* Without ICANON everything that was typed can be read.
CanonAfter(m) == IF m.canon THEN tty.canon ELSE tty.head

SetTermios(m) ==
  /\ mode' = m
  /\ tty' = [tty EXCEPT !.canon = CanonAfter(m)]
  /\ asleep' = IF m.canon THEN asleep ELSE asleep \ Readers
  /\ UNCHANGED <<char, rlock, rd, stream, mixed>>

-----------------------------------------------------------------------------
TtyNext ==
  \/ \E c \in Typed : TtyTask(c)
  \/ TtyReceive
  \/ \E r \in Readers :
       \/ \E n \in 1 .. MaxCount : ReadCall(r, n) \/ ReadCopy(r, n)
       \/ ReadWait(r) \/ ReadInterrupted(r) \/ ReadLock(r) \/ ReadChunk(r) \/ ReadCopy(r, 0)
  \/ \E m \in Modes : SetTermios(m)

TtySpec == TtyInit /\ [][TtyNext]_ttyVars

-----------------------------------------------------------------------------
(* Properties.                                                             *)

Ready == Diff(tty.canon, tty.tail)

\* Readers get the accepted characters in order, each once, although they copy
\* without rwait.lock while tty_receive stores and erases.  What is not yet
\* readable is the line being typed, so it holds no newline, and outside
\* canonical mode there is none.  A full buffer holds something to read: the
\* terminal cannot fill up with a line that never ends.
LineInv ==
  /\ ~mixed
  /\ Ready <= Used /\ Used <= TtySize /\ Used = Len(stream)
  /\ \A k \in 1 .. Used : At(k) = stream[k]
  /\ \A k \in Ready + 1 .. Used : mode.canon /\ stream[k] # "nl"
  /\ Used = TtySize => Ready > 0

\* A reader sleeps in tty_read only while no character is readable, and it does
\* not return without one because another reader was faster: a return of 0 would
\* look like the end of the file.
NoLostInput ==
  /\ \A r \in Readers \cap asleep : ~HasLine
  /\ \A r \in Readers : rd[r].pc = "chunk" /\ Count(r) = 0 => rd[r].some
=============================================================================
