-------------------------------- MODULE Pipe --------------------------------
(***************************************************************************)
(* Pipes, fs/pipe.c: readers and writers of one ring buffer under a mutex  *)
(* that is dropped while they sleep on pipe.wq.  Of the mutex it assumes   *)
(* MutexSpec.  A step is a critical section of wq.lock, or a copy made     *)
(* under the mutex.  head and tail count modulo W, as unsigned int does.   *)
(***************************************************************************)
EXTENDS Integers, Sequences, FiniteSets

CONSTANTS
  Readers, Writers,  \* the tasks that use each end
  Size, W,           \* PIPE_BUF_SIZE; the range of the counters
  Counts,            \* the lengths of the reads and writes
  NonBlock,          \* may O_NONBLOCK be set?  F_SETFL sets and clears it at any time
  Interrupts,        \* may signals interrupt a call?
  Faults,            \* may a copy from or to the program stop short?
  None

Tasks == Readers \cup Writers

PipeAssumption ==
  /\ Size \in Nat \ {0} /\ W \in Nat /\ W > Size /\ W % Size = 0
  /\ Counts \subseteq Nat \ {0}
  /\ Readers \cap Writers = {} /\ None \notin Tasks

VARIABLES
  head, tail, buffer, \* of struct pipe
  ends,     \* the ends that are open: pipe.readers and pipe.writers
  owner,    \* who holds pipe.mutex
  asleep,   \* the waiters on pipe.wq that are not RUNNABLE
  pc,       \* where the task is
  left, done,  \* iov.count, and what the call has transferred
  stream,   \* history: the bytes that were written and not read yet
  last,     \* history: the task that wrote the last byte
  torn      \* history: some write of up to Size bytes was split by another one

pipeVars == <<head, tail, buffer, stream, last, torn>>
callVars == <<left, done>>
vars == <<pipeVars, ends, owner, asleep, pc, callVars>>

Init ==
  /\ head = 0 /\ tail = 0 /\ buffer = [i \in 0 .. Size - 1 |-> None]
  /\ ends = {"read", "write"} /\ owner = None /\ asleep = {}
  /\ pc = [t \in Tasks |-> "idle"]
  /\ left = [t \in Tasks |-> 0] /\ done = [t \in Tasks |-> 0]
  /\ stream = <<>> /\ last = None /\ torn = FALSE

Goto(t, l) == pc' = [pc EXCEPT ![t] = l]
Smaller(a, b) == IF a <= b THEN a ELSE b
MyEnd(t) == IF t \in Readers THEN "read" ELSE "write"

\* The call returns; the counts of a finished call are forgotten.
Return(t) ==
  /\ Goto(t, "idle")
  /\ left' = [left EXCEPT ![t] = 0] /\ done' = [done EXCEPT ![t] = 0]

\* Faulty variant: the difference is taken in a wider type.
FilledWide == head - tail

\* head - tail in unsigned arithmetic.
Filled == (head - tail + W) % W

-----------------------------------------------------------------------------
Call(t, count) ==
  /\ pc[t] = "idle" /\ MyEnd(t) \in ends
  /\ Goto(t, "lock")
  /\ left' = [left EXCEPT ![t] = count] /\ done' = [done EXCEPT ![t] = 0]
  /\ UNCHANGED <<pipeVars, ends, owner, asleep>>

\* mutex_lock_interruptible.
Lock(t) ==
  /\ pc[t] = "lock"
  /\ \/ owner = None /\ owner' = t /\ Goto(t, "check") /\ UNCHANGED callVars
     \/ Interrupts /\ owner # None /\ Return(t) /\ UNCHANGED owner
  /\ UNCHANGED <<pipeVars, ends, asleep>>

\* Faulty variant: a long write and a short one both go ahead for one byte.
NeedOne(w) == 1

\* A write of up to Size bytes waits until it fits.
Need(w) == IF left[w] + done[w] <= Size THEN left[w] ELSE 1

Room(w) == Size - Filled >= Need(w)

\* What the task waits for.
Condition(t) ==
  IF t \in Readers THEN head # tail \/ "write" \notin ends
                   ELSE "read" \notin ends \/ Room(t)

\* wait_event_interruptible, evaluated when it is called and after every wakeup.
WaitEvent(t) ==
  /\ pc[t] = "wait" \/ (pc[t] = "sleep" /\ t \notin asleep)
  /\ \/ Condition(t) /\ Goto(t, "lock") /\ UNCHANGED <<asleep, callVars>>
     \/ ~Condition(t) /\ asleep' = asleep \cup {t} /\ Goto(t, "sleep") /\ UNCHANGED callVars
  /\ UNCHANGED <<pipeVars, ends, owner>>

\* A signal ends the wait.
Interrupted(t) ==
  /\ Interrupts /\ pc[t] \in {"wait", "sleep"} /\ ~Condition(t)
  /\ asleep' = asleep \ {t}
  /\ Return(t)
  /\ UNCHANGED <<pipeVars, ends, owner>>

\* Neither end can go on: O_NONBLOCK returns, others drop the mutex and wait.
Block(t) ==
  /\ owner' = None
  /\ \/ NonBlock /\ Return(t)
     \/ Goto(t, "wait") /\ UNCHANGED callVars
  /\ UNCHANGED <<pipeVars, ends, asleep>>

-----------------------------------------------------------------------------
(* pipe_read.                                                              *)

ReadCheck(r) ==
  /\ pc[r] = "check" /\ r \in Readers
  /\ \/ ~Condition(r) /\ Block(r)
     \/ Condition(r) /\ Goto(r, "copy") /\ UNCHANGED <<pipeVars, ends, owner, asleep, callVars>>

\* One round of the copy loop, with the update of tail.  What was read is forgotten:
\* nobody looks at it again.
ReadCopy(r) ==
  LET offset == tail % Size
      count == Smaller(Smaller(Filled, Size - offset), left[r])
  IN
  /\ pc[r] = "copy" /\ r \in Readers /\ left[r] > 0 /\ head # tail
  /\ \E n \in IF Faults THEN 0 .. count ELSE {count} :
       /\ tail' = (tail + n) % W
       /\ buffer' = [i \in DOMAIN buffer |-> IF i \in offset .. offset + n - 1 THEN None ELSE buffer[i]]
       /\ stream' = SubSeq(stream, n + 1, Len(stream))
       /\ left' = [left EXCEPT ![r] = @ - n] /\ done' = [done EXCEPT ![r] = @ + n]
       /\ Goto(r, IF n = count THEN "copy" ELSE "fault")
  /\ UNCHANGED <<head, last, torn, ends, owner, asleep>>

\* Faulty variant: writers are told only of a pipe that is empty.
NotifyAfterReadEmpty(r) == done[r] > 0 /\ head = tail

NotifyAfterRead(r) == done[r] > 0

\* mutex_unlock; writers are woken after it.
ReadUnlock(r) ==
  /\ r \in Readers
  /\ pc[r] = "fault" \/ (pc[r] = "copy" /\ (left[r] = 0 \/ head = tail))
  /\ owner' = None
  /\ IF NotifyAfterRead(r) THEN Goto(r, "wake") /\ UNCHANGED callVars ELSE Return(r)
  /\ UNCHANGED <<pipeVars, ends, asleep>>

ReadWake(r) ==
  /\ pc[r] = "wake" /\ r \in Readers
  /\ asleep' = {}
  /\ Return(r)
  /\ UNCHANGED <<pipeVars, ends, owner>>

-----------------------------------------------------------------------------
(* pipe_write.                                                             *)

\* The checks at the top of the loop; EPIPE, or the end of the write.  The SIGPIPE that
\* comes with EPIPE is a signal of the caller to itself, pending when the call returns:
\* it changes nothing of the pipe, and Signal delivers it.
WriteCheck(w) ==
  /\ pc[w] = "check" /\ w \in Writers
  /\ \/ /\ left[w] = 0 \/ "read" \notin ends
        /\ owner' = None /\ Return(w)
        /\ UNCHANGED <<pipeVars, ends, asleep>>
     \/ left[w] > 0 /\ ~Condition(w) /\ Block(w)
     \/ /\ left[w] > 0 /\ "read" \in ends /\ Room(w)
        /\ Goto(w, "copy") /\ UNCHANGED <<pipeVars, ends, owner, asleep, callVars>>

\* How much of the write goes in at once: up to the end of the buffer.
Chunk(w) == Smaller(Smaller(Size - Filled, Size - (head % Size)), left[w])

\* The copy into the buffer and the update of head.
WriteCopy(w) ==
  LET offset == head % Size IN
  /\ pc[w] = "copy" /\ w \in Writers
  /\ \E n \in IF Faults THEN 0 .. Chunk(w) ELSE {Chunk(w)} :
       LET bytes == [i \in 1 .. n |-> <<w, done[w] + i>>] IN
       /\ buffer' = [i \in DOMAIN buffer \cup offset .. offset + n - 1 |->
                       IF i \in offset .. offset + n - 1 THEN bytes[i - offset + 1] ELSE buffer[i]]
       /\ head' = (head + n) % W
       /\ stream' = stream \o bytes
       /\ torn' = (torn \/ (n > 0 /\ done[w] > 0 /\ left[w] + done[w] <= Size /\ last # w))
       /\ last' = IF n > 0 THEN w ELSE last
       /\ left' = [left EXCEPT ![w] = @ - n] /\ done' = [done EXCEPT ![w] = @ + n]
       /\ Goto(w, IF n = Chunk(w) THEN "wake" ELSE "fault")
  /\ UNCHANGED <<tail, ends, owner, asleep>>

\* wake_up_all; a copy that stopped short ends the call.
WriteWake(w) ==
  /\ pc[w] \in {"wake", "fault"} /\ w \in Writers
  /\ asleep' = {}
  /\ IF pc[w] = "wake" THEN Goto(w, "check") /\ UNCHANGED <<owner, callVars>>
                       ELSE owner' = None /\ Return(w)
  /\ UNCHANGED <<pipeVars, ends>>

\* Faulty variant: wake_up_one, of those that wait.
ReleaseWakesOne == IF asleep = {} THEN {} ELSE asleep \ {CHOOSE t \in asleep : TRUE}

\* wake_up_all_locked: those that are still asleep.
ReleaseWakes == {}

\* pipe_release, on the last fput of an end: no call of that end is in progress.
PipeRelease(e) ==
  /\ e \in ends /\ \A t \in Tasks : MyEnd(t) = e => pc[t] = "idle"
  /\ ends' = ends \ {e}
  /\ asleep' = IF ends' = {} THEN asleep ELSE ReleaseWakes
  /\ UNCHANGED <<pipeVars, owner, pc, callVars>>

-----------------------------------------------------------------------------
ReadStep(r) == ReadCheck(r) \/ ReadCopy(r) \/ ReadUnlock(r) \/ ReadWake(r)
WriteStep(w) == WriteCheck(w) \/ WriteCopy(w) \/ WriteWake(w)
Step(t) == Lock(t) \/ WaitEvent(t) \/ ReadStep(t) \/ WriteStep(t)

Next ==
  \/ \E t \in Tasks : Step(t) \/ Interrupted(t) \/ \E n \in Counts : Call(t, n)
  \/ \E e \in ends : PipeRelease(e)

Spec == Init /\ [][Next]_vars

\* A task in a call goes on when it can.
Fairness == \A t \in Tasks : WF_vars(Step(t))
FairSpec == Spec /\ Fairness

-----------------------------------------------------------------------------
\* Every variable has its type: above all, no byte is written outside the buffer.
TypeOK ==
  /\ head \in 0 .. W - 1 /\ tail \in 0 .. W - 1
  /\ DOMAIN buffer = 0 .. Size - 1
  /\ owner \in Tasks \cup {None} /\ asleep \subseteq Tasks
  /\ pc \in [Tasks -> {"idle", "lock", "check", "wait", "sleep", "copy", "fault", "wake"}]
  /\ left \in [Tasks -> Nat] /\ done \in [Tasks -> Nat]

\* The buffer between tail and head holds the bytes that were written and not read,
\* in the order of the writes: none is lost, doubled or overwritten, also where the
\* counters or the buffer wrap.
FifoInv ==
  /\ TypeOK
  /\ Filled = Len(stream) /\ Filled <= Size
  /\ \A i \in 1 .. Len(stream) : buffer[(tail + i - 1) % Size] = stream[i]

\* A write of up to PIPE_BUF_SIZE bytes is not mixed with the bytes of another writer.
AtomicInv == ~torn

\* Nobody sleeps while what it waits for is there, unless the wakeup is on its way:
\* the wakeup comes after pipe.mutex and wq.lock were released.
NoLostWakeup ==
  \A t \in asleep : Condition(t) => \E u \in Tasks \ {t} :
    \/ pc[u] \in {"wake", "fault"}
    \/ u \in Readers /\ pc[u] = "copy" /\ done[u] > 0

\* Bytes leave a pipe in the order they entered it, a write of at most a buffer's
\* length is never split, and nobody sleeps over a condition that holds with no
\* wakeup on its way.
PipeInv == FifoInv /\ AtomicInv /\ NoLostWakeup

\* Once an end is closed every call at the other one returns, however many tasks sleep
\* in it: the close wakes all of them and none sleeps again.  Only a task that others
\* overtake at pipe.mutex for ever may not return, which MutexSpec does not exclude.
CloseEndsWait ==
  \A t \in Tasks :
    \/ []<>(owner \notin {t, None})
    \/ (pc[t] # "idle" /\ (IF t \in Readers THEN "write" ELSE "read") \notin ends) ~> pc[t] = "idle"
=============================================================================
