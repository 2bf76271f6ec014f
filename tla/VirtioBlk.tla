----------------------------- MODULE VirtioBlk -----------------------------
(***************************************************************************)
(* The block device: submit_request and the completion interrupt of        *)
(* drivers/block/virtio-blk.c over the split ring of                       *)
(* drivers/virtio/virtqueue.c, with the interrupt acknowledgement of       *)
(* virtio.c and virtio-mmio.c, and a device that answers in any order.     *)
(*                                                                         *)
(* available.lock, and vq->lock under it, cover the submission and the     *)
(* whole loop over the used ring: each is one step.  The sleep for a slot, *)
(* the wait for the completion, freeing the slot, waking the next waiter,  *)
(* acknowledging the interrupt and each complete() are steps of their own. *)
(* The device answers within VIRTIO_BLK_TIMEOUT_NS, with one of the three  *)
(* statuses it may use; otherwise the kernel panics.                       *)
(***************************************************************************)
EXTENDS WaitQueue, FiniteSets

CONSTANTS
  Procs,     \* the tasks that do block I/O
  Slots,     \* 1 .. VIRTIO_BLK_SLOTS
  QueueSize, \* VIRTIO_BLK_QUEUE_SIZE, a power of two
  Types,     \* the VIRTIO_BLK_T_* in use: "IN", "OUT", "FLUSH"
  Outcomes,  \* the answers of the device: "OK", "IOERR", "UNSUPP", "SHORT"
  MaxOdd,    \* bound on the odd and failures together
  IdxMod,    \* 2^16: the ring indexes wrap, a multiple of QueueSize
  Nobody     \* no slot, no process, a NULL cookie

Descs == 0 .. QueueSize - 1

VirtioBlkAssumption ==
  /\ IdxMod % QueueSize = 0
  /\ QueueSize >= 3 * Cardinality(Slots)

VARIABLES
  io,       \* the call of each process: [at, slot, type, ret]
  bstate,   \* its task state
  waiters,  \* blk->available.waiters
  req,      \* blk->requests: [state, count, result], count of the completion
  wire,     \* req->wire: [type, by, status]; by stands for the sector
  vq,       \* the virtqueue, rings included
  dev,      \* the device: [next, work, kicked, irq]
  handler,  \* virtio_blk_done: [at, list]
  odd,      \* odd and failed requests so far, for the bound
  answer    \* history: what the device did with the process's request

blkVars == <<io, bstate, waiters, req, wire, vq, dev, handler, odd, answer>>

\* The count after one more, if the bound admits it.
Odd(more) == IF more THEN {odd + 1} \cap (0 .. MaxOdd) ELSE {odd}

Inc(i) == (i + 1) % IdxMod

-----------------------------------------------------------------------------
(* drivers/virtio/virtqueue.c.                                             *)

NoElem == [id |-> Nobody, short |-> FALSE]

\* virtqueue_create: every descriptor is on the free list.
VirtqueueCreate ==
  [desc |-> [d \in Descs |-> [addr |-> Nobody, next |-> d + 1, more |-> FALSE]],
   free |-> 0, numFree |-> QueueSize, cookies |-> [d \in Descs |-> Nobody],
   availIdx |-> 0, avail |-> [d \in Descs |-> Nobody],
   usedIdx |-> 0, used |-> [d \in Descs |-> NoElem],
   lastUsed |-> 0]

\* The k-th descriptor of the list that starts at d.
Nth(desc, d, k) ==
  LET f[i \in 0 .. k] == IF i = 0 THEN d ELSE desc[f[i - 1]].next IN f[k]

\* vq_add of count buffers, all of one request.
VqAdd(q, count, slot) ==
  LET chain == [k \in 0 .. count - 1 |-> Nth(q.desc, q.free, k)]
      At(d) == CHOOSE k \in DOMAIN chain : chain[k] = d
      used == {chain[k] : k \in DOMAIN chain}
  IN [q EXCEPT
        !.desc = [d \in Descs |->
                    IF d \in used
                    THEN [@[d] EXCEPT !.addr = slot, !.more = At(d) + 1 < count]
                    ELSE @[d]],
        !.free = Nth(q.desc, q.free, count),
        !.numFree = @ - count,
        !.cookies[q.free] = slot,
        !.avail[q.availIdx % QueueSize] = q.free,
        !.availIdx = Inc(@)]

\* The descriptors of the chain that starts at d, by the NEXT flags.
ChainLen(desc, d) ==
  CHOOSE n \in 1 .. QueueSize :
    /\ \A k \in 0 .. n - 2 : desc[Nth(desc, d, k)].more
    /\ ~desc[Nth(desc, d, n - 1)].more
LastOf(desc, d) == Nth(desc, d, ChainLen(desc, d) - 1)

\* Faulty variant: only the last descriptor is counted.
GiveBackOne(q, head) ==
  [q EXCEPT !.numFree = @ + 1, !.desc[LastOf(q.desc, head)].next = q.free, !.free = head]

\* The chain goes back to the front of the free list.
GiveBack(q, head) ==
  [q EXCEPT !.numFree = @ + ChainLen(q.desc, head),
            !.desc[LastOf(q.desc, head)].next = q.free,
            !.free = head]

\* Free descriptors, ring entries, wires and results that nobody reads before
\* they are written again are cleared.
Unused(q, ds) ==
  [q EXCEPT !.desc = [d \in Descs |-> IF d \in ds THEN [@[d] EXCEPT !.addr = Nobody, !.more = FALSE]
                                      ELSE @[d]]]

Pending(q) == (q.usedIdx - q.lastUsed) % IdxMod
UsedHead(q) == q.used[q.lastUsed % QueueSize].id

\* vq_get_buf, when there is something to get.
VqGetBuf(q) ==
  LET head == UsedHead(q)
      chain == {Nth(q.desc, head, k) : k \in 0 .. ChainLen(q.desc, head) - 1}
  IN [Unused(GiveBack(q, head), chain) EXCEPT
        !.cookies[head] = Nobody,
        !.lastUsed = Inc(@),
        !.used[q.lastUsed % QueueSize] = NoElem]

-----------------------------------------------------------------------------
(* submit_request.                                                         *)

NoWire == [type |-> Nobody, by |-> Nobody, status |-> Nobody]
NoCall == [at |-> "idle", slot |-> Nobody, type |-> Nobody, ret |-> Nobody]

BlkInit ==
  /\ io = [p \in Procs |-> NoCall]
  /\ bstate = [p \in Procs |-> "RUNNABLE"]
  /\ waiters = <<>>
  /\ req = [s \in Slots |-> [state |-> "FREE", count |-> 0, result |-> Nobody]]
  /\ wire = [s \in Slots |-> NoWire]
  /\ vq = VirtqueueCreate
  /\ dev = [next |-> 0, work |-> {}, kicked |-> FALSE, irq |-> FALSE]
  /\ handler = [at |-> "idle", list |-> <<>>]
  /\ odd = 0
  /\ answer = [p \in Procs |-> Nobody]

FreeSlots == {s \in Slots : req[s].state = "FREE"}

\* The start of submit_request for blk_read, blk_write or blk_flush, past
\* blk_validate, and each return from its sleep: reserve_request, the first free
\* slot, is the condition of the wait.
ReserveRequest(p) ==
  /\ io[p].at \in {"idle", "reserve"} /\ bstate[p] = "RUNNABLE"
  /\ \/ \E s \in FreeSlots, t \in Types :
          /\ \A x \in FreeSlots : s <= x
          /\ req' = [req EXCEPT ![s].state = "PREPARING"]
          /\ io' = [io EXCEPT ![p] = [at |-> "submit", slot |-> s, type |-> t, ret |-> Nobody]]
          /\ odd' \in Odd(t = "FLUSH")
          /\ waiters' = FinishWait(waiters, p)
          /\ UNCHANGED bstate
     \/ /\ FreeSlots = {}
        /\ waiters' = PrepareToWait(FinishWait(waiters, p), p)
        /\ bstate' = [bstate EXCEPT ![p] = "UNINTERRUPTIBLE"]
        /\ io' = [io EXCEPT ![p].at = "reserve"]
        /\ UNCHANGED <<req, odd>>
  /\ UNCHANGED <<wire, vq, dev, handler, answer>>

\* The header, the data unless there are none, and the status.
Buffers(type) == IF type = "FLUSH" THEN 2 ELSE 3

\* The request is filled in, which only the owner of the slot sees; vq_add and
\* vq_kick follow under available.lock.  The deadline may not be representable.
Submit(p) ==
  LET s == io[p].slot IN
  /\ io[p].at = "submit"
  /\ \/ /\ Buffers(io[p].type) <= vq.numFree
        /\ wire' = [wire EXCEPT ![s] = [type |-> io[p].type, by |-> p, status |-> "MAX"]]
        /\ req' = [req EXCEPT ![s].state = "SUBMITTED"]
        /\ vq' = VqAdd(vq, Buffers(io[p].type), s)
        /\ dev' = [dev EXCEPT !.kicked = TRUE]
        /\ io' = [io EXCEPT ![p].at = "await"]
     \/ /\ io' = [io EXCEPT ![p].at = "release", ![p].ret = "EOVERFLOW"]
        /\ UNCHANGED <<wire, req, vq, dev>>
  /\ UNCHANGED <<bstate, waiters, handler, odd, answer>>

\* wait_for_completion_until returns, and the result is read.
Await(p) ==
  LET s == io[p].slot IN
  /\ io[p].at = "await" /\ req[s].count > 0
  /\ req' = [req EXCEPT ![s].count = @ - 1]
  /\ io' = [io EXCEPT ![p].at = "release", ![p].ret = req[s].result]
  /\ UNCHANGED <<bstate, waiters, wire, vq, dev, handler, odd, answer>>

\* release_request, up to the unlock ...
ReleaseRequest(p) ==
  /\ io[p].at = "release"
  /\ req' = [req EXCEPT ![io[p].slot].state = "FREE", ![io[p].slot].result = Nobody]
  /\ wire' = [wire EXCEPT ![io[p].slot] = NoWire]
  /\ io' = [io EXCEPT ![p].at = "wake", ![p].slot = Nobody]
  /\ UNCHANGED <<bstate, waiters, vq, dev, handler, odd, answer>>

\* ... and the wakeup; the call returns.
WakeNext(p) ==
  /\ io[p].at = "wake"
  /\ bstate' = WakeUpOne(bstate, waiters)
  /\ io' = [io EXCEPT ![p] = NoCall]
  /\ answer' = [answer EXCEPT ![p] = Nobody]
  /\ UNCHANGED <<waiters, req, wire, vq, dev, handler, odd>>

-----------------------------------------------------------------------------
(* The device.                                                             *)

\* It fetches the next chain it was offered ...
DeviceFetch ==
  /\ dev.kicked /\ dev.next # vq.availIdx
  /\ dev' = [dev EXCEPT !.work = @ \cup {vq.avail[dev.next % QueueSize]},
                        !.next = Inc(@),
                        !.kicked = Inc(dev.next) # vq.availIdx]
  /\ vq' = [vq EXCEPT !.avail[dev.next % QueueSize] = Nobody]
  /\ UNCHANGED <<io, bstate, waiters, req, wire, handler, odd, answer>>

\* ... and at some time carries out the request in the first buffer, puts the
\* status into the last and the head on the used ring, and interrupts.
DeviceAnswer ==
  \E head \in dev.work, o \in Outcomes :
    LET first == vq.desc[head].addr
        last == vq.desc[LastOf(vq.desc, head)].addr
        who == wire[first].by
    IN /\ answer' = [answer EXCEPT ![who] = o]
       /\ wire' = [wire EXCEPT ![last].status = IF o = "SHORT" THEN "OK" ELSE o]
       /\ vq' = [vq EXCEPT !.used[vq.usedIdx % QueueSize] = [id |-> head, short |-> o = "SHORT"],
                           !.usedIdx = Inc(@)]
       /\ odd' \in Odd(o # "OK")
       /\ dev' = [dev EXCEPT !.work = @ \ {head}, !.irq = TRUE]
       /\ UNCHANGED <<io, bstate, waiters, req, handler>>

-----------------------------------------------------------------------------
(* virtio_irq and virtio_blk_done, on the CPU that claimed the interrupt.  *)

\* mmio_ack_irq: the request for service is cleared before the callback.
Acked == FALSE

VirtioIrq ==
  /\ dev.irq /\ handler.at = "idle"
  /\ dev' = [dev EXCEPT !.irq = Acked]
  /\ handler' = [handler EXCEPT !.at = "drain"]
  /\ UNCHANGED <<io, bstate, waiters, req, wire, vq, odd, answer>>

\* Faulty variant: the length the device reports is not looked at.
ReturnedStatus(short, status) ==
  CASE status = "OK" -> "0"
    [] status = "IOERR" -> "EIO"
    [] status = "UNSUPP" -> "EOPNOTSUPP"

Returned(short, status) ==
  CASE short -> "EIO"
    [] ~short /\ status = "OK" -> "0"
    [] ~short /\ status = "IOERR" -> "EIO"
    [] ~short /\ status = "UNSUPP" -> "EOPNOTSUPP"

\* Faulty variant: one buffer per interrupt.
TakenOne(q) == IF Pending(q) = 0 THEN 0 ELSE 1

\* The loop takes whatever the device has put on the used ring.
Taken(q) == Pending(q)

Drain ==
  LET q[k \in 0 .. Taken(vq)] == IF k = 0 THEN vq ELSE VqGetBuf(q[k - 1])
      Slot(k) == q[k - 1].cookies[UsedHead(q[k - 1])]
      Short(k) == q[k - 1].used[q[k - 1].lastUsed % QueueSize].short
      done == {Slot(k) : k \in 1 .. Taken(vq)}
      Of(s) == CHOOSE k \in 1 .. Taken(vq) : Slot(k) = s
  IN /\ handler.at = "drain"
     /\ vq' = q[Taken(vq)]
     /\ req' = [s \in Slots |->
                  IF s \in done
                  THEN [req[s] EXCEPT !.result = Returned(Short(Of(s)), wire[s].status)]
                  ELSE req[s]]
     /\ handler' = [at |-> "complete", list |-> [k \in 1 .. Taken(vq) |-> Slot(k)]]
     /\ UNCHANGED <<io, bstate, waiters, wire, dev, odd, answer>>

CompleteOne ==
  /\ handler.at = "complete"
  /\ \/ /\ handler.list = <<>>
        /\ handler' = [handler EXCEPT !.at = "idle"]
        /\ UNCHANGED req
     \/ /\ handler.list # <<>>
        /\ req' = [req EXCEPT ![Head(handler.list)].count = @ + 1]
        /\ handler' = [handler EXCEPT !.list = SubSeq(@, 2, Len(@))]
  /\ UNCHANGED <<io, bstate, waiters, wire, vq, dev, odd, answer>>

BlkNext ==
  \/ \E p \in Procs :
       \/ ReserveRequest(p)
       \/ Submit(p)
       \/ Await(p)
       \/ ReleaseRequest(p)
       \/ WakeNext(p)
  \/ DeviceFetch
  \/ DeviceAnswer
  \/ VirtioIrq
  \/ Drain
  \/ CompleteOne

BlkSpec == BlkInit /\ [][BlkNext]_blkVars

-----------------------------------------------------------------------------
(* Properties.                                                             *)

Heads == {d \in Descs : vq.cookies[d] # Nobody}
ChainOf(d) == {Nth(vq.desc, d, k) : k \in 0 .. ChainLen(vq.desc, d) - 1}
FreeList == {Nth(vq.desc, vq.free, k) : k \in 0 .. vq.numFree - 1}

\* The descriptors are shared out between the free list and the chains of the
\* submitted requests, whatever the order in which the device answers; a slot
\* that is prepared finds its three descriptors ("A reserved slot guarantees
\* room"), and every head on the used ring is one whose request is SUBMITTED:
\* the assertions of vq_get_buf, submit_request and virtio_blk_done.
RingInv ==
  /\ Cardinality(FreeList) = vq.numFree
  /\ \A d \in Heads : ChainOf(d) \cap FreeList = {}
  /\ \A d, e \in Heads : d # e => ChainOf(d) \cap ChainOf(e) = {}
  /\ \A p \in Procs : io[p].at = "submit" => vq.numFree >= 3
  /\ Pending(vq) <= (vq.availIdx - vq.lastUsed) % IdxMod
  /\ \A k \in 0 .. Pending(vq) - 1 :
       LET h == vq.used[(vq.lastUsed + k) % QueueSize].id IN
       vq.cookies[h] # Nobody /\ req[vq.cookies[h]].state = "SUBMITTED"

Errno == [OK |-> "0", IOERR |-> "EIO", UNSUPP |-> "EOPNOTSUPP", SHORT |-> "EIO"]

\* A process gets the outcome of its own request, exactly one, although slots,
\* descriptors and completions are reused at once by others.
OwnResult ==
  /\ \A p \in Procs :
       io[p].at \in {"release", "wake"} /\ io[p].ret # "EOVERFLOW" =>
         /\ answer[p] # Nobody
         /\ io[p].ret = Errno[answer[p]]
  /\ \A s \in Slots : req[s].count <= 1 /\ (req[s].state # "SUBMITTED" => req[s].count = 0)

\* When the device has nothing left to do and the interrupt has been served,
\* no process waits for an answer, and none sleeps for a slot while one is free
\* and nobody is about to wake it.
NoLostRequest ==
  /\ dev.work = {} /\ dev.next = vq.availIdx /\ ~dev.irq /\ handler.at = "idle" =>
       \A p \in Procs : io[p].at = "await" => req[io[p].slot].count = 1
  /\ FreeSlots # {} /\ (\A p \in Procs : io[p].at # "wake") =>
       \/ \A p \in Procs : bstate[p] = "RUNNABLE"
       \/ \E p \in Procs : io[p].at = "reserve" /\ bstate[p] = "RUNNABLE"
=============================================================================
