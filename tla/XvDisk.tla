-------------------------------- MODULE XvDisk --------------------------------
(***************************************************************************)
(* The buffer cache of the xv6 kernel (kernel/bio.c, sleeplock.c) and the  *)
(* driver of its disk (kernel/virtio_disk.c): processes read and write     *)
(* blocks, several requests are with the device at a time, the device      *)
(* serves them in any order and interrupts.                                *)
(*                                                                         *)
(* An action is a section with bcache.lock, with the lock inside a         *)
(* sleep-lock or with vdisk_lock held, up to the next sleep(); only the    *)
(* interrupt handler holds vdisk_lock over several steps, between which    *)
(* the device may complete more requests.  kill() wakes any sleeper.  The  *)
(* indices of the rings wrap at Wrap as C's uint16 does at 2^16.  Pinning  *)
(* is modelled by XvLog; here a process that changes a block writes it.    *)
(***************************************************************************)
EXTENDS Integers, Sequences, FiniteSets, SequencesExt

CONSTANTS Procs, Blocks,
          Values,      \* what processes write
          NBUF, NUM, Wrap,
          Start,       \* requests the disk has served since it was set up
          MaxCalls     \* bound for TLC: calls of bread(), bwrite() and kill()

Bufs  == 1 .. NBUF
Descs == 0 .. NUM - 1
NoBlock == "no block"
Zero    == "zero"
NoBuf   == 0
NoDesc  == -1
Nobody  == "nobody"
NoReq   == [write |-> FALSE, buf |-> NoBuf]

\* The indices of the rings wrap at a multiple of the rings' size, as 2^16 is of NUM.
ASSUME DiskAssumption ==
  /\ NUM \in Nat /\ NUM >= 3
  /\ Wrap \in Nat /\ Wrap > NUM /\ Wrap % NUM = 0
  /\ Start \in 0 .. Wrap - 1 /\ MaxCalls \in Nat

\* Nothing says that there are as many buffers as processes: bget() panics without one.
ASSUME BuffersAssumption == IsFiniteSet(Procs) /\ NBUF \in Nat

ASSUME NamesAssumption == Nobody \notin Procs /\ NoBlock \notin Blocks

VARIABLES
  blockno, valid, data, onDisk, refcnt,  \* struct buf; onDisk is b->disk
  lock,                                  \* the holder of its sleep-lock
  order,                                 \* the list of buffers, last used first
  free, next, req, info, failed,         \* descriptors; of a request its first one
                                         \* has req, info and the status
  avail, availIdx, used, usedIdx,        \* the rings the driver and the device share
  used_idx,                              \* disk.used_idx: how far the driver has read
  seen, service, platter, irq,           \* the device
  handler,                               \* of the interrupt
  pc, mine, io, idx,                     \* of a process: its buffer, read or write,
                                         \* and the first descriptor of its request
  calls

cache  == <<blockno, valid, data, onDisk, refcnt, lock, order>>
descs  == <<free, next, req, info, failed>>
rings  == <<avail, availIdx, used, usedIdx, used_idx>>
device == <<seen, service, platter, irq>>
procs  == <<pc, mine, io, idx>>
vars   == <<cache, descs, rings, device, handler, procs, calls>>

\* binit() and virtio_disk_init(); the indices begin at Start.  What a block holds
\* at first differs from block to block: its name stands for it.
Init ==
  /\ blockno = [b \in Bufs |-> NoBlock] /\ valid = [b \in Bufs |-> FALSE]
  /\ data = [b \in Bufs |-> Zero] /\ onDisk = [b \in Bufs |-> FALSE]
  /\ refcnt = [b \in Bufs |-> 0] /\ lock = [b \in Bufs |-> Nobody]
  /\ order = [k \in 1 .. NBUF |-> NBUF + 1 - k]
  /\ free = Descs /\ next = [d \in Descs |-> 0] /\ req = [d \in Descs |-> NoReq]
  /\ info = [d \in Descs |-> NoBuf] /\ failed = [d \in Descs |-> FALSE]
  /\ avail = [k \in Descs |-> 0] /\ used = [k \in Descs |-> 0]
  /\ availIdx = Start /\ usedIdx = Start /\ used_idx = Start /\ seen = Start
  /\ service = {} /\ platter = [k \in Blocks |-> k] /\ irq = FALSE
  /\ handler = "idle"
  /\ pc = [p \in Procs |-> "user"] /\ mine = [p \in Procs |-> NoBuf]
  /\ io = [p \in Procs |-> "read"] /\ idx = [p \in Procs |-> NoDesc]
  /\ calls = 0

-----------------------------------------------------------------------------
At(p, s) == pc[p] = s
Goto(p, s) == pc' = [pc EXCEPT ![p] = s]

\* wakeup(): the sleepers S go on at t, and p, if it is a process, at s.
Wakes(S, t, p, s) ==
  pc' = [q \in Procs |-> IF q = p THEN s ELSE IF q \in S THEN t ELSE pc[q]]

Inc(k) == (k + 1) % Wrap

WaitForDesc == {p \in Procs : pc[p] = "descSleep"}
WaitForLock(b) == {p \in Procs : pc[p] = "lockSleep" /\ mine[p] = b}
WaitForIo(b) == {p \in Procs : pc[p] = "ioSleep" /\ mine[p] = b}

\* kill() makes a sleeper run, which has to find out that nothing has changed.
Kill(p) ==
  /\ pc[p] \in {"lockSleep", "descSleep", "ioSleep"} /\ calls < MaxCalls /\ calls' = calls + 1
  /\ Goto(p, CASE pc[p] = "lockSleep" -> "acquire"
               [] pc[p] = "descSleep" -> "submit"
               [] pc[p] = "ioSleep" -> "wait")
  /\ UNCHANGED <<cache, descs, rings, device, handler, mine, io, idx>>

-----------------------------------------------------------------------------
(***************************************************************************)
(* bio.c and sleeplock.c                                                   *)
(***************************************************************************)
Cached(k) == {b \in Bufs : blockno[b] = k}

\* The least recently used buffer that nobody has.
Unused == order[CHOOSE k \in 1 .. NBUF : /\ refcnt[order[k]] = 0
                                         /\ \A j \in k + 1 .. NBUF : refcnt[order[j]] > 0]

\* A process that panicked in bget() has bcache.lock for ever.
CacheLockFree == ~ \E q \in Procs : At(q, "panic")

\* Mutant: a recycled buffer stays valid.
BgetKeepsValid(p, k) ==
  /\ At(p, "user") /\ CacheLockFree /\ calls < MaxCalls /\ calls' = calls + 1
  /\ Goto(p, "acquire")
  /\ \/ \E b \in Cached(k) :
          /\ mine' = [mine EXCEPT ![p] = b] /\ refcnt' = [refcnt EXCEPT ![b] = @ + 1]
          /\ UNCHANGED <<blockno, valid>>
     \/ /\ Cached(k) = {} /\ \E b \in Bufs : refcnt[b] = 0
        /\ mine' = [mine EXCEPT ![p] = Unused] /\ refcnt' = [refcnt EXCEPT ![Unused] = 1]
        /\ blockno' = [blockno EXCEPT ![Unused] = k]
        /\ UNCHANGED valid
  /\ UNCHANGED <<data, onDisk, lock, order, descs, rings, device, handler, io, idx>>

Bget(p, k) ==
  /\ At(p, "user") /\ CacheLockFree /\ calls < MaxCalls /\ calls' = calls + 1
  /\ Goto(p, "acquire")
  /\ \/ \E b \in Cached(k) :
          /\ mine' = [mine EXCEPT ![p] = b] /\ refcnt' = [refcnt EXCEPT ![b] = @ + 1]
          /\ UNCHANGED <<blockno, valid>>
     \/ /\ Cached(k) = {} /\ \E b \in Bufs : refcnt[b] = 0
        /\ mine' = [mine EXCEPT ![p] = Unused] /\ refcnt' = [refcnt EXCEPT ![Unused] = 1]
        /\ blockno' = [blockno EXCEPT ![Unused] = k]
        /\ valid' = [valid EXCEPT ![Unused] = FALSE]
  /\ UNCHANGED <<data, onDisk, lock, order, descs, rings, device, handler, io, idx>>

\* panic("bget: no buffers"), with bcache.lock held: the rest goes on until it needs it.
BgetPanics(p, k) ==
  /\ At(p, "user") /\ CacheLockFree /\ calls < MaxCalls /\ calls' = calls + 1
  /\ Cached(k) = {} /\ \A b \in Bufs : refcnt[b] > 0
  /\ Goto(p, "panic")
  /\ UNCHANGED <<cache, descs, rings, device, handler, mine, io, idx>>

\* acquiresleep(), and bread() looks whether the buffer has to be read.
Acquire(p) ==
  /\ At(p, "acquire") /\ lock[mine[p]] = Nobody
  /\ lock' = [lock EXCEPT ![mine[p]] = p]
  /\ io' = [io EXCEPT ![p] = "read"]
  /\ Goto(p, IF valid[mine[p]] THEN "use" ELSE "submit")
  /\ UNCHANGED <<blockno, valid, data, onDisk, refcnt, order, descs, rings, device, handler,
                 mine, idx, calls>>

AcquireWaits(p) ==
  /\ At(p, "acquire") /\ lock[mine[p]] # Nobody
  /\ Goto(p, "lockSleep")
  /\ UNCHANGED <<cache, descs, rings, device, handler, mine, io, idx, calls>>

\* The caller changes the block and calls bwrite().
Bwrite(p) ==
  /\ At(p, "use") /\ calls < MaxCalls /\ calls' = calls + 1
  /\ \E v \in Values : data' = [data EXCEPT ![mine[p]] = v]
  /\ io' = [io EXCEPT ![p] = "write"] /\ Goto(p, "submit")
  /\ UNCHANGED <<blockno, valid, onDisk, refcnt, lock, order, descs, rings, device, handler,
                 mine, idx>>

\* brelse(): releasesleep(), then bcache.lock.
Brelse(p) ==
  /\ At(p, "use")
  /\ lock' = [lock EXCEPT ![mine[p]] = Nobody]
  /\ Wakes(WaitForLock(mine[p]), "acquire", p, "released")
  /\ UNCHANGED <<blockno, valid, data, onDisk, refcnt, order, descs, rings, device, handler,
                 mine, io, idx, calls>>

\* b is now the first of the list.
ToFront(b) ==
  LET place == CHOOSE k \in 1 .. NBUF : order[k] = b IN
    [k \in 1 .. NBUF |-> IF k = 1 THEN b ELSE IF k <= place THEN order[k - 1] ELSE order[k]]

Unref(p) ==
  /\ At(p, "released") /\ CacheLockFree
  /\ LET b == mine[p] IN
       /\ refcnt' = [refcnt EXCEPT ![b] = @ - 1]
       /\ order' = IF refcnt[b] = 1 THEN ToFront(b) ELSE order
  /\ mine' = [mine EXCEPT ![p] = NoBuf] /\ Goto(p, "user")
  /\ UNCHANGED <<blockno, valid, data, onDisk, lock, descs, rings, device, handler, io, idx,
                 calls>>

-----------------------------------------------------------------------------
(***************************************************************************)
(* virtio_disk_rw()                                                        *)
(***************************************************************************)
LockFree == handler # "loop"

\* alloc_desc(), k times: the first descriptors that are free.
First(k) ==
  CHOOSE s \in [1 .. k -> free] :
    /\ \A i, j \in 1 .. k : i < j => s[i] < s[j]
    /\ \A d \in free : d < s[k] => d \in ToSet(s)

\* The request is written into three descriptors and the device is told.
Submit(p) ==
  /\ At(p, "submit") /\ LockFree /\ Cardinality(free) >= 3
  /\ LET s == First(3) IN
       /\ free' = free \ ToSet(s)
       /\ next' = [next EXCEPT ![s[1]] = s[2], ![s[2]] = s[3], ![s[3]] = 0]
       /\ req' = [req EXCEPT ![s[1]] = [write |-> io[p] = "write", buf |-> mine[p]]]
       /\ failed' = [failed EXCEPT ![s[1]] = TRUE]
       /\ info' = [info EXCEPT ![s[1]] = mine[p]]
       /\ onDisk' = [onDisk EXCEPT ![mine[p]] = TRUE]
       /\ avail' = [avail EXCEPT ![availIdx % NUM] = s[1]] /\ availIdx' = Inc(availIdx)
       /\ idx' = [idx EXCEPT ![p] = s[1]]
  /\ Goto(p, "ioSleep")
  /\ UNCHANGED <<blockno, valid, data, refcnt, lock, order, used, usedIdx, used_idx, device,
                 handler, mine, io, calls>>

\* Too few are free: free_desc() of those already taken wakes the other waiters.
SubmitWaits(p) ==
  /\ At(p, "submit") /\ LockFree /\ Cardinality(free) < 3
  /\ Wakes(IF free = {} THEN {} ELSE WaitForDesc, "submit", p, "descSleep")
  /\ UNCHANGED <<cache, descs, rings, device, handler, mine, io, idx, calls>>

Chain(d) == {d, next[d], next[next[d]]}

WaitOn(p) ==
  /\ At(p, "wait") /\ LockFree /\ onDisk[mine[p]]
  /\ Goto(p, "ioSleep")
  /\ UNCHANGED <<cache, descs, rings, device, handler, mine, io, idx, calls>>

\* Mutant: a process that is woken takes its request for done.
ReturnWoken(p) ==
  /\ At(p, "wait") /\ LockFree
  /\ info' = [info EXCEPT ![idx[p]] = NoBuf]
  /\ free' = free \cup Chain(idx[p])
  /\ next' = [d \in Descs |-> IF d \in Chain(idx[p]) THEN 0 ELSE next[d]]
  /\ idx' = [idx EXCEPT ![p] = NoDesc]
  /\ valid' = [valid EXCEPT ![mine[p]] = TRUE]
  /\ Wakes(WaitForDesc, "submit", p, "use")
  /\ UNCHANGED <<blockno, data, onDisk, refcnt, lock, order, req, failed, rings, device,
                 handler, mine, io, calls>>

\* The request is done, and what it took is free; bread()'s buffer is valid.
Return(p) ==
  /\ At(p, "wait") /\ LockFree /\ ~ onDisk[mine[p]]
  /\ info' = [info EXCEPT ![idx[p]] = NoBuf]
  /\ free' = free \cup Chain(idx[p])
  /\ next' = [d \in Descs |-> IF d \in Chain(idx[p]) THEN 0 ELSE next[d]]
  /\ idx' = [idx EXCEPT ![p] = NoDesc]
  /\ valid' = [valid EXCEPT ![mine[p]] = TRUE]
  /\ Wakes(WaitForDesc, "submit", p, "use")
  /\ UNCHANGED <<blockno, data, onDisk, refcnt, lock, order, req, failed, rings, device,
                 handler, mine, io, calls>>

-----------------------------------------------------------------------------
(***************************************************************************)
(* virtio_disk_intr()                                                      *)
(***************************************************************************)
\* The interrupt is acknowledged before the ring is read.
Interrupt ==
  /\ handler = "idle" /\ irq
  /\ handler' = "loop" /\ irq' = FALSE
  /\ UNCHANGED <<cache, descs, rings, seen, service, platter, procs, calls>>

\* Mutant: an if and not a while: one request for one interrupt.
CompletedOne ==
  /\ handler = "loop" /\ used_idx # usedIdx
  /\ LET b == info[used[used_idx % NUM]] IN
       /\ onDisk' = [onDisk EXCEPT ![b] = FALSE]
       /\ Wakes(WaitForIo(b), "wait", Nobody, "none")
  /\ used_idx' = Inc(used_idx) /\ handler' = "idle"
  /\ UNCHANGED <<blockno, valid, data, refcnt, lock, order, descs, avail, availIdx, used,
                 usedIdx, device, mine, io, idx, calls>>

Completed ==
  /\ handler = "loop" /\ used_idx # usedIdx
  /\ LET b == info[used[used_idx % NUM]] IN
       /\ onDisk' = [onDisk EXCEPT ![b] = FALSE]
       /\ Wakes(WaitForIo(b), "wait", Nobody, "none")
  /\ used_idx' = Inc(used_idx)
  /\ UNCHANGED <<blockno, valid, data, refcnt, lock, order, descs, avail, availIdx, used,
                 usedIdx, device, handler, mine, io, idx, calls>>

InterruptReturns ==
  /\ handler = "loop" /\ used_idx = usedIdx
  /\ handler' = "idle"
  /\ UNCHANGED <<cache, descs, rings, device, procs, calls>>

-----------------------------------------------------------------------------
(***************************************************************************)
(* The device, from how virtio_disk.c uses it                              *)
(***************************************************************************)
Take ==
  /\ seen # availIdx
  /\ service' = service \cup {avail[seen % NUM]} /\ seen' = Inc(seen)
  /\ UNCHANGED <<cache, descs, rings, platter, irq, handler, procs, calls>>

Serve(d) ==
  /\ d \in service /\ service' = service \ {d}
  /\ LET b == req[d].buf IN
       IF req[d].write
         THEN platter' = [platter EXCEPT ![blockno[b]] = data[b]] /\ UNCHANGED data
         ELSE data' = [data EXCEPT ![b] = platter[blockno[b]]] /\ UNCHANGED platter
  /\ failed' = [failed EXCEPT ![d] = FALSE]
  /\ used' = [used EXCEPT ![usedIdx % NUM] = d] /\ usedIdx' = Inc(usedIdx)
  /\ irq' = TRUE
  /\ UNCHANGED <<blockno, valid, onDisk, refcnt, lock, order, free, next, req, info, avail,
                 availIdx, used_idx, seen, handler, procs, calls>>

Process(p) ==
  \/ \E k \in Blocks : Bget(p, k) \/ BgetPanics(p, k)
  \/ Acquire(p) \/ AcquireWaits(p) \/ Bwrite(p) \/ Brelse(p) \/ Unref(p)
  \/ Submit(p) \/ SubmitWaits(p) \/ WaitOn(p) \/ Return(p)

Next ==
  \/ \E p \in Procs : Process(p) \/ Kill(p)
  \/ Interrupt \/ Completed \/ InterruptReturns
  \/ Take \/ \E d \in Descs : Serve(d)

Spec == Init /\ [][Next]_vars

-----------------------------------------------------------------------------
(***************************************************************************)
(* Properties                                                              *)
(***************************************************************************)
\* The cache with its driver is a store of blocks: a block is in one buffer,
\* which one process has at a time; it holds what was last written, although
\* buffers are recycled and requests come back in any order; and bwrite()
\* returns only when the disk has the block.
Holds(p) == pc[p] = "use" \/ (pc[p] \in {"submit", "descSleep", "ioSleep", "wait"} /\ io[p] = "write")

B == INSTANCE BlockStore
       WITH store <- [k \in Blocks |->
                        IF \E b \in Cached(k) : valid[b]
                          THEN data[CHOOSE b \in Cached(k) : valid[b]] ELSE platter[k]],
            saved <- platter,
            open <- [p \in Procs |-> IF Holds(p) THEN blockno[mine[p]] ELSE NoBlock]

IsBlockStore == B!Spec

Requesters == {p \in Procs : pc[p] \in {"ioSleep", "wait"}}

\* The entries from i up to j of a ring.
Entries(ring, i, j) == {ring[(i + k) % NUM] : k \in 0 .. ((j - i) % Wrap) - 1}

\* A descriptor is free or belongs to one request, from Submit() to Return():
\* what the device works on and what the handler reads in the used ring are
\* requests of processes that still wait for them, with the buffer they gave.
DescriptorsSound ==
  /\ \A p \in Requesters :
       /\ Cardinality(Chain(idx[p])) = 3 /\ info[idx[p]] = mine[p]
       /\ \A q \in Requesters \ {p} : Chain(idx[p]) \cap Chain(idx[q]) = {}
  /\ free = Descs \ UNION {Chain(idx[p]) : p \in Requesters}
  /\ \A d \in Entries(avail, seen, availIdx) \cup service \cup Entries(used, used_idx, usedIdx) :
       \E p \in Requesters : idx[p] = d /\ onDisk[mine[p]]
  /\ \A d \in Entries(used, used_idx, usedIdx) : ~ failed[d]

\* Whoever sleeps has somebody to wake it: for a buffer its holder, for
\* descriptors a request that has them, for a request the device, or a handler
\* that runs or is going to.
NobodyForgotten ==
  /\ \A p \in Procs :
       /\ pc[p] = "lockSleep" => lock[mine[p]] # Nobody
       /\ pc[p] = "descSleep" => Cardinality(free) < 3
       /\ pc[p] = "ioSleep" =>
            /\ onDisk[mine[p]]
            /\ idx[p] \in Entries(avail, seen, availIdx) \cup service
                          \cup Entries(used, used_idx, usedIdx)
  /\ used_idx # usedIdx => irq \/ handler = "loop"
=============================================================================
