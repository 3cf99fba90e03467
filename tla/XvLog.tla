-------------------------------- MODULE XvLog --------------------------------
(***************************************************************************)
(* The write-ahead log of the xv6 kernel (kernel/log.c) over the buffer    *)
(* cache (kernel/bio.c): processes run file system operations between      *)
(* begin_op() and end_op(), the last one out commits, the machine may stop *)
(* between any two disk writes and recovers when it starts again.          *)
(*                                                                         *)
(* An action is a critical section of log.lock or bcache.lock, or a disk   *)
(* write with the buffer locked.  Of a buffer the model keeps its contents *)
(* `buf', refcnt and the holder of its sleep-lock; which unused buffer a   *)
(* miss recycles is left open.  The log's own blocks are written by one    *)
(* process at a time, so `logData' and `head' stand for disk and cache.    *)
(***************************************************************************)
EXTENDS Integers, Sequences, FiniteSets, SequencesExt

CONSTANTS Procs, Blocks,        \* processes, and disk blocks outside the log
          Values, Blank,        \* what a block may hold, and holds at first
          MAXOPBLOCKS, LOGSIZE, \* param.h
          NLog,                 \* sb->nlog: blocks of the log, header included
          MaxCalls, MaxCrashes  \* bounds for TLC: calls of begin_op and bread, crashes

NotCached == "no buffer"   \* no buffer holds the block
Invalid   == "not valid"   \* a buffer allocated to the block, not yet read
Nobody    == "nobody"
NoBlock   == "no block"

ASSUME ValuesAssumption == Blank \in Values /\ {NotCached, Invalid} \cap Values = {}
ASSUME ProcsAssumption == IsFiniteSet(Procs) /\ Nobody \notin Procs /\ NoBlock \notin Blocks
ASSUME LogAssumption ==
  /\ MAXOPBLOCKS \in Nat \ {0} /\ LOGSIZE \in Nat /\ NLog \in Nat
  /\ MAXOPBLOCKS <= LOGSIZE /\ LOGSIZE < NLog
ASSUME BoundsAssumption == MaxCalls \in Nat /\ MaxCrashes \in Nat

VARIABLES
  home, logData, head,           \* disk: the blocks, the log blocks, the header
  lh, outstanding, committing,   \* struct log
  buf, refcnt, lock,             \* per block: its buffer
  mode, tail,                    \* booting, running or stopped by a panic; for-loops
  pc, blk, ops, logged,          \* per process; ops: those inside an operation;
                                 \* logged: the blocks an operation has logged
  calls, crashes                 \* the counters of the bounds

disk   == <<home, logData, head>>
logst  == <<lh, outstanding, committing>>
cache  == <<buf, refcnt, lock>>
procs  == <<pc, blk, ops, logged>>
bounds == <<calls, crashes>>
vars   == <<disk, logst, cache, mode, tail, procs, bounds>>

Init ==
  /\ home = [b \in Blocks |-> Blank]
  /\ logData = [i \in 1..LOGSIZE |-> Blank] /\ head = <<>>
  /\ lh = <<>> /\ outstanding = 0 /\ committing = FALSE
  /\ buf = [b \in Blocks |-> NotCached]
  /\ refcnt = [b \in Blocks |-> 0] /\ lock = [b \in Blocks |-> Nobody]
  /\ mode = "readHead" /\ tail = 0
  /\ pc = [p \in Procs |-> "idle"] /\ blk = [p \in Procs |-> NoBlock]
  /\ ops = {} /\ logged = [p \in Procs |-> {}]
  /\ calls = 0 /\ crashes = 0

Running == mode = "up"

\* sleep(&log) and wakeup(&log): `p' goes to s, the sleepers look again.
WakeupLog(p, s) ==
  pc' = [q \in Procs |-> IF q = p THEN s ELSE IF pc[q] = "asleep" THEN "begin" ELSE pc[q]]

Goto(p, s) == pc' = [pc EXCEPT ![p] = s]

-----------------------------------------------------------------------------
(***************************************************************************)
(* bio.c                                                                   *)
(***************************************************************************)
\* The caches a miss may leave: one buffer nobody refers to is recycled, or one
\* that held none of these blocks.
Recycled(cached) ==
  {cached} \cup {[cached EXCEPT ![v] = NotCached] :
                   v \in {b \in Blocks : cached[b] # NotCached /\ refcnt[b] = 0}}

\* Mutant: a hit does not count the reference.
BgetUncounted(p, b) ==
  /\ Running /\ pc[p] \in {"idle", "op"}
  /\ calls < MaxCalls /\ calls' = calls + 1
  /\ Goto(p, "want") /\ blk' = [blk EXCEPT ![p] = b]
  /\ \/ /\ buf[b] # NotCached
        /\ UNCHANGED <<buf, refcnt>>
     \/ /\ buf[b] = NotCached
        /\ \E c \in Recycled(buf) : buf' = [c EXCEPT ![b] = Invalid]
        /\ refcnt' = [refcnt EXCEPT ![b] = 1]
  /\ UNCHANGED <<disk, logst, lock, mode, tail, ops, logged, crashes>>

\* bget(), up to the wait for the sleep-lock.
Bget(p, b) ==
  /\ Running /\ pc[p] \in {"idle", "op"}
  /\ calls < MaxCalls /\ calls' = calls + 1
  /\ Goto(p, "want") /\ blk' = [blk EXCEPT ![p] = b]
  /\ \/ /\ buf[b] # NotCached
        /\ refcnt' = [refcnt EXCEPT ![b] = @ + 1] /\ UNCHANGED buf
     \/ /\ buf[b] = NotCached
        /\ \E c \in Recycled(buf) : buf' = [c EXCEPT ![b] = Invalid]
        /\ refcnt' = [refcnt EXCEPT ![b] = 1]
  /\ UNCHANGED <<disk, logst, lock, mode, tail, ops, logged, crashes>>

\* acquiresleep(), and bread()'s read from the disk into a buffer not valid.
Lock(p) ==
  /\ Running /\ pc[p] = "want" /\ lock[blk[p]] = Nobody
  /\ Goto(p, "hold")
  /\ lock' = [lock EXCEPT ![blk[p]] = p]
  /\ buf' = [buf EXCEPT ![blk[p]] = IF @ = Invalid THEN home[blk[p]] ELSE @]
  /\ UNCHANGED <<disk, logst, refcnt, mode, tail, blk, ops, logged, bounds>>

Brelse(p) ==
  /\ Running /\ pc[p] = "hold"
  /\ Goto(p, IF p \in ops THEN "op" ELSE "idle")
  /\ lock' = [lock EXCEPT ![blk[p]] = Nobody]
  /\ refcnt' = [refcnt EXCEPT ![blk[p]] = @ - 1]
  /\ blk' = [blk EXCEPT ![p] = NoBlock]
  /\ UNCHANGED <<disk, logst, buf, mode, tail, ops, logged, bounds>>

-----------------------------------------------------------------------------
(***************************************************************************)
(* begin_op(), log_write(), end_op()                                       *)
(***************************************************************************)
\* The test of begin_op() for log space.
MightExhaust == Len(lh) + (outstanding + 1) * MAXOPBLOCKS > LOGSIZE

\* Mutant: the operations already running are not counted.
BeginOpUnreserved(p) ==
  /\ Running
  /\ \/ pc[p] = "idle" /\ calls < MaxCalls /\ calls' = calls + 1
     \/ pc[p] = "begin" /\ UNCHANGED calls
  /\ \/ /\ committing \/ Len(lh) + MAXOPBLOCKS > LOGSIZE
        /\ Goto(p, "asleep") /\ UNCHANGED <<ops, logged, outstanding>>
     \/ /\ ~committing /\ Len(lh) + MAXOPBLOCKS <= LOGSIZE
        /\ Goto(p, "op") /\ ops' = ops \cup {p}
        /\ logged' = [logged EXCEPT ![p] = {}]
        /\ outstanding' = outstanding + 1
  /\ UNCHANGED <<disk, lh, committing, cache, mode, tail, blk, crashes>>

BeginOp(p) ==
  /\ Running
  /\ \/ pc[p] = "idle" /\ calls < MaxCalls /\ calls' = calls + 1
     \/ pc[p] = "begin" /\ UNCHANGED calls
  /\ \/ /\ committing \/ MightExhaust
        /\ Goto(p, "asleep") /\ UNCHANGED <<ops, logged, outstanding>>
     \/ /\ ~committing /\ ~MightExhaust
        /\ Goto(p, "op") /\ ops' = ops \cup {p}
        /\ logged' = [logged EXCEPT ![p] = {}]
        /\ outstanding' = outstanding + 1
  /\ UNCHANGED <<disk, lh, committing, cache, mode, tail, blk, crashes>>

\* An operation changes the block it holds; no operation logs more than
\* MAXOPBLOCKS blocks.
Modifies(p) ==
  /\ Running /\ pc[p] = "hold" /\ p \in ops
  /\ Cardinality(logged[p] \cup {blk[p]}) <= MAXOPBLOCKS

TooBig == Len(lh) >= LOGSIZE \/ Len(lh) >= NLog - 1

\* Mutant: a block that joins the log is not pinned in the cache.
LogWriteUnpinned(p, v) ==
  LET b == blk[p] IN
  /\ Modifies(p) /\ ~TooBig
  /\ buf' = [buf EXCEPT ![b] = v]
  /\ logged' = [logged EXCEPT ![p] = @ \cup {b}]
  /\ lh' = IF b \in ToSet(lh) THEN lh ELSE Append(lh, b)
  /\ UNCHANGED <<disk, outstanding, committing, refcnt, lock, mode, tail, pc, blk, ops, bounds>>

LogWrite(p, v) ==
  LET b == blk[p] IN
  /\ Modifies(p) /\ ~TooBig
  /\ buf' = [buf EXCEPT ![b] = v]
  /\ logged' = [logged EXCEPT ![p] = @ \cup {b}]
  /\ \/ b \in ToSet(lh) /\ UNCHANGED <<lh, refcnt>>
     \/ /\ b \notin ToSet(lh)
        /\ lh' = Append(lh, b)
        /\ refcnt' = [refcnt EXCEPT ![b] = @ + 1]
  /\ UNCHANGED <<disk, outstanding, committing, lock, mode, tail, pc, blk, ops, bounds>>

\* panic("too big a transaction"); the block has been modified in memory only.
LogWritePanic(p) ==
  /\ Modifies(p) /\ TooBig
  /\ mode' = "panic"
  /\ UNCHANGED <<disk, logst, cache, tail, procs, bounds>>

EndOp(p) ==
  /\ Running /\ pc[p] = "op"
  /\ outstanding' = outstanding - 1 /\ ops' = ops \ {p}
  /\ \/ /\ outstanding = 1
        /\ committing' = TRUE /\ tail' = 0
        /\ Goto(p, IF lh = <<>> THEN "done" ELSE "writeLog")
     \/ /\ outstanding # 1
        /\ WakeupLog(p, "idle") /\ UNCHANGED <<committing, tail>>
  /\ UNCHANGED <<disk, lh, cache, mode, blk, logged, bounds>>

-----------------------------------------------------------------------------
(***************************************************************************)
(* commit(): one action per disk write.                                    *)
(***************************************************************************)
Committer(p, phase) == Running /\ pc[p] = phase

\* bread() of the log's next block.  It waits while a reader has it locked.
NextLogged == lh[tail + 1]
NextIsFree == tail < Len(lh) /\ lock[NextLogged] = Nobody

WriteLog(p) ==
  /\ Committer(p, "writeLog") /\ NextIsFree
  /\ logData' = [logData EXCEPT ![tail + 1] = buf[NextLogged]]
  /\ tail' = tail + 1
  /\ buf' \in Recycled(buf)
  /\ UNCHANGED <<home, head, logst, refcnt, lock, mode, procs, bounds>>

\* Mutant: the header is written before the log blocks.
WriteHeadEarly(p) ==
  /\ Committer(p, "writeLog")
  /\ (tail = 0 /\ head = <<>>) \/ tail = Len(lh)
  /\ head' = lh
  /\ \/ tail = Len(lh) /\ tail' = 0 /\ Goto(p, "install")
     \/ tail # Len(lh) /\ UNCHANGED <<tail, pc>>
  /\ UNCHANGED <<home, logData, logst, cache, mode, blk, ops, logged, bounds>>

\* write_head() with the blocks in the log: the transaction commits.
WriteHead(p) ==
  /\ Committer(p, "writeLog") /\ tail = Len(lh)
  /\ head' = lh /\ tail' = 0
  /\ Goto(p, "install")
  /\ buf' \in Recycled(buf)
  /\ UNCHANGED <<home, logData, logst, refcnt, lock, mode, blk, ops, logged, bounds>>

\* The loop body of install_trans(0).
Install(p) ==
  /\ Committer(p, "install") /\ NextIsFree
  /\ home' = [home EXCEPT ![NextLogged] = logData[tail + 1]]
  /\ buf' \in Recycled([buf EXCEPT ![NextLogged] = logData[tail + 1]])
  /\ refcnt' = [refcnt EXCEPT ![NextLogged] = @ - 1]
  /\ tail' = tail + 1
  /\ UNCHANGED <<logData, head, logst, lock, mode, procs, bounds>>

\* log.lh.n = 0; write_head()
ClearHead(p) ==
  /\ Committer(p, "install") /\ tail = Len(lh)
  /\ lh' = <<>> /\ head' = <<>> /\ tail' = 0
  /\ Goto(p, "done")
  /\ buf' \in Recycled(buf)
  /\ UNCHANGED <<home, logData, outstanding, committing, refcnt, lock, mode, blk, ops,
                 logged, bounds>>

\* Mutant: the sleepers of begin_op() are not woken.
CommittedSilently(p) ==
  /\ Committer(p, "done")
  /\ committing' = FALSE
  /\ Goto(p, "idle")
  /\ UNCHANGED <<disk, lh, outstanding, cache, mode, tail, blk, ops, logged, bounds>>

\* The end of end_op().
Committed(p) ==
  /\ Committer(p, "done")
  /\ committing' = FALSE
  /\ WakeupLog(p, "idle")
  /\ UNCHANGED <<disk, lh, outstanding, cache, mode, tail, blk, ops, logged, bounds>>

-----------------------------------------------------------------------------
(***************************************************************************)
(* The machine stops, and recover_from_log() when it starts again, before  *)
(* any process can use the file system.                                    *)
(***************************************************************************)
Crash ==
  /\ crashes < MaxCrashes /\ crashes' = crashes + 1
  /\ lh' = <<>> /\ outstanding' = 0 /\ committing' = FALSE
  /\ buf' = [b \in Blocks |-> NotCached]
  /\ refcnt' = [b \in Blocks |-> 0] /\ lock' = [b \in Blocks |-> Nobody]
  /\ mode' = "readHead" /\ tail' = 0
  /\ pc' = [p \in Procs |-> "idle"] /\ blk' = [p \in Procs |-> NoBlock]
  /\ ops' = {} /\ logged' = [p \in Procs |-> {}]
  /\ UNCHANGED <<disk, calls>>

ReadHead ==
  /\ mode = "readHead" /\ mode' = "recover"
  /\ lh' = head /\ tail' = 0
  /\ UNCHANGED <<disk, outstanding, committing, cache, procs, bounds>>

\* The loop body of install_trans(1): no bunpin().
RecoverBlock ==
  /\ mode = "recover" /\ tail < Len(lh)
  /\ home' = [home EXCEPT ![NextLogged] = logData[tail + 1]]
  /\ buf' = [buf EXCEPT ![NextLogged] = logData[tail + 1]]
  /\ tail' = tail + 1
  /\ UNCHANGED <<logData, head, logst, refcnt, lock, mode, procs, bounds>>

ClearLog ==
  /\ mode = "recover" /\ tail = Len(lh)
  /\ mode' = "up" /\ lh' = <<>> /\ head' = <<>> /\ tail' = 0
  /\ UNCHANGED <<home, logData, outstanding, committing, cache, procs, bounds>>

Boot == ReadHead \/ RecoverBlock \/ ClearLog

\* What a process does once it has calls; a process outside an operation reads.
Finish(p) ==
  \/ pc[p] = "begin" /\ BeginOp(p)
  \/ Lock(p) \/ Brelse(p) \/ EndOp(p)
  \/ WriteLog(p) \/ WriteHead(p) \/ Install(p) \/ ClearHead(p) \/ Committed(p)

Process(p) ==
  \/ BeginOp(p)
  \/ \E b \in Blocks : Bget(p, b)
  \/ \E v \in Values : LogWrite(p, v)
  \/ LogWritePanic(p)
  \/ Finish(p)

Next == Boot \/ Crash \/ \E p \in Procs : Process(p)

Spec == Init /\ [][Next]_vars

\* What has begun goes on; nobody has to make a call, and the machine may stay up.
FairSpec == Spec /\ WF_vars(Boot) /\ \A p \in Procs : WF_vars(Finish(p))

-----------------------------------------------------------------------------
(***************************************************************************)
(* Properties.                                                             *)
(***************************************************************************)
\* The type invariant.
TypeOK ==
  /\ home \in [Blocks -> Values] /\ logData \in [1..LOGSIZE -> Values]
  /\ head \in Seq(Blocks) /\ lh \in Seq(Blocks) /\ Len(lh) <= LOGSIZE
  /\ outstanding \in Nat /\ committing \in BOOLEAN
  /\ buf \in [Blocks -> Values \cup {NotCached, Invalid}]
  /\ refcnt \in [Blocks -> Nat] /\ lock \in [Blocks -> Procs \cup {Nobody}]
  /\ mode \in {"readHead", "recover", "up", "panic"} /\ tail \in 0..Len(lh)
  /\ pc \in [Procs -> {"idle", "begin", "asleep", "op", "want", "hold",
                       "writeLog", "install", "done"}]
  /\ blk \in [Procs -> Blocks \cup {NoBlock}]
  /\ ops \subseteq Procs /\ logged \in [Procs -> SUBSET Blocks]
  /\ calls \in 0..MaxCalls /\ crashes \in 0..MaxCrashes

\* What recovery would make of the disk as it is.
Recovered ==
  [b \in Blocks |-> IF b \in ToSet(head)
                    THEN logData[CHOOSE i \in DOMAIN head : head[i] = b]
                    ELSE home[b]]

\* What a bread() would return.
Seen ==
  IF mode \in {"readHead", "recover"} THEN Recovered
  ELSE [b \in Blocks |-> IF buf[b] \in Values THEN buf[b] ELSE home[b]]

\* The log implements atomic, durable transactions: overlapping operations
\* reach the disk together, at one write, or not at all, whatever write the
\* machine stops after, in recovery too; and no operation begins between the
\* end of a transaction and its commit.
A == INSTANCE AtomicDisk WITH durable <- Recovered, current <- Seen, active <- ops
Atomicity == A!Spec

\* The blocks of the log whose home location is not up to date.
Pending ==
  LET done == IF \E p \in Procs : pc[p] = "install" THEN tail ELSE 0
  IN  {lh[i] : i \in (done + 1)..Len(lh)}

\* The disk does not have the contents of a pending block, so its buffer must not
\* be recycled before install_trans(): it is in the log once, is pinned once more
\* than it is in use, and stays valid.  Every other valid buffer equals the disk.
Pinned ==
  mode = "up" =>
    /\ \A i, j \in DOMAIN lh : lh[i] = lh[j] => i = j
    /\ \A b \in Blocks :
         refcnt[b] = Cardinality({p \in Procs : blk[p] = b}) + (IF b \in Pending THEN 1 ELSE 0)
    /\ \A b \in Blocks :
         IF b \in Pending THEN buf[b] \in Values ELSE buf[b] \in Values => buf[b] = home[b]

\* What the operations inside may still log: one place for each block short of
\* MAXOPBLOCKS.
Unused == {place \in ops \X (1..MAXOPBLOCKS) : place[2] > Cardinality(logged[place[1]])}

\* begin_op() admits an operation only if the log has room for all it may log:
\* the blocks in the log and those the operations inside may still add fit.
Reserved ==
  mode = "up" =>
    /\ outstanding = Cardinality(ops)
    /\ Len(lh) + Cardinality(Unused) <= LOGSIZE

\* Every begin_op() returns and every commit ends, unless the machine stops.
BeginReturns ==
  \A p \in Procs :
    pc[p] \in {"begin", "asleep"} ~> pc[p] \notin {"begin", "asleep"} \/ mode = "panic"
=============================================================================
