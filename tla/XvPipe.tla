------------------------------- MODULE XvPipe -------------------------------
(***************************************************************************)
(* The pipes of the xv6 kernel (kernel/pipe.c) with the reference counts   *)
(* of their two files (kernel/file.c) and the sleep(), wakeup() and kill() *)
(* of kernel/proc.c: processes that fork share the ends of one pipe, write *)
(* and read it, close their ends, and are killed at any moment.            *)
(*                                                                         *)
(* An action is one step of a loop with pi->lock held, or a step that does *)
(* not need it; kill() does not, and so comes between any two.  The counts *)
(* nread and nwrite wrap at Wrap as C's uint does at 2^32.                 *)
(***************************************************************************)
EXTENDS Integers, Sequences, FiniteSets

CONSTANTS Procs, Creator,   \* Creator calls pipe()
          Bytes,
          PIPESIZE, Wrap,
          MaxN,             \* bytes in a call of read() or write()
          MaxCalls, MaxKills  \* bounds for TLC: calls of read() and write(), kills

Ends == {"read", "write"}
Nobody == "nobody"

ASSUME PipeAssumption ==
  /\ Creator \in Procs /\ Nobody \notin Procs /\ Bytes # {}
  /\ PIPESIZE \in Nat \ {0} /\ MaxN \in Nat \ {0} /\ MaxCalls \in Nat /\ MaxKills \in Nat
  /\ Wrap \in Nat /\ Wrap > PIPESIZE /\ Wrap % PIPESIZE = 0   \* 512 divides 2^32

Junk == CHOOSE b \in Bytes : TRUE   \* kalloc() fills a page with one byte

VARIABLES
  data, nread, nwrite, readopen, writeopen, lock, freed,  \* struct pipe
  holds,         \* the ends a process has open; none before it is forked
  alive,         \* the processes that exist
  pc, i, n,      \* of a process: where it is, and the locals of its call
  killed,        \* p->killed
  ended,         \* history: a read() has returned 0
  unannounced,   \* history: a writer left bytes behind without wakeup()
  calls, kills   \* the counters of the bounds

pipe   == <<data, nread, nwrite, readopen, writeopen, freed>>
locals == <<i, n>>
hist   == <<ended, unannounced>>
bounds == <<calls, kills>>
vars   == <<pipe, lock, holds, alive, pc, locals, killed, hist, bounds>>

\* pipealloc(), called by sys_pipe() of the first process.
Init ==
  /\ data = [k \in 0 .. PIPESIZE - 1 |-> Junk]
  /\ nread = 0 /\ nwrite = 0 /\ readopen = TRUE /\ writeopen = TRUE
  /\ freed = FALSE /\ lock = Nobody
  /\ alive = {Creator}
  /\ holds = [p \in Procs |-> IF p = Creator THEN Ends ELSE {}]
  /\ pc = [p \in Procs |-> "user"]
  /\ i = [p \in Procs |-> 0] /\ n = [p \in Procs |-> 0]
  /\ killed = [p \in Procs |-> FALSE]
  /\ ended = FALSE /\ unannounced = FALSE /\ calls = 0 /\ kills = 0

-----------------------------------------------------------------------------
At(p, s) == p \in alive /\ pc[p] = s
Goto(p, s) == pc' = [pc EXCEPT ![p] = s]

\* wakeup() of those who sleep at s, while p goes to t: they want the lock again.
Wakes(s, p, t) ==
  pc' = [q \in Procs |-> CASE q = p -> t
                           [] pc[q] = "writeSleep" /\ s = "writeSleep" -> "writeLock"
                           [] pc[q] = "readSleep" /\ s = "readSleep" -> "readLock"
                           [] OTHER -> pc[q]]

Inc(k) == (k + 1) % Wrap
Empty == nread = nwrite
\* Mutant: one byte too many fits.
FullLate == nwrite = (nread + PIPESIZE + 1) % Wrap

Full == nwrite = (nread + PIPESIZE) % Wrap

\* A call starts: pi->lock is still to be taken.
Call(p, end, s) ==
  /\ At(p, "user") /\ ~ killed[p] /\ end \in holds[p]
  /\ calls < MaxCalls /\ calls' = calls + 1
  /\ \E k \in 1 .. MaxN : n' = [n EXCEPT ![p] = k]
  /\ i' = [i EXCEPT ![p] = 0]
  /\ Goto(p, s)
  /\ UNCHANGED <<pipe, lock, holds, alive, killed, hist, kills>>

\* acquire(&pi->lock), also at the end of sleep().
Acquire(p, s, t) ==
  /\ At(p, s) /\ lock = Nobody
  /\ lock' = p /\ Goto(p, t)
  /\ UNCHANGED <<pipe, holds, alive, locals, killed, hist, bounds>>

\* release(), and back to the caller with nothing left of the call.
Return(p) ==
  /\ lock' = Nobody
  /\ i' = [i EXCEPT ![p] = 0] /\ n' = [n EXCEPT ![p] = 0]

-----------------------------------------------------------------------------
(***************************************************************************)
(* pipewrite()                                                             *)
(***************************************************************************)
\* The reader is gone, or this process is to die.
WriteFails(p) ==
  /\ At(p, "write") /\ i[p] < n[p]
  /\ ~ readopen \/ killed[p]
  /\ Return(p) /\ Goto(p, "user")
  /\ unannounced' = (unannounced \/ (i[p] > 0 /\ ~ Empty))
  /\ UNCHANGED <<pipe, holds, alive, killed, ended, bounds>>

\* The pipe is full: wakeup(&pi->nread); sleep(&pi->nwrite, &pi->lock).
WriteWaits(p) ==
  /\ At(p, "write") /\ i[p] < n[p] /\ readopen /\ ~ killed[p]
  /\ Full
  /\ Wakes("readSleep", p, "writeSleep") /\ lock' = Nobody
  /\ unannounced' = FALSE
  /\ UNCHANGED <<pipe, holds, alive, locals, killed, ended, bounds>>

WriteByte(p) ==
  /\ At(p, "write") /\ i[p] < n[p] /\ readopen /\ ~ killed[p]
  /\ ~ Full
  /\ \E b \in Bytes : data' = [data EXCEPT ![nwrite % PIPESIZE] = b]
  /\ nwrite' = Inc(nwrite) /\ i' = [i EXCEPT ![p] = @ + 1]
  /\ UNCHANGED <<nread, readopen, writeopen, freed, lock, holds, alive, pc, n, killed, hist, bounds>>

\* Mutant: pipewrite() does not wake the readers.
WriteReturnsSilently(p) ==
  /\ At(p, "write")
  /\ \/ i[p] = n[p]
     \/ i[p] < n[p] /\ readopen /\ ~ killed[p] /\ ~ Full
  /\ Goto(p, "user") /\ Return(p)
  /\ unannounced' = FALSE
  /\ UNCHANGED <<pipe, holds, alive, killed, ended, bounds>>

\* All is written, or copyin() fails.
WriteReturns(p) ==
  /\ At(p, "write")
  /\ \/ i[p] = n[p]
     \/ i[p] < n[p] /\ readopen /\ ~ killed[p] /\ ~ Full
  /\ Wakes("readSleep", p, "user") /\ Return(p)
  /\ unannounced' = FALSE
  /\ UNCHANGED <<pipe, holds, alive, killed, ended, bounds>>

-----------------------------------------------------------------------------
(***************************************************************************)
(* piperead()                                                              *)
(***************************************************************************)
ReadKilled(p) ==
  /\ At(p, "read") /\ Empty /\ writeopen /\ killed[p]
  /\ Return(p) /\ Goto(p, "user")
  /\ UNCHANGED <<pipe, holds, alive, killed, hist, bounds>>

ReadWaits(p) ==
  /\ At(p, "read") /\ Empty /\ writeopen /\ ~ killed[p]
  /\ lock' = Nobody /\ Goto(p, "readSleep")
  /\ UNCHANGED <<pipe, holds, alive, locals, killed, hist, bounds>>

ReadStarts(p) ==
  /\ At(p, "read") /\ ~ (Empty /\ writeopen)
  /\ Goto(p, "copy")
  /\ UNCHANGED <<pipe, lock, holds, alive, locals, killed, hist, bounds>>

\* A byte leaves the pipe and reaches the reader.
ReadByte(p) ==
  /\ At(p, "copy") /\ i[p] < n[p] /\ ~ Empty
  /\ nread' = Inc(nread) /\ i' = [i EXCEPT ![p] = @ + 1]
  /\ UNCHANGED <<data, nwrite, readopen, writeopen, freed, lock, holds, alive, pc, n, killed, hist, bounds>>

\* It leaves the pipe and copyout() fails: read() returns without it.
ReadByteLost(p) ==
  /\ At(p, "copy") /\ i[p] < n[p] /\ ~ Empty
  /\ nread' = Inc(nread)
  /\ Wakes("writeSleep", p, "user") /\ Return(p)
  /\ UNCHANGED <<data, nwrite, readopen, writeopen, freed, holds, alive, killed, hist, bounds>>

ReadReturns(p) ==
  /\ At(p, "copy") /\ (i[p] = n[p] \/ Empty)
  /\ Wakes("writeSleep", p, "user") /\ Return(p)
  /\ ended' = (ended \/ i[p] = 0)
  /\ UNCHANGED <<pipe, holds, alive, killed, unannounced, bounds>>

-----------------------------------------------------------------------------
(***************************************************************************)
(* fork(), close(), exit() and kill()                                      *)
(***************************************************************************)
Closing(end) == IF end = "write" THEN "writeClose" ELSE "readClose"
Holders(end) == {p \in Procs : end \in holds[p]}

Fork(p, q) ==
  /\ At(p, "user") /\ ~ killed[p] /\ q \notin alive /\ killed[q] = FALSE
  /\ alive' = alive \cup {q} /\ holds' = [holds EXCEPT ![q] = holds[p]]
  /\ UNCHANGED <<pipe, lock, pc, locals, killed, hist, bounds>>

\* fileclose(): only the last reference to the file closes the end of the pipe.
Close(p, end) ==
  /\ At(p, "user") /\ end \in holds[p]
  /\ holds' = [holds EXCEPT ![p] = @ \ {end}]
  /\ Goto(p, IF Holders(end) = {p} THEN Closing(end) ELSE "user")
  /\ UNCHANGED <<pipe, lock, alive, locals, killed, hist, bounds>>

\* Mutant: the page is freed with the write end.
PipeCloseFrees(p) ==
  /\ At(p, "writeClose") /\ lock = Nobody
  /\ writeopen' = FALSE /\ Wakes("readSleep", p, "user")
  /\ freed' = TRUE /\ unannounced' = FALSE
  /\ UNCHANGED <<data, nread, nwrite, readopen, lock, holds, alive, locals, killed, ended, bounds>>

\* Mutant: pipeclose() does not wake the readers.
PipeCloseSilently(p) ==
  /\ At(p, "writeClose") /\ lock = Nobody
  /\ writeopen' = FALSE /\ Goto(p, "user")
  /\ freed' = ~ readopen /\ unannounced' = FALSE
  /\ UNCHANGED <<data, nread, nwrite, readopen, lock, holds, alive, locals, killed, ended, bounds>>

\* pipeclose(), one critical section; the page is freed with the second end.
PipeCloseWrite(p) ==
  /\ At(p, "writeClose") /\ lock = Nobody
  /\ writeopen' = FALSE /\ Wakes("readSleep", p, "user")
  /\ freed' = ~ readopen /\ unannounced' = FALSE
  /\ UNCHANGED <<data, nread, nwrite, readopen, lock, holds, alive, locals, killed, ended, bounds>>

PipeCloseRead(p) ==
  /\ At(p, "readClose") /\ lock = Nobody
  /\ readopen' = FALSE /\ Wakes("writeSleep", p, "user")
  /\ freed' = ~ writeopen
  /\ UNCHANGED <<data, nread, nwrite, writeopen, lock, holds, alive, locals, killed, hist, bounds>>

\* kill() sets the flag and ends a sleep; it does not take pi->lock.
Kill(p) ==
  /\ p \in alive /\ ~ killed[p] /\ kills < MaxKills /\ kills' = kills + 1
  /\ killed' = [killed EXCEPT ![p] = TRUE]
  /\ Goto(p, CASE pc[p] = "writeSleep" -> "writeLock"
               [] pc[p] = "readSleep" -> "readLock"
               [] OTHER -> pc[p])
  /\ UNCHANGED <<pipe, lock, holds, alive, locals, hist, calls>>

\* exit(), once every file is closed.
Exit(p) ==
  /\ At(p, "user") /\ holds[p] = {}
  /\ alive' = alive \ {p}
  /\ UNCHANGED <<pipe, lock, holds, pc, locals, killed, hist, bounds>>

-----------------------------------------------------------------------------
\* What p does once it has entered the kernel.
InKernel(p) ==
  \/ Acquire(p, "writeLock", "write") \/ Acquire(p, "readLock", "read")
  \/ WriteFails(p) \/ WriteWaits(p) \/ WriteByte(p) \/ WriteReturns(p)
  \/ ReadKilled(p) \/ ReadWaits(p) \/ ReadStarts(p)
  \/ ReadByte(p) \/ ReadByteLost(p) \/ ReadReturns(p)
  \/ PipeCloseWrite(p) \/ PipeCloseRead(p)

Next ==
  \/ \E p \in Procs :
       \/ Call(p, "write", "writeLock") \/ Call(p, "read", "readLock")
       \/ InKernel(p)
       \/ \E q \in Procs : Fork(p, q)
       \/ \E end \in Ends : Close(p, end)
       \/ Kill(p) \/ Exit(p)

Spec == Init /\ [][Next]_vars

\* The scheduler runs every process that is in the kernel, and a process that
\* spins for pi->lock gets it when it becomes free again and again.
FairSpec == Spec /\ \A p \in Procs : SF_vars(InKernel(p))

-----------------------------------------------------------------------------
(***************************************************************************)
(* Properties                                                              *)
(***************************************************************************)
TypeOK ==
  /\ data \in [0 .. PIPESIZE - 1 -> Bytes]
  /\ {nread, nwrite} \subseteq 0 .. Wrap - 1
  /\ {readopen, writeopen, freed, ended, unannounced} \subseteq BOOLEAN
  /\ lock \in Procs \cup {Nobody} /\ alive \subseteq Procs
  /\ holds \in [Procs -> SUBSET Ends]
  /\ pc \in [Procs -> {"user", "writeLock", "write", "writeSleep", "readLock", "read",
                       "copy", "readSleep", "writeClose", "readClose"}]
  /\ i \in [Procs -> 0 .. MaxN] /\ n \in [Procs -> 0 .. MaxN]
  /\ killed \in [Procs -> BOOLEAN] /\ calls \in 0 .. MaxCalls /\ kills \in 0 .. MaxKills

\* The bytes between nread and nwrite.
Contents == [k \in 1 .. (nwrite - nread) % Wrap |-> data[(nread + k - 1) % PIPESIZE]]

ByteQ == INSTANCE ByteQueue
           WITH queue <- Contents, writers <- writeopen, Capacity <- PIPESIZE

\* Whatever processes share its ends and are killed, and past the wrap of its
\* counters, the pipe is a bounded queue of bytes with an end: pipewrite() adds
\* at the back, piperead() takes from the front and returns 0 only at the end.
IsByteQueue == ByteQ!Spec

\* With pi->lock free, a reader sleeps only in an empty pipe that has a writer,
\* and a writer only at a full pipe that has a reader.  One case is excepted: a
\* writer killed after it has written returns without the wakeup() at its end.
NobodyStranded ==
  lock = Nobody => \A p \in Procs :
    /\ pc[p] = "readSleep" => writeopen /\ (Empty \/ unannounced)
    /\ pc[p] = "writeSleep" => readopen /\ Full

\* pipeclose() frees the page after the last use of it: the ends that processes
\* hold, and nothing else, keep it, whoever closes the two ends at once.
FreedUnused ==
  /\ freed => \A p \in Procs : holds[p] = {} /\ pc[p] = "user"
  /\ \A end \in Ends : Holders(end) # {} => IF end = "read" THEN readopen ELSE writeopen

\* A read() or write() that is under way when the other end is closed comes to
\* its end: piperead() sees the end of the pipe, pipewrite() returns -1.
EndReleases ==
  \A p \in Procs :
    /\ ~ writeopen /\ pc[p] = "readSleep" ~> pc[p] = "user"
    /\ ~ readopen /\ pc[p] = "writeSleep" ~> pc[p] = "user"
=============================================================================
