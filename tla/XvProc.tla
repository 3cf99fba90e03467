-------------------------------- MODULE XvProc --------------------------------
(***************************************************************************)
(* Processes of the xv6 kernel (kernel/proc.c): fork, exit, wait, kill,    *)
(* sleep and wakeup, and the scheduler of every CPU.                       *)
(*                                                                         *)
(* A CPU runs its scheduler or the kernel thread of one process; `on' says *)
(* which stack it is on, `proc' is c->proc, `at' where a thread is and     *)
(* `resume' where it goes on after a swtch() back to it.  Spin-locks are   *)
(* held by CPUs, and p->lock is handed over a swtch().  An action is what  *)
(* a CPU does between two acquires, or a swtch().  Memory, files and the   *)
(* time a process spends in user space are left out; a pid stands for the  *)
(* slot of the process table, and pid 0 for the first unused slot.         *)
(***************************************************************************)
EXTENDS Integers, FiniteSets

CONSTANTS NPROC, CPUs,
          MaxSyscalls   \* bound for TLC: calls of fork, kill and of wait

Slots     == 1..NPROC
initproc  == 1
None      == 0
NoCPU     == "nobody"
Scheduler == 0

ASSUME ProcAssumption ==
  NPROC \in Nat \ {0} /\ MaxSyscalls \in Nat /\ NoCPU \notin CPUs

VARIABLES
  state, chan, killed, parent,   \* struct proc
  plock, wait_lock,              \* the CPU that holds p->lock, and wait_lock
  on, proc,                      \* per CPU
  at, resume,                    \* per kernel thread
  child, scan,                   \* fork's new slot, and the index of wakeup()
  syscalls

table == <<state, chan, killed, parent>>
locks == <<plock, wait_lock>>
cpus  == <<on, proc>>
local == <<resume, child, scan>>
procVars  == <<table, locks, cpus, at, local, syscalls>>

\* userinit() has set up init; the CPUs enter scheduler().
ProcInit ==
  /\ state = [p \in Slots |-> IF p = initproc THEN "RUNNABLE" ELSE "UNUSED"]
  /\ chan = [p \in Slots |-> None] /\ killed = [p \in Slots |-> FALSE]
  /\ parent = [p \in Slots |-> None]
  /\ plock = [p \in Slots |-> NoCPU] /\ wait_lock = NoCPU
  /\ on = [c \in CPUs |-> Scheduler] /\ proc = [c \in CPUs |-> None]
  /\ at = [p \in Slots |-> "off"] /\ resume = [p \in Slots |-> "user"]
  /\ child = [p \in Slots |-> None] /\ scan = [p \in Slots |-> 1]
  /\ syscalls = 0

Acquire(c, p) == plock[p] = NoCPU /\ plock' = [plock EXCEPT ![p] = c]
Free(p)       == plock[p] = NoCPU
Enter(p, s)   == at' = [at EXCEPT ![p] = s]

\* CPU c runs the kernel thread of p, which is at s.
At(c, p, s) == on[c] = p /\ at[p] = s

Call == syscalls < MaxSyscalls /\ syscalls' = syscalls + 1

Children(p) == {q \in Slots : parent[q] = p}
Zombies(p)  == {q \in Children(p) : state[q] = "ZOMBIE"}

-----------------------------------------------------------------------------
(***************************************************************************)
(* scheduler(), sched() and yield()                                        *)
(***************************************************************************)
Schedule(c, q) ==
  /\ on[c] = Scheduler /\ proc[c] = None
  /\ state[q] = "RUNNABLE" /\ Acquire(c, q)
  /\ state' = [state EXCEPT ![q] = "RUNNING"]
  /\ proc' = [proc EXCEPT ![c] = q] /\ on' = [on EXCEPT ![c] = q]
  /\ Enter(q, "resumed")
  /\ UNCHANGED <<chan, killed, parent, wait_lock, local, syscalls>>

\* After the swtch(): the end of sched(), sleep() or yield(), or forkret().
Resumed(c, p) ==
  /\ At(c, p, "resumed")
  /\ chan' = [chan EXCEPT ![p] = None]
  /\ plock' = [plock EXCEPT ![p] = NoCPU]
  /\ Enter(p, resume[p]) /\ resume' = [resume EXCEPT ![p] = "user"]
  /\ UNCHANGED <<state, killed, parent, wait_lock, cpus, child, scan, syscalls>>

\* Mutant: yield() lets go of p->lock before sched().
YieldUnlocked(c, p) ==
  /\ on[c] = p /\ at[p] \in {"user", "forkParent", "forkRun", "exitLock"}
  /\ Free(p) /\ UNCHANGED plock
  /\ state' = [state EXCEPT ![p] = "RUNNABLE"]
  /\ resume' = [resume EXCEPT ![p] = at[p]]
  /\ Enter(p, "swtch")
  /\ UNCHANGED <<chan, killed, parent, wait_lock, cpus, child, scan, syscalls>>

\* A timer interrupt, in user space or in the kernel where no lock is held.
Yield(c, p) ==
  /\ on[c] = p /\ at[p] \in {"user", "forkParent", "forkRun", "exitLock"}
  /\ Acquire(c, p)
  /\ state' = [state EXCEPT ![p] = "RUNNABLE"]
  /\ resume' = [resume EXCEPT ![p] = at[p]]
  /\ Enter(p, "swtch")
  /\ UNCHANGED <<chan, killed, parent, wait_lock, cpus, child, scan, syscalls>>

\* sched(): the CPU is back on the stack of its scheduler, p->lock still held.
Swtch(c, p) ==
  /\ At(c, p, "swtch")
  /\ on' = [on EXCEPT ![c] = Scheduler]
  /\ Enter(p, "off")
  /\ UNCHANGED <<table, locks, proc, local, syscalls>>

SchedulerBack(c) ==
  /\ on[c] = Scheduler /\ proc[c] # None
  /\ plock' = [plock EXCEPT ![proc[c]] = NoCPU]
  /\ proc' = [proc EXCEPT ![c] = None]
  /\ UNCHANGED <<table, wait_lock, on, at, local, syscalls>>

-----------------------------------------------------------------------------
(***************************************************************************)
(* fork(): the child is invisible to wait() until it has its parent and    *)
(* to the schedulers until it is RUNNABLE.                                 *)
(***************************************************************************)
InUser(c, p) == At(c, p, "user") /\ ~killed[p]

\* allocproc() and the copying, all under np->lock.  np->killed is not set.
ForkAlloc(c, p, np) ==
  /\ InUser(c, p) /\ Call
  /\ state[np] = "UNUSED" /\ Free(np)
  /\ state' = [state EXCEPT ![np] = "USED"]
  /\ child' = [child EXCEPT ![p] = np]
  /\ resume' = [resume EXCEPT ![np] = "user"]
  /\ Enter(p, "forkParent")
  /\ UNCHANGED <<chan, killed, parent, locks, cpus, scan>>

\* Memory runs out: freeproc(np).
ForkFails(c, p, np) ==
  /\ InUser(c, p) /\ Call
  /\ state[np] = "UNUSED" /\ Free(np)
  /\ killed' = [killed EXCEPT ![np] = FALSE]
  /\ UNCHANGED <<state, chan, parent, locks, cpus, at, local>>

ForkParent(c, p) ==
  /\ At(c, p, "forkParent") /\ wait_lock = NoCPU
  /\ parent' = [parent EXCEPT ![child[p]] = p]
  /\ Enter(p, "forkRun")
  /\ UNCHANGED <<state, chan, killed, locks, cpus, local, syscalls>>

ForkRun(c, p) ==
  /\ At(c, p, "forkRun") /\ Free(child[p])
  /\ state' = [state EXCEPT ![child[p]] = "RUNNABLE"]
  /\ child' = [child EXCEPT ![p] = None]
  /\ Enter(p, "user")
  /\ UNCHANGED <<chan, killed, parent, locks, cpus, resume, scan, syscalls>>

-----------------------------------------------------------------------------
(***************************************************************************)
(* exit(): of its own will, or because the process was killed.             *)
(***************************************************************************)
Exit(c, p) ==
  /\ At(c, p, "user") /\ p # initproc
  /\ Enter(p, "exitLock")
  /\ UNCHANGED <<table, locks, cpus, local, syscalls>>

\* Mutant: reparent() does not wake init.
ReparentSilently(c, p) ==
  /\ At(c, p, "exitLock") /\ wait_lock = NoCPU
  /\ wait_lock' = c /\ scan' = [scan EXCEPT ![p] = 1]
  /\ parent' = [q \in Slots |-> IF parent[q] = p THEN initproc ELSE parent[q]]
  /\ Enter(p, "wakeParent")
  /\ UNCHANGED <<state, chan, killed, plock, cpus, resume, child, syscalls>>

\* Mutant: the children are not given to init.
NoReparent(c, p) ==
  /\ At(c, p, "exitLock") /\ wait_lock = NoCPU
  /\ wait_lock' = c /\ scan' = [scan EXCEPT ![p] = 1]
  /\ Enter(p, "wakeParent")
  /\ UNCHANGED <<table, plock, cpus, resume, child, syscalls>>

\* acquire(&wait_lock); reparent(p)
Reparent(c, p) ==
  /\ At(c, p, "exitLock") /\ wait_lock = NoCPU
  /\ wait_lock' = c /\ scan' = [scan EXCEPT ![p] = 1]
  /\ parent' = [q \in Slots |-> IF parent[q] = p THEN initproc ELSE parent[q]]
  /\ Enter(p, IF Children(p) # {} THEN "wakeInit" ELSE "wakeParent")
  /\ UNCHANGED <<state, chan, killed, plock, cpus, resume, child, syscalls>>

\* One round of wakeup(): p itself is passed over.
WakeupSlot(p, channel) ==
  /\ scan[p] <= NPROC
  /\ scan[p] # p => Free(scan[p])
  /\ state' = IF scan[p] # p /\ state[scan[p]] = "SLEEPING" /\ chan[scan[p]] = channel
              THEN [state EXCEPT ![scan[p]] = "RUNNABLE"] ELSE state
  /\ scan' = [scan EXCEPT ![p] = @ + 1]
  /\ UNCHANGED <<chan, killed, parent, locks, cpus, at, resume, child, syscalls>>

WakeupOver(p, next) ==
  /\ scan[p] > NPROC /\ scan' = [scan EXCEPT ![p] = 1]
  /\ Enter(p, next)
  /\ UNCHANGED <<table, locks, cpus, resume, child, syscalls>>

WakeInit(c, p) ==
  /\ At(c, p, "wakeInit")
  /\ WakeupSlot(p, initproc) \/ WakeupOver(p, "wakeParent")

WakeParent(c, p) ==
  /\ At(c, p, "wakeParent")
  /\ WakeupSlot(p, parent[p]) \/ WakeupOver(p, "zombie")

\* acquire(&p->lock); p->state = ZOMBIE; release(&wait_lock)
Zombie(c, p) ==
  /\ At(c, p, "zombie") /\ Acquire(c, p)
  /\ state' = [state EXCEPT ![p] = "ZOMBIE"]
  /\ wait_lock' = NoCPU
  /\ resume' = [resume EXCEPT ![p] = "never"]
  /\ Enter(p, "swtch")
  /\ UNCHANGED <<chan, killed, parent, cpus, child, scan, syscalls>>

-----------------------------------------------------------------------------
(***************************************************************************)
(* wait(), and the sleep() in it.  The scan over the children is one step: *)
(* a process becomes a zombie only under wait_lock.                        *)
(***************************************************************************)
\* init only waits, and only when it has started a child.
Wait(c, p) ==
  /\ InUser(c, p)
  /\ \/ p = initproc /\ Children(p) # {} /\ UNCHANGED syscalls
     \/ p # initproc /\ Call
  /\ Enter(p, "waitLock")
  /\ UNCHANGED <<table, locks, cpus, local>>

WaitLock(c, p) ==
  /\ At(c, p, "waitLock") /\ wait_lock = NoCPU
  /\ wait_lock' = c /\ Enter(p, "waitScan")
  /\ UNCHANGED <<table, plock, cpus, local, syscalls>>

WaitOver(p) == wait_lock' = NoCPU /\ Enter(p, "user")

\* freeproc(pp)
WaitReap(c, p, pp) ==
  /\ At(c, p, "waitScan") /\ pp \in Zombies(p) /\ Free(pp)
  /\ state' = [state EXCEPT ![pp] = "UNUSED"]
  /\ chan' = [chan EXCEPT ![pp] = None]
  /\ killed' = [killed EXCEPT ![pp] = FALSE]
  /\ parent' = [parent EXCEPT ![pp] = None]
  /\ WaitOver(p)
  /\ UNCHANGED <<plock, cpus, local, syscalls>>

\* copyout() of the exit status fails: the zombie stays.
WaitBadAddress(c, p, pp) ==
  /\ At(c, p, "waitScan") /\ p # initproc /\ pp \in Zombies(p) /\ Free(pp)
  /\ WaitOver(p)
  /\ UNCHANGED <<table, plock, cpus, local, syscalls>>

WaitReturns(c, p) ==
  /\ At(c, p, "waitScan") /\ Zombies(p) = {}
  /\ Children(p) = {} \/ (killed[p] /\ Free(p))
  /\ WaitOver(p)
  /\ UNCHANGED <<table, plock, cpus, local, syscalls>>

WaitGoesToSleep(c, p) ==
  /\ At(c, p, "waitScan") /\ Zombies(p) = {}
  /\ Children(p) # {} /\ ~killed[p] /\ Free(p)
  /\ Enter(p, "sleepLock")
  /\ UNCHANGED <<table, locks, cpus, local, syscalls>>

\* sleep(p, &wait_lock): acquire(&p->lock); release(lk)
SleepLock(c, p) ==
  /\ At(c, p, "sleepLock") /\ Acquire(c, p)
  /\ wait_lock' = NoCPU
  /\ Enter(p, "falling")
  /\ UNCHANGED <<table, cpus, local, syscalls>>

FallAsleep(c, p) ==
  /\ At(c, p, "falling")
  /\ chan' = [chan EXCEPT ![p] = p]
  /\ state' = [state EXCEPT ![p] = "SLEEPING"]
  /\ resume' = [resume EXCEPT ![p] = "waitLock"]
  /\ Enter(p, "swtch")
  /\ UNCHANGED <<killed, parent, locks, cpus, child, scan, syscalls>>

-----------------------------------------------------------------------------
(***************************************************************************)
(* kill(pid).  No slot in use has pid 0, every unused one does.  Killing   *)
(* init ends in panic("init exiting") and is left out.                     *)
(***************************************************************************)
Matches(q) ==
  \/ state[q] # "UNUSED"
  \/ state[q] = "UNUSED" /\ \A r \in Slots : state[r] = "UNUSED" => q <= r

Kill(c, p, q) ==
  /\ InUser(c, p) /\ Call
  /\ q # initproc /\ Matches(q) /\ Free(q)
  /\ killed' = [killed EXCEPT ![q] = TRUE]
  /\ state' = [state EXCEPT ![q] = IF @ = "SLEEPING" THEN "RUNNABLE" ELSE @]
  /\ UNCHANGED <<chan, parent, locks, cpus, at, local>>

-----------------------------------------------------------------------------
\* What a thread in the kernel does next, and its passage through sched().
InKernel(c, p) ==
  \/ ForkParent(c, p) \/ ForkRun(c, p)
  \/ Reparent(c, p) \/ WakeInit(c, p) \/ WakeParent(c, p) \/ Zombie(c, p)
  \/ WaitLock(c, p) \/ WaitReturns(c, p) \/ WaitGoesToSleep(c, p)
  \/ \E pp \in Slots : WaitReap(c, p, pp) \/ WaitBadAddress(c, p, pp)
  \/ SleepLock(c, p) \/ FallAsleep(c, p)

InSched(c, p) == Resumed(c, p) \/ Swtch(c, p)

Syscall(c, p) ==
  \/ \E q \in Slots : ForkAlloc(c, p, q) \/ ForkFails(c, p, q) \/ Kill(c, p, q)
  \/ Exit(c, p) \/ Wait(c, p)

\* Only init is left and it starts nothing more.
Quiet ==
  /\ syscalls = MaxSyscalls /\ \A p \in Slots \ {initproc} : state[p] = "UNUSED"
  /\ UNCHANGED procVars

ProcNext ==
  \/ \E c \in CPUs : \/ SchedulerBack(c)
                     \/ \E p \in Slots : \/ Schedule(c, p) \/ Yield(c, p)
                                         \/ InKernel(c, p) \/ InSched(c, p)
                                         \/ Syscall(c, p)
  \/ Quiet

ProcSpec == ProcInit /\ [][ProcNext]_procVars

-----------------------------------------------------------------------------
(***************************************************************************)
(* Properties.                                                             *)
(***************************************************************************)
\* The type invariant; a thread off every CPU is not RUNNING.
ProcTypeOK ==
  /\ state \in [Slots -> {"UNUSED", "USED", "SLEEPING", "RUNNABLE", "RUNNING", "ZOMBIE"}]
  /\ chan \in [Slots -> Slots \cup {None}] /\ killed \in [Slots -> BOOLEAN]
  /\ parent \in [Slots -> Slots \cup {None}]
  /\ plock \in [Slots -> CPUs \cup {NoCPU}] /\ wait_lock \in CPUs \cup {NoCPU}
  /\ on \in [CPUs -> Slots \cup {Scheduler}] /\ proc \in [CPUs -> Slots \cup {None}]
  /\ at \in [Slots -> {"off", "resumed", "swtch", "user", "forkParent", "forkRun",
                       "exitLock", "wakeInit", "wakeParent", "zombie",
                       "waitLock", "waitScan", "sleepLock", "falling"}]
  /\ \A p \in Slots : at[p] = "off" => state[p] # "RUNNING"
  /\ resume \in [Slots -> {"user", "forkParent", "forkRun", "exitLock", "waitLock", "never"}]
  /\ child \in [Slots -> Slots \cup {None}] /\ scan \in [Slots -> 1..(NPROC + 1)]
  /\ syscalls \in 0..MaxSyscalls

\* The hand-over of p->lock keeps two CPUs off one kernel stack: a CPU is on the
\* stack of its own c->proc, which no other CPU has, and a process that another
\* CPU may take, wake or free is on no CPU at all.  What sched() hands over is
\* p->lock and no other lock, of a process that is not RUNNING: it never panics.
StackExclusive ==
  /\ \A c, d \in CPUs : on[c] # Scheduler /\ on[c] = on[d] => c = d
  /\ \A c \in CPUs : on[c] # Scheduler => proc[c] = on[c]
  /\ \A p \in Slots : (Free(p) /\ state[p] # "RUNNING") => \A c \in CPUs : on[c] # p
  /\ \A c \in CPUs, p \in Slots : At(c, p, "swtch") =>
       /\ plock[p] = c /\ wait_lock # c
       /\ \A q \in Slots \ {p} : plock[q] # c
       /\ state[p] # "RUNNING"

\* No wakeup of a parent is lost, in the exit of a child, in the adoption of a
\* zombie by init or in between the scan and the sleep: a process asleep in
\* wait() has no zombie among its children.
WaitNotLost ==
  wait_lock = NoCPU =>
    \A p \in Slots : state[p] = "SLEEPING" /\ chan[p] = p => Zombies(p) = {}

\* Every process has a parent that can wait for it: one that is neither a zombie
\* nor a free slot, which another process could take over.
ParentsAlive ==
  wait_lock = NoCPU =>
    \A p \in Slots \ {initproc} :
      state[p] \notin {"UNUSED", "USED"} =>
        parent[p] # None /\ state[parent[p]] \notin {"UNUSED", "ZOMBIE"}
=============================================================================
