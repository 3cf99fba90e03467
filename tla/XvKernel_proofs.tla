--------------------------- MODULE XvKernel_proofs --------------------------
(***************************************************************************)
(* Proofs about two parts of the xv6 kernel: its processes and scheduler   *)
(* (XvProc) and its log (XvLog).                                           *)
(***************************************************************************)
EXTENDS XvProc, XvLog, FiniteSetTheorems, TLAPS

-----
\* XvProc: whatever the size of the process table and the number of CPUs,
\* no kernel stack is ever in use by two CPUs, no wakeup of a parent is
\* lost, and no process is left without a parent that can wait for it.

\* Where a thread is, or will be once it has returned from sched().
Place(p)  == IF at[p] \in {"off", "swtch", "resumed"} THEN resume[p] ELSE at[p]

Handing   == {"resumed", "swtch", "falling"}  \* under p->lock
Waiting   == {"wakeInit", "wakeParent", "zombie", "waitScan", "sleepLock"}  \* under wait_lock
Forking   == {"forkParent", "forkRun"}
Dying     == {"wakeInit", "wakeParent", "zombie"}
Dozing(p) == state[p] = "SLEEPING" \/ at[p] = "falling"

\* A CPU is on the stack of its process or of its scheduler, and a thread that
\* has a place on a CPU is not "off".
Stacks ==
  /\ \A c \in CPUs : on[c] # Scheduler => proc[c] = on[c] /\ at[on[c]] # "off"
  /\ \A c, d \in CPUs : proc[c] # None /\ proc[c] = proc[d] => c = d
  /\ \A p \in Slots : at[p] # "off" => \E c \in CPUs : on[c] = p

\* A CPU holds the lock of its own process only, while it hands it over.
HandedOver ==
  /\ \A c \in CPUs : on[c] = Scheduler /\ proc[c] # None => plock[proc[c]] = c
  /\ \A c \in CPUs, p \in Slots : on[c] = p /\ at[p] \in Handing => plock[p] = c
  /\ \A c \in CPUs, p \in Slots : plock[p] = c =>
       proc[c] = p /\ (on[c] = Scheduler \/ at[p] \in Handing)

\* wait_lock is held in some parts of exit() and wait(), and nowhere else.
WaitLocked ==
  \A c \in CPUs :
    wait_lock = c <=> \E p \in Slots : on[c] = p /\ at[p] \in Waiting

\* What the state of a process says about its thread.
States ==
  \A p \in Slots :
    /\ state[p] = "RUNNING" <=> at[p] \notin {"off", "swtch"}
    /\ at[p] = "swtch" => state[p] \in {"RUNNABLE", "SLEEPING", "ZOMBIE"}
    /\ resume[p] = "never" => state[p] \in {"ZOMBIE", "UNUSED"}
    /\ state[p] = "SLEEPING" => chan[p] = p

\* A new process belongs to the one fork() that makes it.
Forks ==
  /\ \A p \in Slots : child[p] # None <=> Place(p) \in Forking
  /\ \A p \in Slots : child[p] # None =>
       state[p] \in {"RUNNABLE", "RUNNING"} /\ state[child[p]] = "USED"
  /\ \A p, q \in Slots : child[p] # None /\ child[p] = child[q] => p = q
  /\ \A p \in Slots : Place(p) = "forkRun" => parent[child[p]] = p

\* init never exits.
InitLives ==
  /\ state[initproc] \notin {"UNUSED", "USED", "ZOMBIE"}
  /\ Place(initproc) \notin Dying \cup {"exitLock"}
  /\ parent[initproc] = None

\* A process has a parent, and parents are alive: who dies has given its
\* children away.
Families ==
  /\ \A p \in Slots \ {initproc} : state[p] \notin {"UNUSED", "USED"} => parent[p] # None
  /\ \A p, q \in Slots : parent[p] = q =>
       p # q /\ state[q] \notin {"UNUSED", "USED", "ZOMBIE"} /\ at[q] \notin Dying

\* A parent that exit() has woken does not go back to sleep before its child is a
\* zombie: sleep() needs wait_lock.
Woken ==
  \A p, q \in Slots :
    parent[p] = q /\ (at[p] = "zombie" \/ (at[p] = "wakeParent" /\ scan[p] > q))
      => ~ Dozing(q)

\* Who sleeps has no zombie; only init may sleep on one that it has just adopted,
\* until the process that gave it away has woken init.
Watched ==
  \A p, q \in Slots :
    parent[p] = q /\ state[p] = "ZOMBIE" /\ Dozing(q)
      => q = initproc /\ \E r \in Slots : at[r] = "wakeInit" /\ scan[r] = 1

\* Nor has one who is about to sleep, and still holds wait_lock.
Checked ==
  \A p, q \in Slots : parent[p] = q /\ state[p] = "ZOMBIE" => at[q] # "sleepLock"

\* The inductive invariant.
ProcInv == ProcTypeOK /\ Stacks /\ HandedOver /\ WaitLocked /\ States /\ Forks
          /\ InitLives /\ Families /\ Woken /\ Watched /\ Checked

-----
LEMMA Constants ==
  /\ NPROC \in Nat \ {0} /\ MaxSyscalls \in Nat /\ NoCPU \notin CPUs
  /\ initproc \in Slots /\ None \notin Slots /\ Scheduler \notin Slots /\ Slots \subseteq Nat
BY ProcAssumption DEF Slots, initproc, None, Scheduler

\* Short helpers that every step below sees through.
USE DEF At, Enter, Acquire, Free, Place, Handing, Waiting, Forking, Dying, Dozing,
        None, NoCPU, Scheduler, initproc, table, locks, cpus, local

\* The scheduler, sched() and yield(): p->lock is handed over, so that a CPU that
\* takes a process with a free lock finds it on no other CPU (HandedOver).
LEMMA ScheduleKeeps ==
  ASSUME ProcInv, NEW c \in CPUs, NEW q \in Slots, Schedule(c, q)
  PROVE  ProcInv'
<1>1. ProcTypeOK' BY DEF ProcInv, ProcTypeOK, Schedule
<1>2. Stacks' BY Constants DEF ProcInv, ProcTypeOK, Stacks, HandedOver, States, Schedule
<1>3. HandedOver' BY Constants DEF ProcInv, ProcTypeOK, Stacks, HandedOver, States, Schedule
<1>4. WaitLocked' BY Constants DEF ProcInv, WaitLocked, States, Schedule
<1>5. States' BY DEF ProcInv, ProcTypeOK, States, Schedule
<1>6. Forks' BY DEF ProcInv, States, Forks, Schedule
<1>7. InitLives' BY DEF ProcInv, States, InitLives, Schedule
<1>8. Families' BY DEF ProcInv, Families, Schedule
<1>9. Woken' BY DEF ProcInv, Woken, Schedule
<1>10. Watched' BY DEF ProcInv, States, Watched, Schedule
<1>11. Checked' BY DEF ProcInv, Checked, Schedule
<1> QED BY <1>1, <1>2, <1>3, <1>4, <1>5, <1>6, <1>7, <1>8, <1>9, <1>10, <1>11 DEF ProcInv

LEMMA ResumedKeeps ==
  ASSUME ProcInv, NEW c \in CPUs, NEW p \in Slots, Resumed(c, p)
  PROVE  ProcInv'
<1>1. ProcTypeOK' BY DEF ProcInv, ProcTypeOK, States, Resumed
<1>2. Stacks' BY DEF ProcInv, ProcTypeOK, Stacks, Resumed
<1>3. HandedOver' BY Constants DEF ProcInv, ProcTypeOK, HandedOver, Resumed
<1>4. WaitLocked' BY DEF ProcInv, ProcTypeOK, WaitLocked, Resumed
<1>5. States' BY DEF ProcInv, ProcTypeOK, States, Resumed
<1>6. Forks' BY DEF ProcInv, ProcTypeOK, Forks, Resumed
<1>7. InitLives' BY DEF ProcInv, InitLives, Resumed
<1>8. Families' BY DEF ProcInv, ProcTypeOK, Families, Resumed
<1>9. Woken' BY DEF ProcInv, ProcTypeOK, Woken, Resumed
<1>10. Watched' BY DEF ProcInv, ProcTypeOK, Watched, Resumed
<1>11. Checked' BY DEF ProcInv, ProcTypeOK, Checked, Resumed
<1> QED BY <1>1, <1>2, <1>3, <1>4, <1>5, <1>6, <1>7, <1>8, <1>9, <1>10, <1>11 DEF ProcInv

LEMMA YieldKeeps ==
  ASSUME ProcInv, NEW c \in CPUs, NEW p \in Slots, Yield(c, p)
  PROVE  ProcInv'
<1>1. ProcTypeOK' BY DEF ProcInv, ProcTypeOK, Yield
<1>2. Stacks' BY DEF ProcInv, Stacks, Yield
<1>3. HandedOver' BY Constants DEF ProcInv, ProcTypeOK, Stacks, HandedOver, Yield
<1>4. WaitLocked' BY DEF ProcInv, WaitLocked, Yield
<1>5. States' BY DEF ProcInv, ProcTypeOK, States, Yield
<1>6. Forks' BY DEF ProcInv, ProcTypeOK, States, Forks, Yield
<1>7. InitLives' BY DEF ProcInv, ProcTypeOK, InitLives, Yield
<1>8. Families' BY DEF ProcInv, States, Families, Yield
<1>9. Woken' BY DEF ProcInv, Woken, Yield
<1>10. Watched' BY DEF ProcInv, Watched, Yield
<1>11. Checked' BY DEF ProcInv, Checked, Yield
<1> QED BY <1>1, <1>2, <1>3, <1>4, <1>5, <1>6, <1>7, <1>8, <1>9, <1>10, <1>11 DEF ProcInv

LEMMA SwtchKeeps ==
  ASSUME ProcInv, NEW c \in CPUs, NEW p \in Slots, Swtch(c, p)
  PROVE  ProcInv'
<1>1. ProcTypeOK' BY DEF ProcInv, ProcTypeOK, States, Swtch
<1>2. Stacks' BY DEF ProcInv, ProcTypeOK, Stacks, Swtch
<1>3. HandedOver' BY Constants DEF ProcInv, ProcTypeOK, HandedOver, Swtch
<1>4. WaitLocked' BY Constants DEF ProcInv, WaitLocked, Swtch
<1>5. States' BY DEF ProcInv, States, Swtch
<1>6. Forks' BY DEF ProcInv, Forks, Swtch
<1>7. InitLives' BY DEF ProcInv, InitLives, Swtch
<1>8. Families' BY DEF ProcInv, Families, Swtch
<1>9. Woken' BY DEF ProcInv, Woken, Swtch
<1>10. Watched' BY DEF ProcInv, Watched, Swtch
<1>11. Checked' BY DEF ProcInv, Checked, Swtch
<1> QED BY <1>1, <1>2, <1>3, <1>4, <1>5, <1>6, <1>7, <1>8, <1>9, <1>10, <1>11 DEF ProcInv

LEMMA SchedulerBackKeeps ==
  ASSUME ProcInv, NEW c \in CPUs, SchedulerBack(c)
  PROVE  ProcInv'
<1>1. ProcTypeOK' BY DEF ProcInv, ProcTypeOK, SchedulerBack
<1>2. Stacks' BY DEF ProcInv, Stacks, SchedulerBack
<1>3. HandedOver' BY Constants DEF ProcInv, ProcTypeOK, HandedOver, SchedulerBack
<1>4. WaitLocked' BY DEF ProcInv, WaitLocked, SchedulerBack
<1>5. States' BY DEF ProcInv, States, SchedulerBack
<1>6. Forks' BY DEF ProcInv, Forks, SchedulerBack
<1>7. InitLives' BY DEF ProcInv, InitLives, SchedulerBack
<1>8. Families' BY DEF ProcInv, Families, SchedulerBack
<1>9. Woken' BY DEF ProcInv, Woken, SchedulerBack
<1>10. Watched' BY DEF ProcInv, Watched, SchedulerBack
<1>11. Checked' BY DEF ProcInv, Checked, SchedulerBack
<1> QED BY <1>1, <1>2, <1>3, <1>4, <1>5, <1>6, <1>7, <1>8, <1>9, <1>10, <1>11 DEF ProcInv

\* fork(): the slot belongs to one parent until it is RUNNABLE (Forks).
LEMMA ForkAllocKeeps ==
  ASSUME ProcInv, NEW c \in CPUs, NEW p \in Slots, NEW np \in Slots, ForkAlloc(c, p, np)
  PROVE  ProcInv'
<1>1. ProcTypeOK' BY Constants DEF ProcInv, ProcTypeOK, ForkAlloc, Call
<1>2. Stacks' BY DEF ProcInv, Stacks, ForkAlloc, InUser
<1>3. HandedOver' BY DEF ProcInv, HandedOver, ForkAlloc, InUser
<1>4. WaitLocked' BY DEF ProcInv, WaitLocked, ForkAlloc, InUser
<1>5. States' BY DEF ProcInv, ProcTypeOK, States, ForkAlloc, InUser
<1>6. Forks' BY Constants DEF ProcInv, ProcTypeOK, States, Forks, ForkAlloc, InUser
<1>7. InitLives' BY DEF ProcInv, InitLives, ForkAlloc
<1>8. Families' BY DEF ProcInv, Families, ForkAlloc
<1>9. Woken' BY DEF ProcInv, Woken, ForkAlloc
<1>10. Watched' BY DEF ProcInv, Watched, ForkAlloc, InUser
<1>11. Checked' BY DEF ProcInv, Checked, ForkAlloc
<1> QED BY <1>1, <1>2, <1>3, <1>4, <1>5, <1>6, <1>7, <1>8, <1>9, <1>10, <1>11 DEF ProcInv

LEMMA ForkFailsKeeps ==
  ASSUME ProcInv, NEW c \in CPUs, NEW p \in Slots, NEW np \in Slots, ForkFails(c, p, np)
  PROVE  ProcInv'
<1>1. ProcTypeOK' BY Constants DEF ProcInv, ProcTypeOK, ForkFails, Call
<1>2. Stacks' BY DEF ProcInv, Stacks, ForkFails
<1>3. HandedOver' BY DEF ProcInv, HandedOver, ForkFails
<1>4. WaitLocked' BY DEF ProcInv, WaitLocked, ForkFails
<1>5. States' BY DEF ProcInv, States, ForkFails
<1>6. Forks' BY DEF ProcInv, Forks, ForkFails
<1>7. InitLives' BY DEF ProcInv, InitLives, ForkFails
<1>8. Families' BY DEF ProcInv, Families, ForkFails
<1>9. Woken' BY DEF ProcInv, Woken, ForkFails
<1>10. Watched' BY DEF ProcInv, Watched, ForkFails
<1>11. Checked' BY DEF ProcInv, Checked, ForkFails
<1> QED BY <1>1, <1>2, <1>3, <1>4, <1>5, <1>6, <1>7, <1>8, <1>9, <1>10, <1>11 DEF ProcInv

LEMMA ForkParentKeeps ==
  ASSUME ProcInv, NEW c \in CPUs, NEW p \in Slots, ForkParent(c, p)
  PROVE  ProcInv'
<1>1. ProcTypeOK' BY DEF ProcInv, ProcTypeOK, Forks, ForkParent
<1>2. Stacks' BY DEF ProcInv, Stacks, ForkParent
<1>3. HandedOver' BY DEF ProcInv, HandedOver, ForkParent
<1>4. WaitLocked' BY DEF ProcInv, WaitLocked, ForkParent
<1>5. States' BY DEF ProcInv, States, ForkParent
<1>6. Forks' BY DEF ProcInv, ProcTypeOK, Forks, ForkParent
<1>7. InitLives' BY DEF ProcInv, Forks, InitLives, ForkParent
<1>8. Families' BY DEF ProcInv, Forks, Families, ForkParent
<1>9. Woken' BY Constants DEF ProcInv, Stacks, WaitLocked, Woken, ForkParent
<1>10. Watched' BY DEF ProcInv, States, Watched, ForkParent
<1>11. Checked' BY DEF ProcInv, Checked, ForkParent
<1> QED BY <1>1, <1>2, <1>3, <1>4, <1>5, <1>6, <1>7, <1>8, <1>9, <1>10, <1>11 DEF ProcInv

LEMMA ForkRunKeeps ==
  ASSUME ProcInv, NEW c \in CPUs, NEW p \in Slots, ForkRun(c, p)
  PROVE  ProcInv'
<1>1. ProcTypeOK' BY DEF ProcInv, ProcTypeOK, Forks, ForkRun
<1>2. Stacks' BY DEF ProcInv, Stacks, ForkRun
<1>3. HandedOver' BY DEF ProcInv, HandedOver, ForkRun
<1>4. WaitLocked' BY DEF ProcInv, WaitLocked, ForkRun
<1>5. States' BY DEF ProcInv, States, Forks, ForkRun
<1>6. Forks' BY DEF ProcInv, ProcTypeOK, Forks, ForkRun
<1>7. InitLives' BY DEF ProcInv, InitLives, ForkRun
<1>8. Families' BY Constants DEF ProcInv, Forks, Families, ForkRun
<1>9. Woken' BY DEF ProcInv, Woken, ForkRun
<1>10. Watched' BY DEF ProcInv, Watched, ForkRun
<1>11. Checked' BY DEF ProcInv, Checked, ForkRun
<1> QED BY <1>1, <1>2, <1>3, <1>4, <1>5, <1>6, <1>7, <1>8, <1>9, <1>10, <1>11 DEF ProcInv

\* exit(): the children are given away before anything dies (Families), and who
\* has been woken needs wait_lock to sleep again (Woken, Watched).
LEMMA ExitKeeps ==
  ASSUME ProcInv, NEW c \in CPUs, NEW p \in Slots, Exit(c, p)
  PROVE  ProcInv'
<1>1. ProcTypeOK' BY DEF ProcInv, ProcTypeOK, Exit
<1>2. Stacks' BY DEF ProcInv, Stacks, Exit
<1>3. HandedOver' BY DEF ProcInv, HandedOver, Exit
<1>4. WaitLocked' BY DEF ProcInv, WaitLocked, Exit
<1>5. States' BY DEF ProcInv, States, Exit
<1>6. Forks' BY DEF ProcInv, Forks, Exit
<1>7. InitLives' BY DEF ProcInv, InitLives, Exit
<1>8. Families' BY DEF ProcInv, Families, Exit
<1>9. Woken' BY DEF ProcInv, Woken, Exit
<1>10. Watched' BY DEF ProcInv, Watched, Exit
<1>11. Checked' BY DEF ProcInv, Checked, Exit
<1> QED BY <1>1, <1>2, <1>3, <1>4, <1>5, <1>6, <1>7, <1>8, <1>9, <1>10, <1>11 DEF ProcInv

LEMMA ReparentKeeps ==
  ASSUME ProcInv, NEW c \in CPUs, NEW p \in Slots, Reparent(c, p)
  PROVE  ProcInv'
<1>1. ProcTypeOK' BY Constants DEF ProcInv, ProcTypeOK, Reparent
<1>2. Stacks' BY DEF ProcInv, Stacks, Reparent
<1>3. HandedOver' BY DEF ProcInv, HandedOver, Reparent
<1>4. WaitLocked' BY Constants DEF ProcInv, ProcTypeOK, Stacks, WaitLocked, Reparent
<1>5. States' BY DEF ProcInv, States, Reparent
<1>6. Forks' BY DEF ProcInv, ProcTypeOK, Forks, Reparent
<1>7. InitLives' BY Constants DEF ProcInv, InitLives, Reparent
<1>8. Families' BY Constants DEF ProcInv, InitLives, Families, Reparent
<1>9. Woken' BY Constants DEF ProcInv, ProcTypeOK, Stacks, WaitLocked, Woken, Reparent
<1>10. Watched' BY DEF ProcInv, ProcTypeOK, Watched, Reparent, Children
<1>11. Checked' BY Constants DEF ProcInv, Stacks, WaitLocked, Checked, Reparent
<1> QED BY <1>1, <1>2, <1>3, <1>4, <1>5, <1>6, <1>7, <1>8, <1>9, <1>10, <1>11 DEF ProcInv

LEMMA WakeInitKeeps ==
  ASSUME ProcInv, NEW c \in CPUs, NEW p \in Slots, WakeInit(c, p)
  PROVE  ProcInv'
<1>1. CASE WakeupSlot(p, initproc)
  <2>1. ProcTypeOK' BY <1>1, Constants DEF ProcInv, ProcTypeOK, Slots, WakeInit, WakeupSlot
  <2>2. Stacks' BY <1>1 DEF ProcInv, Stacks, WakeupSlot
  <2>3. HandedOver' BY <1>1 DEF ProcInv, HandedOver, WakeupSlot
  <2>4. WaitLocked' BY <1>1 DEF ProcInv, WaitLocked, WakeupSlot
  <2>5. States' BY <1>1 DEF ProcInv, States, WakeupSlot
  <2>6. Forks' BY <1>1 DEF ProcInv, Forks, WakeupSlot
  <2>7. InitLives' BY <1>1 DEF ProcInv, InitLives, WakeupSlot
  <2>8. Families' BY <1>1 DEF ProcInv, Families, WakeupSlot
  <2>9. Woken' BY <1>1 DEF ProcInv, Woken, WakeInit, WakeupSlot
  <2>10. Watched'
    BY <1>1, Constants DEF ProcInv, ProcTypeOK, Stacks, HandedOver, States, Watched, WakeupSlot
  <2>11. Checked' BY <1>1 DEF ProcInv, Checked, WakeupSlot
  <2> QED BY <2>1, <2>2, <2>3, <2>4, <2>5, <2>6, <2>7, <2>8, <2>9, <2>10, <2>11 DEF ProcInv
<1>2. CASE WakeupOver(p, "wakeParent")
  <2>1. ProcTypeOK' BY <1>2, Constants DEF ProcInv, ProcTypeOK, WakeupOver
  <2>2. Stacks' BY <1>2 DEF ProcInv, Stacks, WakeInit, WakeupOver
  <2>3. HandedOver' BY <1>2 DEF ProcInv, HandedOver, WakeInit, WakeupOver
  <2>4. WaitLocked' BY <1>2 DEF ProcInv, WaitLocked, WakeInit, WakeupOver
  <2>5. States' BY <1>2 DEF ProcInv, States, WakeInit, WakeupOver
  <2>6. Forks' BY <1>2 DEF ProcInv, Forks, WakeInit, WakeupOver
  <2>7. InitLives' BY <1>2 DEF ProcInv, InitLives, WakeInit, WakeupOver
  <2>8. Families' BY <1>2 DEF ProcInv, Families, WakeInit, WakeupOver
  <2>9. Woken' BY <1>2, Constants DEF ProcInv, ProcTypeOK, Woken, WakeupOver
  <2>10. Watched' BY <1>2, Constants DEF ProcInv, Watched, WakeupOver
  <2>11. Checked' BY <1>2 DEF ProcInv, Checked, WakeupOver
  <2> QED BY <2>1, <2>2, <2>3, <2>4, <2>5, <2>6, <2>7, <2>8, <2>9, <2>10, <2>11 DEF ProcInv
<1> QED BY <1>1, <1>2 DEF WakeInit

LEMMA WakeParentKeeps ==
  ASSUME ProcInv, NEW c \in CPUs, NEW p \in Slots, WakeParent(c, p)
  PROVE  ProcInv'
<1>1. CASE WakeupSlot(p, parent[p])
  <2>1. ProcTypeOK' BY <1>1, Constants DEF ProcInv, ProcTypeOK, Slots, WakeParent, WakeupSlot
  <2>2. Stacks' BY <1>1 DEF ProcInv, Stacks, WakeupSlot
  <2>3. HandedOver' BY <1>1 DEF ProcInv, HandedOver, WakeupSlot
  <2>4. WaitLocked' BY <1>1 DEF ProcInv, WaitLocked, WakeupSlot
  <2>5. States' BY <1>1 DEF ProcInv, States, WakeupSlot
  <2>6. Forks' BY <1>1 DEF ProcInv, Forks, WakeupSlot
  <2>7. InitLives' BY <1>1 DEF ProcInv, InitLives, WakeupSlot
  <2>8. Families' BY <1>1 DEF ProcInv, Families, WakeupSlot
  <2>9. Woken'
    BY <1>1, Constants DEF ProcInv, ProcTypeOK, Stacks, HandedOver, States, Woken, WakeupSlot
  <2>10. Watched' BY <1>1 DEF ProcInv, Watched, WakeParent, WakeupSlot
  <2>11. Checked' BY <1>1 DEF ProcInv, Checked, WakeupSlot
  <2> QED BY <2>1, <2>2, <2>3, <2>4, <2>5, <2>6, <2>7, <2>8, <2>9, <2>10, <2>11 DEF ProcInv
<1>2. CASE WakeupOver(p, "zombie")
  <2>1. ProcTypeOK' BY <1>2, Constants DEF ProcInv, ProcTypeOK, WakeupOver
  <2>2. Stacks' BY <1>2 DEF ProcInv, Stacks, WakeParent, WakeupOver
  <2>3. HandedOver' BY <1>2 DEF ProcInv, HandedOver, WakeParent, WakeupOver
  <2>4. WaitLocked' BY <1>2 DEF ProcInv, WaitLocked, WakeParent, WakeupOver
  <2>5. States' BY <1>2 DEF ProcInv, States, WakeParent, WakeupOver
  <2>6. Forks' BY <1>2 DEF ProcInv, Forks, WakeParent, WakeupOver
  <2>7. InitLives' BY <1>2 DEF ProcInv, InitLives, WakeParent, WakeupOver
  <2>8. Families' BY <1>2 DEF ProcInv, Families, WakeParent, WakeupOver
  <2>9. Woken' BY <1>2, Constants DEF ProcInv, ProcTypeOK, Woken, WakeParent, WakeupOver, Slots
  <2>10. Watched' BY <1>2 DEF ProcInv, Watched, WakeParent, WakeupOver
  <2>11. Checked' BY <1>2 DEF ProcInv, Checked, WakeupOver
  <2> QED BY <2>1, <2>2, <2>3, <2>4, <2>5, <2>6, <2>7, <2>8, <2>9, <2>10, <2>11 DEF ProcInv
<1> QED BY <1>1, <1>2 DEF WakeParent

LEMMA ZombieKeeps ==
  ASSUME ProcInv, NEW c \in CPUs, NEW p \in Slots, Zombie(c, p)
  PROVE  ProcInv'
<1>1. ProcTypeOK' BY DEF ProcInv, ProcTypeOK, Zombie
<1>2. Stacks' BY DEF ProcInv, Stacks, Zombie
<1>3. HandedOver' BY Constants DEF ProcInv, ProcTypeOK, Stacks, HandedOver, Zombie
<1>4. WaitLocked' BY Constants DEF ProcInv, ProcTypeOK, WaitLocked, Zombie
<1>5. States' BY DEF ProcInv, ProcTypeOK, States, Zombie
<1>6. Forks' BY DEF ProcInv, ProcTypeOK, States, Forks, Zombie
<1>7. InitLives' BY DEF ProcInv, InitLives, Zombie
<1>8. Families' BY DEF ProcInv, States, Families, Zombie
<1>9. Woken' BY DEF ProcInv, Woken, Zombie
<1>10. Watched' BY DEF ProcInv, Woken, Watched, Zombie
<1>11. Checked' BY DEF ProcInv, Stacks, WaitLocked, Checked, Zombie
<1> QED BY <1>1, <1>2, <1>3, <1>4, <1>5, <1>6, <1>7, <1>8, <1>9, <1>10, <1>11 DEF ProcInv

\* wait(): the scan and the sleep are under wait_lock, so that no child turns into
\* a zombie in between (Checked).
LEMMA WaitKeeps ==
  ASSUME ProcInv, NEW c \in CPUs, NEW p \in Slots, Wait(c, p)
  PROVE  ProcInv'
<1>1. ProcTypeOK' BY Constants DEF ProcInv, ProcTypeOK, Wait, Call
<1>2. Stacks' BY DEF ProcInv, Stacks, Wait, InUser
<1>3. HandedOver' BY DEF ProcInv, HandedOver, Wait, InUser
<1>4. WaitLocked' BY DEF ProcInv, WaitLocked, Wait, InUser
<1>5. States' BY DEF ProcInv, States, Wait, InUser
<1>6. Forks' BY DEF ProcInv, Forks, Wait, InUser
<1>7. InitLives' BY DEF ProcInv, InitLives, Wait
<1>8. Families' BY DEF ProcInv, Families, Wait
<1>9. Woken' BY DEF ProcInv, Woken, Wait
<1>10. Watched' BY DEF ProcInv, Watched, Wait, InUser
<1>11. Checked' BY DEF ProcInv, Checked, Wait
<1> QED BY <1>1, <1>2, <1>3, <1>4, <1>5, <1>6, <1>7, <1>8, <1>9, <1>10, <1>11 DEF ProcInv

LEMMA WaitLockKeeps ==
  ASSUME ProcInv, NEW c \in CPUs, NEW p \in Slots, WaitLock(c, p)
  PROVE  ProcInv'
<1>1. ProcTypeOK' BY DEF ProcInv, ProcTypeOK, WaitLock
<1>2. Stacks' BY DEF ProcInv, Stacks, WaitLock
<1>3. HandedOver' BY DEF ProcInv, HandedOver, WaitLock
<1>4. WaitLocked' BY Constants DEF ProcInv, ProcTypeOK, Stacks, WaitLocked, WaitLock
<1>5. States' BY DEF ProcInv, States, WaitLock
<1>6. Forks' BY DEF ProcInv, Forks, WaitLock
<1>7. InitLives' BY DEF ProcInv, InitLives, WaitLock
<1>8. Families' BY DEF ProcInv, Families, WaitLock
<1>9. Woken' BY DEF ProcInv, Woken, WaitLock
<1>10. Watched' BY DEF ProcInv, Watched, WaitLock
<1>11. Checked' BY DEF ProcInv, Checked, WaitLock
<1> QED BY <1>1, <1>2, <1>3, <1>4, <1>5, <1>6, <1>7, <1>8, <1>9, <1>10, <1>11 DEF ProcInv

LEMMA WaitReapKeeps ==
  ASSUME ProcInv, NEW c \in CPUs, NEW p \in Slots, NEW pp \in Slots, WaitReap(c, p, pp)
  PROVE  ProcInv'
<1>1. ProcTypeOK' BY DEF ProcInv, ProcTypeOK, WaitReap, WaitOver
<1>2. Stacks' BY DEF ProcInv, Stacks, WaitReap, WaitOver
<1>3. HandedOver' BY DEF ProcInv, HandedOver, WaitReap, WaitOver
<1>4. WaitLocked' BY Constants DEF ProcInv, ProcTypeOK, WaitLocked, WaitReap, WaitOver
<1>5. States' BY Constants DEF ProcInv, Stacks, HandedOver, States, WaitReap, WaitOver, Zombies
<1>6. Forks' BY DEF ProcInv, Forks, WaitReap, WaitOver, Zombies
<1>7. InitLives' BY DEF ProcInv, InitLives, WaitReap, WaitOver, Zombies
<1>8. Families' BY Constants DEF ProcInv, ProcTypeOK, Families, WaitReap, WaitOver, Zombies
<1>9. Woken' BY Constants DEF ProcInv, Woken, WaitReap, WaitOver
<1>10. Watched' BY DEF ProcInv, ProcTypeOK, Watched, WaitReap, WaitOver
<1>11. Checked' BY DEF ProcInv, ProcTypeOK, Checked, WaitReap, WaitOver
<1> QED BY <1>1, <1>2, <1>3, <1>4, <1>5, <1>6, <1>7, <1>8, <1>9, <1>10, <1>11 DEF ProcInv

LEMMA WaitBadAddressKeeps ==
  ASSUME ProcInv, NEW c \in CPUs, NEW p \in Slots, NEW pp \in Slots, WaitBadAddress(c, p, pp)
  PROVE  ProcInv'
<1>1. ProcTypeOK' BY DEF ProcInv, ProcTypeOK, WaitBadAddress, WaitOver
<1>2. Stacks' BY DEF ProcInv, Stacks, WaitBadAddress, WaitOver
<1>3. HandedOver' BY DEF ProcInv, HandedOver, WaitBadAddress, WaitOver
<1>4. WaitLocked' BY Constants DEF ProcInv, ProcTypeOK, WaitLocked, WaitBadAddress, WaitOver
<1>5. States' BY DEF ProcInv, States, WaitBadAddress, WaitOver
<1>6. Forks' BY DEF ProcInv, Forks, WaitBadAddress, WaitOver
<1>7. InitLives' BY DEF ProcInv, InitLives, WaitBadAddress, WaitOver
<1>8. Families' BY DEF ProcInv, Families, WaitBadAddress, WaitOver
<1>9. Woken' BY DEF ProcInv, Woken, WaitBadAddress, WaitOver
<1>10. Watched' BY DEF ProcInv, Watched, WaitBadAddress, WaitOver
<1>11. Checked' BY DEF ProcInv, Checked, WaitBadAddress, WaitOver
<1> QED BY <1>1, <1>2, <1>3, <1>4, <1>5, <1>6, <1>7, <1>8, <1>9, <1>10, <1>11 DEF ProcInv

LEMMA WaitReturnsKeeps ==
  ASSUME ProcInv, NEW c \in CPUs, NEW p \in Slots, WaitReturns(c, p)
  PROVE  ProcInv'
<1>1. ProcTypeOK' BY DEF ProcInv, ProcTypeOK, WaitReturns, WaitOver
<1>2. Stacks' BY DEF ProcInv, Stacks, WaitReturns, WaitOver
<1>3. HandedOver' BY DEF ProcInv, HandedOver, WaitReturns, WaitOver
<1>4. WaitLocked' BY Constants DEF ProcInv, ProcTypeOK, WaitLocked, WaitReturns, WaitOver
<1>5. States' BY DEF ProcInv, States, WaitReturns, WaitOver
<1>6. Forks' BY DEF ProcInv, Forks, WaitReturns, WaitOver
<1>7. InitLives' BY DEF ProcInv, InitLives, WaitReturns, WaitOver
<1>8. Families' BY DEF ProcInv, Families, WaitReturns, WaitOver
<1>9. Woken' BY DEF ProcInv, Woken, WaitReturns, WaitOver
<1>10. Watched' BY DEF ProcInv, Watched, WaitReturns, WaitOver
<1>11. Checked' BY DEF ProcInv, Checked, WaitReturns, WaitOver
<1> QED BY <1>1, <1>2, <1>3, <1>4, <1>5, <1>6, <1>7, <1>8, <1>9, <1>10, <1>11 DEF ProcInv

LEMMA WaitGoesToSleepKeeps ==
  ASSUME ProcInv, NEW c \in CPUs, NEW p \in Slots, WaitGoesToSleep(c, p)
  PROVE  ProcInv'
<1>1. ProcTypeOK' BY DEF ProcInv, ProcTypeOK, WaitGoesToSleep
<1>2. Stacks' BY DEF ProcInv, Stacks, WaitGoesToSleep
<1>3. HandedOver' BY DEF ProcInv, HandedOver, WaitGoesToSleep
<1>4. WaitLocked' BY DEF ProcInv, WaitLocked, WaitGoesToSleep
<1>5. States' BY DEF ProcInv, States, WaitGoesToSleep
<1>6. Forks' BY DEF ProcInv, Forks, WaitGoesToSleep
<1>7. InitLives' BY DEF ProcInv, InitLives, WaitGoesToSleep
<1>8. Families' BY DEF ProcInv, Families, WaitGoesToSleep
<1>9. Woken' BY DEF ProcInv, Woken, WaitGoesToSleep
<1>10. Watched' BY DEF ProcInv, Watched, WaitGoesToSleep
<1>11. Checked' BY DEF ProcInv, Checked, WaitGoesToSleep, Zombies, Children
<1> QED BY <1>1, <1>2, <1>3, <1>4, <1>5, <1>6, <1>7, <1>8, <1>9, <1>10, <1>11 DEF ProcInv

LEMMA SleepLockKeeps ==
  ASSUME ProcInv, NEW c \in CPUs, NEW p \in Slots, SleepLock(c, p)
  PROVE  ProcInv'
<1>1. ProcTypeOK' BY DEF ProcInv, ProcTypeOK, SleepLock
<1>2. Stacks' BY DEF ProcInv, Stacks, SleepLock
<1>3. HandedOver' BY Constants DEF ProcInv, ProcTypeOK, Stacks, HandedOver, SleepLock
<1>4. WaitLocked' BY Constants DEF ProcInv, ProcTypeOK, WaitLocked, SleepLock
<1>5. States' BY DEF ProcInv, States, SleepLock
<1>6. Forks' BY DEF ProcInv, Forks, SleepLock
<1>7. InitLives' BY DEF ProcInv, InitLives, SleepLock
<1>8. Families' BY DEF ProcInv, Families, SleepLock
<1>9. Woken' BY DEF ProcInv, Stacks, WaitLocked, Woken, SleepLock
<1>10. Watched' BY DEF ProcInv, Watched, Checked, SleepLock
<1>11. Checked' BY DEF ProcInv, Checked, SleepLock
<1> QED BY <1>1, <1>2, <1>3, <1>4, <1>5, <1>6, <1>7, <1>8, <1>9, <1>10, <1>11 DEF ProcInv

LEMMA FallAsleepKeeps ==
  ASSUME ProcInv, NEW c \in CPUs, NEW p \in Slots, FallAsleep(c, p)
  PROVE  ProcInv'
<1>1. ProcTypeOK' BY DEF ProcInv, ProcTypeOK, FallAsleep
<1>2. Stacks' BY DEF ProcInv, Stacks, FallAsleep
<1>3. HandedOver' BY DEF ProcInv, HandedOver, FallAsleep
<1>4. WaitLocked' BY DEF ProcInv, WaitLocked, FallAsleep
<1>5. States' BY DEF ProcInv, ProcTypeOK, States, FallAsleep
<1>6. Forks' BY DEF ProcInv, ProcTypeOK, States, Forks, FallAsleep
<1>7. InitLives' BY DEF ProcInv, ProcTypeOK, InitLives, FallAsleep
<1>8. Families' BY DEF ProcInv, States, Families, FallAsleep
<1>9. Woken' BY DEF ProcInv, Woken, FallAsleep
<1>10. Watched' BY DEF ProcInv, Watched, FallAsleep
<1>11. Checked' BY DEF ProcInv, Checked, FallAsleep
<1> QED BY <1>1, <1>2, <1>3, <1>4, <1>5, <1>6, <1>7, <1>8, <1>9, <1>10, <1>11 DEF ProcInv

\* kill(): a sleeper is on no CPU when its lock is free (HandedOver, States).
LEMMA KillKeeps ==
  ASSUME ProcInv, NEW c \in CPUs, NEW p \in Slots, NEW q \in Slots, Kill(c, p, q)
  PROVE  ProcInv'
<1>1. ProcTypeOK' BY Constants DEF ProcInv, ProcTypeOK, Kill, Call
<1>2. Stacks' BY DEF ProcInv, Stacks, Kill
<1>3. HandedOver' BY DEF ProcInv, HandedOver, Kill
<1>4. WaitLocked' BY DEF ProcInv, WaitLocked, Kill
<1>5. States' BY DEF ProcInv, States, Kill
<1>6. Forks' BY DEF ProcInv, Forks, Kill
<1>7. InitLives' BY DEF ProcInv, InitLives, Kill
<1>8. Families' BY DEF ProcInv, Families, Kill
<1>9. Woken' BY DEF ProcInv, Woken, Kill
<1>10. Watched' BY DEF ProcInv, Watched, Kill
<1>11. Checked' BY DEF ProcInv, Checked, Kill
<1> QED BY <1>1, <1>2, <1>3, <1>4, <1>5, <1>6, <1>7, <1>8, <1>9, <1>10, <1>11 DEF ProcInv

LEMMA Starts == ProcInit => ProcInv
BY Constants DEF ProcInit, ProcInv, ProcTypeOK, Stacks, HandedOver, WaitLocked, States, Forks,
  InitLives, Families, Woken, Watched, Checked

LEMMA StutterKeeps ==
  ASSUME ProcInv, UNCHANGED procVars
  PROVE  ProcInv'
BY DEF procVars, ProcInv, ProcTypeOK, Stacks, HandedOver, WaitLocked, States, Forks, InitLives,
  Families, Woken, Watched, Checked

LEMMA InKernelKeeps ==
  ASSUME ProcInv, NEW c \in CPUs, NEW p \in Slots, InKernel(c, p)
  PROVE  ProcInv'
BY ForkParentKeeps, ForkRunKeeps, ReparentKeeps, WakeInitKeeps, WakeParentKeeps, ZombieKeeps,
  WaitLockKeeps, WaitReturnsKeeps, WaitGoesToSleepKeeps, WaitReapKeeps, WaitBadAddressKeeps,
  SleepLockKeeps, FallAsleepKeeps DEF InKernel

LEMMA SyscallKeeps ==
  ASSUME ProcInv, NEW c \in CPUs, NEW p \in Slots, Syscall(c, p)
  PROVE  ProcInv'
BY ForkAllocKeeps, ForkFailsKeeps, KillKeeps, ExitKeeps, WaitKeeps DEF Syscall

LEMMA NextKeeps ==
  ASSUME ProcInv, [ProcNext]_procVars
  PROVE  ProcInv'
<1>1. CASE UNCHANGED procVars BY <1>1, StutterKeeps
<1>2. CASE Quiet BY <1>2, StutterKeeps DEF Quiet
<1>3. ASSUME NEW c \in CPUs, SchedulerBack(c) PROVE ProcInv' BY <1>3, SchedulerBackKeeps
<1>4. ASSUME NEW c \in CPUs, NEW p \in Slots,
             Schedule(c, p) \/ Yield(c, p) \/ InSched(c, p)
      PROVE  ProcInv'
  BY <1>4, ScheduleKeeps, YieldKeeps, ResumedKeeps, SwtchKeeps DEF InSched
<1> QED BY <1>1, <1>2, <1>3, <1>4, InKernelKeeps, SyscallKeeps DEF ProcNext

LEMMA ProcInvariance == ProcSpec => []ProcInv
BY Starts, NextKeeps, PTL DEF ProcSpec

-----
\* The theorems.
\* Every variable keeps to its type, and a thread on no CPU is never RUNNING.
THEOREM ProcTypeCorrect == ProcSpec => []ProcTypeOK
<1>1. ProcInv => ProcTypeOK BY DEF ProcInv
<1> QED BY <1>1, ProcInvariance, PTL

\* No two CPUs are ever on one kernel stack, a process whose lock is free and
\* that is not RUNNING is on none, and sched() never has a reason to panic.
THEOREM StacksAreExclusive == ProcSpec => []StackExclusive
<1>1. ASSUME ProcInv PROVE StackExclusive
  <2>1. \A c, d \in CPUs : on[c] # Scheduler /\ on[c] = on[d] => c = d
    BY <1>1, Constants DEF ProcInv, ProcTypeOK, Stacks
  <2>2. \A c \in CPUs : on[c] # Scheduler => proc[c] = on[c] BY <1>1 DEF ProcInv, Stacks
  <2>3. ASSUME NEW p \in Slots, Free(p), state[p] # "RUNNING", NEW c \in CPUs
        PROVE  on[c] # p
    BY <1>1, <2>3, Constants DEF ProcInv, Stacks, HandedOver, States
  <2>4. ASSUME NEW c \in CPUs, NEW p \in Slots, At(c, p, "swtch")
        PROVE  /\ plock[p] = c /\ wait_lock # c
               /\ \A q \in Slots \ {p} : plock[q] # c
               /\ state[p] # "RUNNING"
    <3>1. plock[p] = c /\ state[p] # "RUNNING" BY <1>1, <2>4 DEF ProcInv, HandedOver, States
    <3>2. wait_lock # c BY <1>1, <2>4 DEF ProcInv, WaitLocked
    <3>3. \A q \in Slots \ {p} : plock[q] # c
      BY <1>1, <2>4, Constants DEF ProcInv, Stacks, HandedOver
    <3> QED BY <3>1, <3>2, <3>3
  <2> QED BY <2>1, <2>2, <2>3, <2>4 DEF StackExclusive
<1> QED BY <1>1, ProcInvariance, PTL

\* While wait_lock is free, no process asleep in wait() has a zombie to reap.
THEOREM NoWakeupLost == ProcSpec => []WaitNotLost
<1>1. ASSUME ProcInv, wait_lock = NoCPU, NEW p \in Slots, state[p] = "SLEEPING"
      PROVE  Zombies(p) = {}
  <2>1. \A r \in Slots : at[r] # "wakeInit" BY <1>1, Constants DEF ProcInv, Stacks, WaitLocked
  <2> QED BY <1>1, <2>1 DEF ProcInv, Watched, Zombies, Children
<1>2. ProcInv => WaitNotLost BY <1>1 DEF WaitNotLost
<1> QED BY <1>2, ProcInvariance, PTL

\* While wait_lock is free, every process but init has a parent that is neither
\* a zombie nor a free slot.
THEOREM EveryoneHasAParent == ProcSpec => []ParentsAlive
<1>1. ASSUME ProcInv, NEW p \in Slots \ {initproc}, state[p] \notin {"UNUSED", "USED"}
      PROVE  parent[p] # None /\ state[parent[p]] \notin {"UNUSED", "ZOMBIE"}
  <2>1. parent[p] \in Slots /\ parent[p] # None BY <1>1 DEF ProcInv, ProcTypeOK, Families
  <2> QED BY <1>1, <2>1 DEF ProcInv, Families
<1>2. ProcInv => ParentsAlive BY <1>1 DEF ParentsAlive
<1> QED BY <1>2, ProcInvariance, PTL

-----
\* XvLog: whatever the number of processes, blocks and values and the size
\* of the log, operations reach the disk together, at one write, or not at
\* all, wherever the machine stops, a buffer that holds the only copy of a
\* block is not recycled, and the log has room for what the operations
\* that it admits may log.

Live       == mode \in {"up", "panic"}
Phases     == {"writeLog", "install", "done"}
Writing    == \E p \in Procs : pc[p] = "writeLog"
Installing == \E p \in Procs : pc[p] = "install"
Users(b)   == {p \in Procs : blk[p] = b}
Once(s)    == \A i, j \in DOMAIN s : s[i] = s[j] => i = j

\* Where a process is, which block it uses, and whether it is in an operation.
Where ==
  \A p \in Procs :
    /\ blk[p] \in Blocks <=> pc[p] \in {"want", "hold"}
    /\ pc[p] = "op" => p \in ops
    /\ p \in ops => pc[p] \in {"op", "want", "hold"}

\* While the machine starts no process runs, what is cached is on the disk, and
\* recovery has copied the first `tail' blocks of the log.
Starting ==
  ~ Live =>
    /\ \A p \in Procs : pc[p] = "idle"
    /\ ops = {} /\ ~ committing
    /\ \A b \in Blocks : refcnt[b] = 0 /\ (buf[b] \in Values => buf[b] = home[b])
    /\ mode = "readHead" => lh = <<>>
    /\ mode = "recover" => lh = head /\ \A i \in 1 .. tail : home[head[i]] = logData[i]

\* A block is in the log once, in memory and on the disk.
Logs == Once(lh) /\ Once(head) /\ Len(head) <= LOGSIZE

\* One process commits, no operation runs meanwhile, and what is logged belongs
\* to an operation that runs or to the commit.
Commits ==
  /\ outstanding = Cardinality(ops)
  /\ committing => ops = {}
  /\ \A p \in Procs : pc[p] \in Phases => committing
  /\ \A p, q \in Procs : pc[p] \in Phases /\ pc[q] \in Phases => p = q
  /\ \A p \in Procs : pc[p] = "done" => lh = <<>>
  /\ Live /\ lh # <<>> => ops # {} \/ committing

\* The header on the disk names blocks only while they are installed.
Headed == Live => head = IF Installing THEN lh ELSE <<>>

\* How far the commit has copied blocks: buffers to the log, the log to the blocks.
Copied ==
  /\ Writing => \A i \in 1 .. tail : logData[i] = buf[lh[i]]
  /\ Installing =>
       \A i \in 1 .. Len(lh) :
         IF i <= tail THEN home[lh[i]] = logData[i] ELSE buf[lh[i]] = logData[i]

\* A block that is still to be installed is pinned and valid; any other buffer
\* equals the disk.  Who refers to a block has a buffer for it.
Kept ==
  Live =>
    \A b \in Blocks :
      /\ buf[b] = NotCached => refcnt[b] = 0
      /\ refcnt[b] = Cardinality(Users(b)) + (IF b \in Pending THEN 1 ELSE 0)
      /\ IF b \in Pending THEN buf[b] \in Values ELSE buf[b] \in Values => buf[b] = home[b]

\* The inductive invariant.
IInv == TypeOK /\ Where /\ Starting /\ Logs /\ Commits /\ Headed /\ Copied /\ Kept

-----
LEMMA Sizes ==
  /\ Blank \in Values /\ NotCached \notin Values /\ Invalid \notin Values
  /\ LOGSIZE \in Nat /\ MaxCalls \in Nat /\ MaxCrashes \in Nat
  /\ IsFiniteSet(Procs) /\ Nobody \notin Procs /\ NoBlock \notin Blocks
BY ValuesAssumption, ProcsAssumption, LogAssumption, BoundsAssumption

LEMMA FiniteUsers ==
  ASSUME NEW b
  PROVE  IsFiniteSet(Users(b)) /\ Cardinality(Users(b)) \in Nat
<1>1. Users(b) \in SUBSET Procs BY DEF Users
<1>2. IsFiniteSet(Users(b)) BY <1>1, Sizes, FS_Subset
<1> QED BY <1>2, FS_CardinalityType

LEMMA FiniteOps ==
  ASSUME ops \subseteq Procs
  PROVE  IsFiniteSet(ops) /\ Cardinality(ops) \in Nat
<1>1. IsFiniteSet(ops) BY Sizes, FS_Subset
<1> QED BY <1>1, FS_CardinalityType

\* Pending, told by positions in the log.
PendingIs ==
  \A b \in Blocks :
    b \in Pending <=> \E i \in 1 .. Len(lh) : lh[i] = b /\ (Installing => i > tail)

LEMMA PendingAt == TypeOK => PendingIs
<1> SUFFICES ASSUME TypeOK, NEW b \in Blocks
             PROVE  b \in Pending <=>
                      \E i \in 1 .. Len(lh) : lh[i] = b /\ (Installing => i > tail)
  BY DEF PendingIs
<1> DEFINE from == IF Installing THEN tail ELSE 0
<1>1. Pending = {lh[i] : i \in (from + 1) .. Len(lh)} BY DEF Pending, Installing
<1>2. Len(lh) \in Nat /\ tail \in 0 .. Len(lh) /\ from \in 0 .. Len(lh) BY DEF TypeOK
<1>3. \A i \in Int : i \in (from + 1) .. Len(lh)
                       <=> i \in 1 .. Len(lh) /\ (Installing => i > tail)
  BY <1>2
<1> HIDE DEF from
<1> QED BY <1>1, <1>3

\* What recovery makes of a block, told by its place in the header.
RecoveredIs ==
  /\ \A i \in 1 .. Len(head) : Recovered[head[i]] = logData[i]
  /\ \A b \in Blocks : (\A i \in 1 .. Len(head) : head[i] # b) => Recovered[b] = home[b]

LEMMA RecoveredAt == head \in Seq(Blocks) /\ Once(head) => RecoveredIs
<1> SUFFICES ASSUME head \in Seq(Blocks), Once(head)
             PROVE  RecoveredIs
  OBVIOUS
<1>1. DOMAIN head = 1 .. Len(head) OBVIOUS
<1>2. ASSUME NEW i \in 1 .. Len(head) PROVE Recovered[head[i]] = logData[i]
  <2>1. head[i] \in Blocks /\ head[i] \in ToSet(head) BY <1>1 DEF ToSet
  <2>2. (CHOOSE j \in DOMAIN head : head[j] = head[i]) = i BY <1>1 DEF Once
  <2> QED BY <2>1, <2>2 DEF Recovered
<1>3. ASSUME NEW b \in Blocks, \A i \in 1 .. Len(head) : head[i] # b
      PROVE  Recovered[b] = home[b]
  BY <1>1, <1>3 DEF Recovered, ToSet
<1> QED BY <1>2, <1>3 DEF RecoveredIs

\* A miss recycles no buffer that is referred to.
LEMMA Recycling ==
  ASSUME NEW cached \in [Blocks -> Values \cup {NotCached, Invalid}], NEW c \in Recycled(cached)
  PROVE  /\ c \in [Blocks -> Values \cup {NotCached, Invalid}]
         /\ \A b \in Blocks : c[b] = cached[b] \/ (c[b] = NotCached /\ refcnt[b] = 0)
<1>1. CASE c = cached BY <1>1
<1>2. CASE c # cached
  <2>1. PICK v \in Blocks : refcnt[v] = 0 /\ c = [cached EXCEPT ![v] = NotCached]
    BY <1>2 DEF Recycled
  <2> QED BY <2>1
<1> QED BY <1>1, <1>2

LEMMA InitIInv == Init => IInv
<1> SUFFICES ASSUME Init PROVE IInv
  OBVIOUS
<1> USE Sizes DEF Init
<1>1. TypeOK
  <2>1. /\ home \in [Blocks -> Values] /\ logData \in [1..LOGSIZE -> Values]
        /\ buf \in [Blocks -> Values \cup {NotCached, Invalid}]
        /\ refcnt \in [Blocks -> Nat] /\ lock \in [Blocks -> Procs \cup {Nobody}]
    OBVIOUS
  <2>2. /\ pc \in [Procs -> {"idle", "begin", "asleep", "op", "want", "hold",
                            "writeLog", "install", "done"}]
        /\ blk \in [Procs -> Blocks \cup {NoBlock}] /\ logged \in [Procs -> SUBSET Blocks]
    OBVIOUS
  <2>3. head \in Seq(Blocks) /\ lh \in Seq(Blocks) /\ Len(lh) <= LOGSIZE /\ tail \in 0 .. Len(lh)
    OBVIOUS
  <2>4. /\ outstanding \in Nat /\ ops \subseteq Procs
        /\ calls \in 0..MaxCalls /\ crashes \in 0..MaxCrashes
    OBVIOUS
  <2>5. committing \in BOOLEAN /\ mode \in {"readHead", "recover", "up", "panic"} OBVIOUS
  <2> HIDE DEF Init
  <2> QED BY <2>1, <2>2, <2>3, <2>4, <2>5 DEF TypeOK
<1>2. ~ Live BY DEF Live
<1>3. Where /\ Starting BY <1>2 DEF Where, Starting
<1>4. Logs BY DEF Logs, Once
<1>5. Commits BY <1>2, FS_EmptySet DEF Commits, Phases
<1>6. Headed /\ Copied /\ Kept BY <1>2 DEF Headed, Copied, Kept, Writing, Installing
<1> QED BY <1>1, <1>3, <1>4, <1>5, <1>6 DEF IInv

-----
\* The machine stops and starts.
LEMMA KeepsCrash == IInv /\ Crash => IInv'
<1> SUFFICES ASSUME IInv, Crash PROVE IInv'
  OBVIOUS
<1> USE Sizes DEF IInv, Crash
<1>1. UNCHANGED <<home, logData, head, calls>> /\ crashes' \in 0 .. MaxCrashes
  <2>1. crashes \in 0 .. MaxCrashes BY DEF TypeOK
  <2> QED BY <2>1 DEF disk
<1>2. TypeOK'
  <2>1. /\ home' \in [Blocks -> Values] /\ logData' \in [1..LOGSIZE -> Values]
        /\ head' \in Seq(Blocks) /\ calls' \in 0 .. MaxCalls
    BY <1>1 DEF TypeOK
  <2>2. /\ buf' \in [Blocks -> Values \cup {NotCached, Invalid}]
        /\ refcnt' \in [Blocks -> Nat] /\ lock' \in [Blocks -> Procs \cup {Nobody}]
    OBVIOUS
  <2>3. /\ pc' \in [Procs -> {"idle", "begin", "asleep", "op", "want", "hold",
                             "writeLog", "install", "done"}]
        /\ blk' \in [Procs -> Blocks \cup {NoBlock}] /\ logged' \in [Procs -> SUBSET Blocks]
    OBVIOUS
  <2>4. /\ lh' \in Seq(Blocks) /\ Len(lh') <= LOGSIZE /\ tail' \in 0 .. Len(lh')
        /\ outstanding' \in Nat /\ ops' \subseteq Procs
    OBVIOUS
  <2>5. committing' \in BOOLEAN /\ mode' \in {"readHead", "recover", "up", "panic"} OBVIOUS
  <2> HIDE DEF Crash, IInv
  <2> QED BY <1>1, <2>1, <2>2, <2>3, <2>4, <2>5 DEF TypeOK
<1>3. ~ Live' BY DEF Live
<1>4. Where' /\ Starting' BY <1>3 DEF Where, Starting
<1>5. Logs' BY <1>1 DEF Logs, Once
<1>6. Commits' BY <1>3, FS_EmptySet DEF Commits, Phases
<1>7. Headed' /\ Copied' /\ Kept' BY <1>3 DEF Headed, Copied, Kept, Writing, Installing
<1> QED BY <1>2, <1>4, <1>5, <1>6, <1>7

LEMMA KeepsReadHead == IInv /\ ReadHead => IInv'
<1> SUFFICES ASSUME IInv, ReadHead PROVE IInv'
  OBVIOUS
<1> USE Sizes DEF IInv, ReadHead
<1>1. /\ UNCHANGED <<home, logData, head, outstanding, committing, buf, refcnt, lock>>
      /\ UNCHANGED <<pc, blk, ops, logged, calls, crashes>>
  BY DEF disk, cache, procs, bounds
<1>2. lh' = head /\ tail' = 0 /\ Len(head) \in Nat /\ Len(head) <= LOGSIZE BY DEF TypeOK, Logs
<1>3. TypeOK' BY <1>1, <1>2 DEF TypeOK
<1>4. ~ Live /\ ~ Live' BY DEF Live
<1>5. Where' /\ Starting' /\ Logs' BY <1>1, <1>2, <1>4 DEF Where, Starting, Logs, Once
<1>6. Commits' BY <1>1, <1>4 DEF Commits, Phases, Starting
<1>7. Headed' /\ Copied' /\ Kept'
  BY <1>1, <1>4 DEF Headed, Copied, Kept, Starting, Writing, Installing
<1> QED BY <1>3, <1>5, <1>6, <1>7

LEMMA KeepsRecoverBlock == IInv /\ RecoverBlock => IInv'
<1> SUFFICES ASSUME IInv, RecoverBlock PROVE IInv'
  OBVIOUS
<1> USE Sizes DEF IInv
<1>1. /\ UNCHANGED <<logData, head, lh, outstanding, committing, refcnt, lock, mode>>
      /\ UNCHANGED <<pc, blk, ops, logged, calls, crashes>> /\ mode = "recover"
  BY DEF RecoverBlock, logst, procs, bounds
<1>2. ~ Live /\ ~ Live' /\ lh = head BY <1>1 DEF Live, Starting
<1>3. tail \in 0 .. Len(lh) - 1 /\ tail' = tail + 1 /\ lh[tail + 1] \in Blocks
  BY DEF RecoverBlock, TypeOK
<1>4. logData[tail + 1] \in Values /\ tail + 1 \in 1 .. Len(lh) /\ Len(lh) \in Nat
  BY <1>3 DEF TypeOK
<1>5. /\ home' = [home EXCEPT ![lh[tail + 1]] = logData[tail + 1]]
      /\ buf' = [buf EXCEPT ![lh[tail + 1]] = logData[tail + 1]]
  BY DEF RecoverBlock, NextLogged
<1>6. TypeOK' BY <1>1, <1>3, <1>4, <1>5 DEF TypeOK
<1>7. Where' /\ Logs' BY <1>1 DEF Where, Logs, Once
<1>8. Starting'
  <2>1. \A b \in Blocks : buf'[b] \in Values => buf'[b] = home'[b]
    BY <1>2, <1>3, <1>5 DEF Starting, TypeOK
  <2>2. \A k \in 1 .. tail' : home'[head[k]] = logData[k]
    <3> SUFFICES ASSUME NEW k \in 1 .. tail + 1 PROVE home'[head[k]] = logData[k]
      BY <1>3
    <3>1. k \in DOMAIN head /\ head[k] \in Blocks /\ tail + 1 \in DOMAIN head
      BY <1>2, <1>3, <1>4 DEF TypeOK
    <3>2. CASE k = tail + 1 BY <3>1, <3>2, <1>2, <1>5 DEF TypeOK
    <3>3. CASE k # tail + 1
      <4>1. head[k] # head[tail + 1] BY <3>1, <3>3 DEF Logs, Once
      <4>2. k \in 1 .. tail BY <3>3, <1>3
      <4>3. home[head[k]] = logData[k] BY <4>2, <1>1, <1>2 DEF Starting
      <4> QED BY <4>1, <4>3, <3>1, <1>2, <1>5 DEF TypeOK
    <3> QED BY <3>2, <3>3
  <2> QED BY <2>1, <2>2, <1>1, <1>2 DEF Starting
<1>9. Commits' BY <1>1, <1>2 DEF Commits, Phases
<1>10. Headed' /\ Copied' /\ Kept'
  BY <1>1, <1>2 DEF Headed, Copied, Kept, Starting, Writing, Installing
<1> QED BY <1>6, <1>7, <1>8, <1>9, <1>10

LEMMA KeepsClearLog == IInv /\ ClearLog => IInv'
<1> SUFFICES ASSUME IInv, ClearLog PROVE IInv'
  OBVIOUS
<1> USE Sizes DEF IInv
<1>1. /\ UNCHANGED <<home, logData, outstanding, committing, buf, refcnt, lock>>
      /\ UNCHANGED <<pc, blk, ops, logged, calls, crashes>>
  BY DEF ClearLog, cache, procs, bounds
<1>2. mode' = "up" /\ lh' = <<>> /\ head' = <<>> /\ tail' = 0 /\ ~ Live /\ Live'
  BY DEF ClearLog, Live
<1>3. TypeOK' BY <1>1, <1>2 DEF TypeOK
<1>4. Where' /\ Starting' /\ Logs' BY <1>1, <1>2 DEF Where, Starting, Logs, Once
<1>5. \A p \in Procs : pc[p] = "idle" /\ blk[p] \notin Blocks BY <1>2 DEF Starting, Where
<1>6. Commits' /\ Headed' /\ Copied'
  BY <1>1, <1>2, <1>5 DEF Commits, Phases, Headed, Copied, Writing, Installing
<1>7. Kept'
  <2>1. Pending' = {} BY <1>2, <1>3, <1>1, <1>5 DEF Pending, Installing
  <2>2. ASSUME NEW b \in Blocks PROVE Cardinality(Users(b)') = 0
    <3>1. Users(b)' = {} BY <1>1, <1>5, <2>2 DEF Users
    <3> QED BY <3>1, FS_EmptySet
  <2>3. \A b \in Blocks : refcnt[b] = 0 /\ (buf[b] \in Values => buf[b] = home[b])
    BY <1>2 DEF Starting
  <2> QED BY <1>1, <2>1, <2>2, <2>3 DEF Kept
<1> QED BY <1>3, <1>4, <1>6, <1>7

-----
\* bio.c
\* Who takes a buffer, or leaves it, is one user more or less of that block.
LEMMA UserCome ==
  ASSUME NEW p \in Procs, NEW b \in Blocks, blk \in [Procs -> Blocks \cup {NoBlock}],
         blk[p] \notin Blocks, blk' = [blk EXCEPT ![p] = b]
  PROVE  /\ Cardinality(Users(b)') = Cardinality(Users(b)) + 1
         /\ \A c \in Blocks : c # b => Users(c)' = Users(c)
<1>1. Users(b)' = Users(b) \cup {p} /\ p \notin Users(b) BY DEF Users
<1>2. Cardinality(Users(b)') = Cardinality(Users(b)) + 1 BY <1>1, FiniteUsers, FS_AddElement
<1>3. \A c \in Blocks : c # b => Users(c)' = Users(c) BY DEF Users
<1> QED BY <1>2, <1>3

LEMMA UserGo ==
  ASSUME NEW p \in Procs, NEW b \in Blocks, blk \in [Procs -> Blocks \cup {NoBlock}],
         blk[p] = b, blk' = [blk EXCEPT ![p] = NoBlock]
  PROVE  /\ Cardinality(Users(b)') = Cardinality(Users(b)) - 1 /\ Cardinality(Users(b)) > 0
         /\ \A c \in Blocks : c # b => Users(c)' = Users(c)
<1>1. Users(b)' = Users(b) \ {p} /\ p \in Users(b) BY Sizes DEF Users
<1>2. Cardinality(Users(b)') = Cardinality(Users(b)) - 1 BY <1>1, FiniteUsers, FS_RemoveElement
<1>3. Cardinality(Users(b)) > 0
  <2>1. Users(b) # {} BY <1>1
  <2> QED BY <2>1, FiniteUsers, FS_EmptySet
<1>4. \A c \in Blocks : c # b => Users(c)' = Users(c) BY Sizes DEF Users
<1> QED BY <1>2, <1>3, <1>4

\* A running process that does not commit leaves the commit where it is.
LEMMA SamePhases ==
  ASSUME \A q \in Procs : /\ pc'[q] = "writeLog" <=> pc[q] = "writeLog"
                          /\ pc'[q] = "install" <=> pc[q] = "install"
  PROVE  Writing' = Writing /\ Installing' = Installing
BY DEF Writing, Installing

\* A buffer that is evicted or allocated afresh is neither pinned nor in use.
Evicts == \A c \in Blocks : buf'[c] = buf[c] \/ (refcnt[c] = 0 /\ buf'[c] \notin Values)

\* No pending block loses its buffer.
KeepsPinned == \A b \in Blocks : b \in Pending => buf'[b] = buf[b]

LEMMA EvictsUnpinned ==
  ASSUME IInv, Live, Evicts
  PROVE  KeepsPinned
BY FiniteUsers DEF IInv, Kept, Evicts, KeepsPinned

\* Copied holds while the pending blocks keep their buffers.
LEMMA CopiedStays ==
  ASSUME IInv, KeepsPinned, UNCHANGED <<home, logData, lh, tail>>,
         Writing' = Writing, Installing' = Installing
  PROVE  Copied'
<1>1. \A b \in Blocks : b \in Pending => buf'[b] = buf[b] BY DEF KeepsPinned
<1>2. PendingIs BY PendingAt DEF IInv
<1>3. Len(lh) \in Nat /\ tail \in 0 .. Len(lh) /\ \A i \in 1 .. Len(lh) : lh[i] \in Blocks
  BY DEF IInv, TypeOK
<1>4. Writing => ~ Installing BY DEF IInv, Commits, Writing, Installing, Phases
<1>5. \A i \in 1 .. Len(lh) : (Installing => i > tail) => buf'[lh[i]] = buf[lh[i]]
  BY <1>1, <1>2, <1>3 DEF PendingIs
<1>6. Copied BY DEF IInv
<1> QED BY <1>3, <1>4, <1>5, <1>6 DEF Copied

LEMMA KeepsBget ==
  ASSUME IInv, NEW p \in Procs, NEW b \in Blocks, Bget(p, b)
  PROVE  IInv' /\ Evicts
<1> USE Sizes DEF IInv
<1>1. /\ UNCHANGED <<home, logData, head, lh, outstanding, committing, lock>>
      /\ UNCHANGED <<mode, tail, ops, logged, crashes>> /\ Live /\ Live'
  BY DEF Bget, disk, logst, Running, Live
<1>2. /\ pc[p] \in {"idle", "op"} /\ pc' = [pc EXCEPT ![p] = "want"]
      /\ blk[p] \notin Blocks /\ blk' = [blk EXCEPT ![p] = b]
  BY DEF Bget, Goto, Where
<1>3. calls' \in 0 .. MaxCalls
  <2>1. calls \in 0 .. MaxCalls BY DEF TypeOK
  <2> QED BY <2>1 DEF Bget
<1>4. /\ buf' \in [Blocks -> Values \cup {NotCached, Invalid}]
      /\ refcnt' = [refcnt EXCEPT ![b] = refcnt[b] + 1]
      /\ buf'[b] # NotCached /\ Evicts
      /\ \A c \in Blocks : buf'[c] = NotCached /\ buf[c] # NotCached => refcnt[c] = 0 /\ c # b
  <2>1. CASE buf[b] # NotCached
    <3>1. buf' = buf /\ refcnt' = [refcnt EXCEPT ![b] = refcnt[b] + 1] BY <2>1 DEF Bget
    <3>2. buf \in [Blocks -> Values \cup {NotCached, Invalid}] BY DEF TypeOK
    <3> QED BY <2>1, <3>1, <3>2 DEF Evicts
  <2>2. CASE buf[b] = NotCached
    <3>1. refcnt[b] = 0 BY <2>2, <1>1 DEF Kept
    <3>2. refcnt' = [refcnt EXCEPT ![b] = refcnt[b] + 1] BY <2>2, <3>1 DEF Bget
    <3>3. PICK c \in Recycled(buf) : buf' = [c EXCEPT ![b] = Invalid] BY <2>2 DEF Bget
    <3>4. /\ c \in [Blocks -> Values \cup {NotCached, Invalid}]
          /\ \A a \in Blocks : c[a] = buf[a] \/ (c[a] = NotCached /\ refcnt[a] = 0)
      BY Recycling DEF TypeOK
    <3>5. Invalid # NotCached BY DEF Invalid, NotCached
    <3>6. /\ buf' \in [Blocks -> Values \cup {NotCached, Invalid}] /\ buf'[b] = Invalid
          /\ \A a \in Blocks : a # b => buf'[a] = c[a]
      BY <3>3, <3>4
    <3> QED BY <3>1, <3>2, <3>4, <3>5, <3>6 DEF Evicts
  <2> QED BY <2>1, <2>2
<1>5. TypeOK'
  <2>1. /\ pc' \in [Procs -> {"idle", "begin", "asleep", "op", "want", "hold",
                             "writeLog", "install", "done"}]
        /\ blk' \in [Procs -> Blocks \cup {NoBlock}] /\ refcnt' \in [Blocks -> Nat]
    BY <1>2, <1>4 DEF TypeOK
  <2> QED BY <1>1, <1>3, <1>4, <2>1 DEF TypeOK
<1>6. Where' BY <1>1, <1>2 DEF Where, TypeOK
<1>7. Starting' /\ Logs' BY <1>1 DEF Starting, Logs, Once
<1>8. \A q \in Procs : q # p => pc'[q] = pc[q] BY <1>2 DEF TypeOK
<1>9. pc'[p] = "want" BY <1>2 DEF TypeOK
<1>10. Writing' = Writing /\ Installing' = Installing BY <1>2, <1>8, <1>9, SamePhases
<1>11. Commits' BY <1>1, <1>8, <1>9 DEF Commits, Phases
<1>12. Headed' BY <1>1, <1>10 DEF Headed
<1>13. KeepsPinned /\ Copied' BY <1>1, <1>4, <1>10, EvictsUnpinned, CopiedStays
<1>14. Kept'
  <2>1. Pending' = Pending BY <1>1, <1>10 DEF Pending, Installing
  <2>2. /\ Cardinality(Users(b)') = Cardinality(Users(b)) + 1
        /\ \A c \in Blocks : c # b => Users(c)' = Users(c)
    BY <1>2, UserCome DEF TypeOK
  <2>3. \A c \in Blocks : c \in Pending => buf'[c] = buf[c] BY <1>13 DEF KeepsPinned
  <2>4. ASSUME NEW c \in Blocks
        PROVE  refcnt'[c] = Cardinality(Users(c)') + (IF c \in Pending' THEN 1 ELSE 0)
    <3>1. refcnt[c] = Cardinality(Users(c)) + (IF c \in Pending THEN 1 ELSE 0) BY <1>1 DEF Kept
    <3>2. Cardinality(Users(c)) \in Nat /\ refcnt \in [Blocks -> Nat] BY FiniteUsers DEF TypeOK
    <3> QED BY <2>1, <2>2, <3>1, <3>2, <1>4
  <2>5. ASSUME NEW c \in Blocks
        PROVE  /\ buf'[c] = NotCached => refcnt'[c] = 0
               /\ IF c \in Pending' THEN buf'[c] \in Values
                                    ELSE buf'[c] \in Values => buf'[c] = home'[c]
    BY <1>1, <1>4, <2>1, <2>3 DEF Kept, Evicts, TypeOK
  <2> QED BY <2>4, <2>5 DEF Kept
<1> QED BY <1>4, <1>5, <1>6, <1>7, <1>11, <1>12, <1>13, <1>14

\* A step that leaves the disk, the log and the buffers leaves what is said of them.
LEMMA QuietKeeps ==
  ASSUME IInv, Live, Live', Writing' = Writing, Installing' = Installing,
         UNCHANGED <<home, logData, head, lh, tail, buf, refcnt, blk>>
  PROVE  Starting' /\ Logs' /\ Headed' /\ Copied' /\ Kept'
<1> USE DEF IInv
<1>1. Starting' /\ Logs' /\ Headed' BY DEF Starting, Logs, Once, Headed
<1>2. Copied' BY CopiedStays DEF KeepsPinned
<1>3. Pending' = Pending BY DEF Pending, Installing
<1>4. \A b \in Blocks : Users(b)' = Users(b) BY DEF Users
<1>5. Kept' BY <1>3, <1>4 DEF Kept
<1> QED BY <1>1, <1>2, <1>5

LEMMA KeepsLock ==
  ASSUME IInv, NEW p \in Procs, Lock(p)
  PROVE  IInv' /\ \A b \in Blocks : buf'[b] = buf[b] \/ (buf[b] = Invalid /\ buf'[b] = home[b])
<1> USE Sizes DEF IInv
<1>1. /\ UNCHANGED <<home, logData, head, lh, outstanding, committing, refcnt>>
      /\ UNCHANGED <<mode, tail, blk, ops, logged, calls, crashes>> /\ Live /\ Live'
  BY DEF Lock, disk, logst, bounds, Running, Live
<1>2. pc[p] = "want" /\ pc' = [pc EXCEPT ![p] = "hold"] /\ blk[p] \in Blocks
  BY DEF Lock, Goto, Where
<1>3. lock' \in [Blocks -> Procs \cup {Nobody}] BY <1>2 DEF Lock, TypeOK
<1>4. /\ buf' \in [Blocks -> Values \cup {NotCached, Invalid}]
      /\ \A b \in Blocks : buf'[b] = buf[b] \/ (buf[b] = Invalid /\ buf'[b] = home[b])
  <2>1. buf \in [Blocks -> Values \cup {NotCached, Invalid}] /\ home[blk[p]] \in Values
    BY <1>2 DEF TypeOK
  <2>2. buf' = [buf EXCEPT ![blk[p]] = IF buf[blk[p]] = Invalid THEN home[blk[p]]
                                                               ELSE buf[blk[p]]]
    BY DEF Lock
  <2> QED BY <1>2, <2>1, <2>2
<1>5. TypeOK'
  <2>1. pc' \in [Procs -> {"idle", "begin", "asleep", "op", "want", "hold",
                          "writeLog", "install", "done"}]
    BY <1>2 DEF TypeOK
  <2> QED BY <1>1, <1>3, <1>4, <2>1 DEF TypeOK
<1>6. pc'[p] = "hold" /\ \A q \in Procs : q # p => pc'[q] = pc[q] BY <1>2 DEF TypeOK
<1>7. Where' /\ Commits' BY <1>1, <1>2, <1>6 DEF Where, Commits, Phases
<1>8. Writing' = Writing /\ Installing' = Installing BY <1>2, <1>6, SamePhases
<1>9. Starting' /\ Logs' /\ Headed' BY <1>1, <1>8 DEF Starting, Logs, Once, Headed
<1>10. KeepsPinned /\ Copied'
  <2>1. KeepsPinned BY <1>1, <1>4 DEF KeepsPinned, Kept
  <2> QED BY <2>1, <1>1, <1>8, CopiedStays
<1>11. Kept'
  <2>1. Pending' = Pending BY <1>1, <1>8 DEF Pending, Installing
  <2>2. \A b \in Blocks : Users(b)' = Users(b) BY <1>1 DEF Users
  <2>3. Invalid # NotCached /\ NotCached \notin Values BY DEF Invalid, NotCached
  <2>4. \A b \in Blocks : home[b] \in Values BY DEF TypeOK
  <2> QED BY <1>1, <1>4, <1>10, <2>1, <2>2, <2>3, <2>4 DEF Kept, KeepsPinned
<1> QED BY <1>4, <1>5, <1>7, <1>9, <1>10, <1>11

LEMMA KeepsBrelse ==
  ASSUME IInv, NEW p \in Procs, Brelse(p)
  PROVE  IInv'
<1> USE Sizes DEF IInv
<1>1. /\ UNCHANGED <<home, logData, head, lh, outstanding, committing, buf>>
      /\ UNCHANGED <<mode, tail, ops, logged, calls, crashes>> /\ Live /\ Live'
  BY DEF Brelse, disk, logst, bounds, Running, Live
<1>2. /\ pc[p] = "hold" /\ pc' = [pc EXCEPT ![p] = IF p \in ops THEN "op" ELSE "idle"]
      /\ blk[p] \in Blocks /\ blk' = [blk EXCEPT ![p] = NoBlock]
      /\ refcnt' = [refcnt EXCEPT ![blk[p]] = refcnt[blk[p]] - 1]
  BY DEF Brelse, Goto, Where
<1>3. lock' \in [Blocks -> Procs \cup {Nobody}] BY <1>2 DEF Brelse, TypeOK
<1>b. PICK b \in Blocks : b = blk[p] BY <1>2
<1>4. /\ Cardinality(Users(b)') = Cardinality(Users(b)) - 1
      /\ Cardinality(Users(b)) > 0
      /\ \A c \in Blocks : c # b => Users(c)' = Users(c)
  BY <1>2, <1>b, UserGo DEF TypeOK
<1>5. refcnt' \in [Blocks -> Nat] /\ refcnt \in [Blocks -> Nat]
  <2>1. refcnt[blk[p]] > 0 BY <1>1, <1>2, <1>b, <1>4, FiniteUsers DEF Kept
  <2> QED BY <1>2, <2>1 DEF TypeOK
<1>6. TypeOK'
  <2>1. /\ pc' \in [Procs -> {"idle", "begin", "asleep", "op", "want", "hold",
                             "writeLog", "install", "done"}]
        /\ blk' \in [Procs -> Blocks \cup {NoBlock}]
    BY <1>2 DEF TypeOK
  <2> QED BY <1>1, <1>3, <1>5, <2>1 DEF TypeOK
<1>7. /\ pc'[p] = IF p \in ops THEN "op" ELSE "idle"
      /\ blk'[p] = NoBlock
      /\ \A q \in Procs : q # p => pc'[q] = pc[q] /\ blk'[q] = blk[q]
  BY <1>2 DEF TypeOK
<1>8. Where' /\ Commits' BY <1>1, <1>2, <1>7 DEF Where, Commits, Phases
<1>9. Writing' = Writing /\ Installing' = Installing BY <1>2, <1>7, SamePhases
<1>10. Starting' /\ Logs' /\ Headed' /\ Copied'
  BY <1>1, <1>9, CopiedStays DEF Starting, Logs, Once, Headed, KeepsPinned
<1>11. Kept'
  <2>1. Pending' = Pending BY <1>1, <1>9 DEF Pending, Installing
  <2>2. ASSUME NEW c \in Blocks
        PROVE  refcnt'[c] = Cardinality(Users(c)') + (IF c \in Pending' THEN 1 ELSE 0)
    <3>1. refcnt[c] = Cardinality(Users(c)) + (IF c \in Pending THEN 1 ELSE 0) BY <1>1 DEF Kept
    <3>2. Cardinality(Users(c)) \in Nat BY FiniteUsers
    <3>3. refcnt'[c] = IF c = b THEN refcnt[c] - 1 ELSE refcnt[c] BY <1>2, <1>b, <1>5
    <3>4. Cardinality(Users(c)') = IF c = b THEN Cardinality(Users(c)) - 1
                                            ELSE Cardinality(Users(c))
      BY <1>4
    <3> QED BY <2>1, <3>1, <3>2, <3>3, <3>4
  <2>3. ASSUME NEW c \in Blocks, buf'[c] = NotCached PROVE refcnt'[c] = 0
    <3>1. refcnt[c] = 0 BY <1>1, <2>3 DEF Kept
    <3>2. c # b BY <3>1, <1>1, <1>4, FiniteUsers DEF Kept
    <3> QED BY <3>1, <3>2, <1>2, <1>b, <1>5
  <2> QED BY <1>1, <2>1, <2>2, <2>3 DEF Kept
<1> QED BY <1>6, <1>8, <1>10, <1>11

-----
\* begin_op(), log_write() and end_op().
LEMMA KeepsBeginOp ==
  ASSUME IInv, NEW p \in Procs, BeginOp(p)
  PROVE  IInv'
<1> USE Sizes DEF IInv
<1>1. /\ UNCHANGED <<home, logData, head, lh, committing, buf, refcnt, lock>>
      /\ UNCHANGED <<mode, tail, blk, crashes>> /\ Live /\ Live'
      /\ pc[p] \in {"idle", "begin"} /\ p \notin ops
  BY DEF BeginOp, disk, cache, Running, Live, Where
<1>2. calls' \in 0 .. MaxCalls
  <2>1. calls \in 0 .. MaxCalls BY DEF TypeOK
  <2> QED BY <2>1 DEF BeginOp
<1>3. \/ pc' = [pc EXCEPT ![p] = "asleep"] /\ UNCHANGED <<ops, logged, outstanding>>
      \/ /\ pc' = [pc EXCEPT ![p] = "op"] /\ ops' = ops \cup {p} /\ ~ committing
         /\ logged' = [logged EXCEPT ![p] = {}] /\ outstanding' = outstanding + 1
  BY DEF BeginOp, Goto
<1>4. /\ pc' \in [Procs -> {"idle", "begin", "asleep", "op", "want", "hold",
                            "writeLog", "install", "done"}]
      /\ ops' \subseteq Procs /\ outstanding' \in Nat /\ logged' \in [Procs -> SUBSET Blocks]
  <2>1. pc' \in [Procs -> {"idle", "begin", "asleep", "op", "want", "hold",
                          "writeLog", "install", "done"}]
    BY <1>3 DEF TypeOK
  <2>2. ops' \subseteq Procs /\ outstanding' \in Nat BY <1>3 DEF TypeOK
  <2>3. logged' \in [Procs -> SUBSET Blocks] BY <1>3 DEF TypeOK
  <2> QED BY <2>1, <2>2, <2>3
<1>5. TypeOK' BY <1>1, <1>2, <1>4 DEF TypeOK
<1>6. /\ \A q \in Procs : q # p => pc'[q] = pc[q]
      /\ \/ pc'[p] = "asleep" /\ ops' = ops
         \/ pc'[p] = "op" /\ ops' = ops \cup {p} /\ ~ committing
  BY <1>3 DEF TypeOK
<1>7. Where' BY <1>1, <1>6 DEF Where
<1>8. Writing' = Writing /\ Installing' = Installing BY <1>1, <1>6, SamePhases
<1>9. outstanding' = Cardinality(ops')
  <2>1. Cardinality(ops \cup {p}) = Cardinality(ops) + 1
    BY <1>1, FiniteOps, FS_AddElement DEF TypeOK
  <2> QED BY <1>3, <2>1 DEF Commits
<1>10. Commits' BY <1>1, <1>6, <1>9 DEF Commits, Phases
<1> QED BY <1>1, <1>5, <1>7, <1>8, <1>10, QuietKeeps

LEMMA KeepsLogWritePanic ==
  ASSUME IInv, NEW p \in Procs, LogWritePanic(p)
  PROVE  IInv'
<1> USE DEF IInv
<1>1. /\ UNCHANGED <<home, logData, head, lh, outstanding, committing, buf, refcnt, lock>>
      /\ UNCHANGED <<tail, pc, blk, ops, logged, calls, crashes>>
      /\ Live /\ mode' = "panic" /\ Live'
  BY DEF LogWritePanic, Modifies, disk, logst, cache, procs, bounds, Running, Live
<1>2. TypeOK' BY <1>1 DEF TypeOK
<1>3. Where' /\ Commits' BY <1>1 DEF Where, Commits, Phases
<1>4. Writing' = Writing /\ Installing' = Installing BY <1>1, SamePhases
<1> QED BY <1>1, <1>2, <1>3, <1>4, QuietKeeps

LEMMA KeepsCommitted ==
  ASSUME IInv, NEW p \in Procs, Committed(p)
  PROVE  IInv'
<1> USE DEF IInv
<1>1. /\ UNCHANGED <<home, logData, head, lh, outstanding, buf, refcnt, lock>>
      /\ UNCHANGED <<mode, tail, blk, ops, logged, calls, crashes>>
      /\ Live /\ Live' /\ pc[p] = "done" /\ ~ committing'
  BY DEF Committed, Committer, disk, cache, bounds, Running, Live
<1>2. /\ pc' \in [Procs -> {"idle", "begin", "asleep", "op", "want", "hold",
                            "writeLog", "install", "done"}]
      /\ pc'[p] = "idle"
      /\ \A q \in Procs : q # p => pc'[q] = IF pc[q] = "asleep" THEN "begin" ELSE pc[q]
  BY DEF Committed, WakeupLog, TypeOK
<1>3. TypeOK'
  <2>1. committing' \in BOOLEAN BY DEF Committed
  <2> QED BY <1>1, <1>2, <2>1 DEF TypeOK
<1>4. p \notin ops /\ lh = <<>> /\ \A q \in Procs : pc[q] \in Phases => q = p
  BY <1>1 DEF Where, Commits, Phases
<1>5. Where' BY <1>1, <1>2, <1>4 DEF Where
<1>6. Commits' BY <1>1, <1>2, <1>4 DEF Commits, Phases
<1>7. Writing' = Writing /\ Installing' = Installing BY <1>1, <1>2, SamePhases
<1> QED BY <1>1, <1>3, <1>5, <1>6, <1>7, QuietKeeps

LEMMA KeepsEndOp ==
  ASSUME IInv, NEW p \in Procs, EndOp(p)
  PROVE  IInv'
<1> USE Sizes DEF IInv
<1>1. /\ UNCHANGED <<home, logData, head, lh, buf, refcnt, lock>>
      /\ UNCHANGED <<mode, blk, logged, calls, crashes>> /\ Live /\ Live'
      /\ pc[p] = "op" /\ p \in ops /\ ops' = ops \ {p} /\ outstanding' = outstanding - 1
  BY DEF EndOp, disk, cache, bounds, Running, Live, Where
<1>2. /\ outstanding' = Cardinality(ops') /\ outstanding' \in Nat
      /\ outstanding = 1 <=> ops' = {}
  <2>1. IsFiniteSet(ops) /\ Cardinality(ops) \in Nat /\ outstanding = Cardinality(ops)
    BY FiniteOps DEF TypeOK, Commits
  <2>2. IsFiniteSet(ops') /\ Cardinality(ops') = Cardinality(ops) - 1
    BY <1>1, <2>1, FS_RemoveElement
  <2>3. Cardinality(ops') \in Nat /\ (Cardinality(ops') = 0 <=> ops' = {})
    BY <2>2, FS_CardinalityType, FS_EmptySet
  <2> QED BY <1>1, <2>1, <2>2, <2>3
<1>3. ~ committing /\ \A q \in Procs : pc[q] \notin Phases BY <1>1 DEF Commits
<1>4. ~ Writing /\ ~ Installing /\ head = <<>>
  BY <1>1, <1>3 DEF Writing, Installing, Phases, Headed
<1>5. CASE outstanding = 1
  <2>1. /\ committing' = TRUE /\ tail' = 0 /\ ops' = {}
        /\ pc' = [pc EXCEPT ![p] = IF lh = <<>> THEN "done" ELSE "writeLog"]
    BY <1>2, <1>5 DEF EndOp, Goto
  <2>2. /\ pc' \in [Procs -> {"idle", "begin", "asleep", "op", "want", "hold",
                              "writeLog", "install", "done"}]
        /\ pc'[p] = IF lh = <<>> THEN "done" ELSE "writeLog"
        /\ \A q \in Procs : q # p => pc'[q] = pc[q]
    BY <2>1 DEF TypeOK
  <2>3. TypeOK'
    <3>1. tail' \in 0 .. Len(lh') /\ committing' \in BOOLEAN /\ ops' \subseteq Procs
      BY <1>1, <2>1 DEF TypeOK
    <3> QED BY <1>1, <1>2, <2>2, <3>1 DEF TypeOK
  <2>4. Where' BY <1>1, <2>1, <2>2 DEF Where
  <2>5. Commits' BY <1>1, <1>2, <1>3, <2>1, <2>2 DEF Commits, Phases
  <2>6. ~ Installing' BY <1>4, <2>2 DEF Installing
  <2>7. Starting' /\ Logs' /\ Headed' /\ Copied'
    BY <1>1, <1>4, <2>1, <2>6 DEF Starting, Logs, Once, Headed, Copied
  <2>8. Pending' = Pending BY <1>1, <1>4, <2>6 DEF Pending, Installing
  <2>9. \A b \in Blocks : Users(b)' = Users(b) BY <1>1 DEF Users
  <2>10. Kept' BY <1>1, <2>8, <2>9 DEF Kept
  <2> QED BY <2>3, <2>4, <2>5, <2>7, <2>10
<1>6. CASE outstanding # 1
  <2>1. UNCHANGED <<committing, tail>> /\ WakeupLog(p, "idle") BY <1>6 DEF EndOp
  <2>2. /\ pc' \in [Procs -> {"idle", "begin", "asleep", "op", "want", "hold",
                              "writeLog", "install", "done"}]
        /\ pc'[p] = "idle"
        /\ \A q \in Procs : q # p => pc'[q] = IF pc[q] = "asleep" THEN "begin" ELSE pc[q]
    BY <2>1 DEF WakeupLog, TypeOK
  <2>3. TypeOK' BY <1>1, <1>2, <2>1, <2>2 DEF TypeOK
  <2>4. Where' BY <1>1, <2>2 DEF Where
  <2>5. Commits' BY <1>1, <1>2, <1>3, <1>6, <2>1, <2>2 DEF Commits, Phases
  <2>6. Writing' = Writing /\ Installing' = Installing BY <1>1, <2>2, SamePhases
  <2> QED BY <1>1, <2>1, <2>3, <2>4, <2>5, <2>6, QuietKeeps
<1> QED BY <1>5, <1>6

LEMMA KeepsLogWrite ==
  ASSUME IInv, NEW p \in Procs, NEW v \in Values, LogWrite(p, v)
  PROVE  IInv'
<1> USE Sizes DEF IInv
<1>1. /\ UNCHANGED <<home, logData, head, outstanding, committing, lock, mode>>
      /\ UNCHANGED <<tail, pc, blk, ops, calls, crashes>> /\ Live /\ Live'
      /\ pc[p] = "hold" /\ p \in ops /\ blk[p] \in Blocks
  BY DEF LogWrite, Modifies, disk, bounds, Running, Live, Where
<1>b. PICK b \in Blocks : b = blk[p] BY <1>1
<1>2. buf' = [buf EXCEPT ![b] = v] /\ logged' = [logged EXCEPT ![p] = @ \cup {b}]
  BY <1>b DEF LogWrite
<1>3. ~ committing /\ \A q \in Procs : pc[q] \notin Phases BY <1>1 DEF Commits
<1>4. ~ Writing /\ ~ Installing /\ ~ Writing' /\ ~ Installing'
  BY <1>1, <1>3 DEF Writing, Installing, Phases
<1>5. Len(lh) \in Nat /\ lh \in Seq(Blocks) /\ Len(lh) < LOGSIZE /\ DOMAIN lh = 1 .. Len(lh)
  BY DEF LogWrite, TooBig, TypeOK
<1>6. \/ (\E k \in 1 .. Len(lh) : lh[k] = b) /\ UNCHANGED <<lh, refcnt>>
      \/ /\ \A k \in 1 .. Len(lh) : lh[k] # b
         /\ lh' = Append(lh, b) /\ refcnt' = [refcnt EXCEPT ![b] = refcnt[b] + 1]
  BY <1>b, <1>5 DEF LogWrite, ToSet
<1>7. /\ lh' \in Seq(Blocks) /\ Len(lh') <= LOGSIZE /\ tail \in 0 .. Len(lh')
      /\ refcnt' \in [Blocks -> Nat]
  <2>1. lh' \in Seq(Blocks) /\ Len(lh') <= LOGSIZE BY <1>5, <1>6
  <2>2. tail \in 0 .. Len(lh) /\ (Len(lh') = Len(lh) \/ Len(lh') = Len(lh) + 1)
    BY <1>5, <1>6 DEF TypeOK
  <2>3. refcnt' \in [Blocks -> Nat] BY <1>6 DEF TypeOK
  <2> QED BY <1>5, <2>1, <2>2, <2>3
<1>8. TypeOK'
  <2>1. /\ buf' \in [Blocks -> Values \cup {NotCached, Invalid}]
        /\ logged' \in [Procs -> SUBSET Blocks]
    BY <1>2 DEF TypeOK
  <2> QED BY <1>1, <1>7, <2>1 DEF TypeOK
<1>9. Where' /\ Starting' BY <1>1 DEF Where, Starting
<1>10. Once(lh')
  <2>1. CASE lh' = lh BY <2>1 DEF Logs
  <2>2. CASE lh' = Append(lh, b) /\ \A k \in 1 .. Len(lh) : lh[k] # b
    <3> SUFFICES ASSUME NEW i \in DOMAIN lh', NEW j \in DOMAIN lh', lh'[i] = lh'[j]
                 PROVE  i = j
      BY DEF Once
    <3>1. /\ DOMAIN lh' = 1 .. Len(lh) + 1 /\ lh'[Len(lh) + 1] = b
          /\ \A k \in 1 .. Len(lh) : lh'[k] = lh[k]
      BY <2>2, <1>5
    <3>2. \A k, l \in 1 .. Len(lh) : lh[k] = lh[l] => k = l BY <1>5 DEF Logs, Once
    <3> QED BY <2>2, <1>5, <3>1, <3>2
  <2> QED BY <1>6, <2>1, <2>2
<1>11. Logs' /\ Headed' /\ Copied' BY <1>1, <1>4, <1>10 DEF Logs, Once, Headed, Copied
<1>12. Commits' BY <1>1, <1>3 DEF Commits, Phases
<1>13. /\ PendingIs /\ PendingIs'
       /\ \A c \in Blocks : c \in Pending <=> \E k \in 1 .. Len(lh) : lh[k] = c
       /\ \A c \in Blocks : c \in Pending' <=> \E k \in 1 .. Len(lh') : lh'[k] = c
  <2>1. TypeOK' => PendingIs' BY PendingAt, PTL
  <2>2. PendingIs /\ PendingIs' BY <1>8, <2>1, PendingAt
  <2> QED BY <2>2, <1>4 DEF PendingIs
<1>14. \A c \in Blocks : c \in Pending' <=> c \in Pending \/ c = b
  <2>1. CASE UNCHANGED lh /\ \E k \in 1 .. Len(lh) : lh[k] = b BY <2>1, <1>13
  <2>2. CASE lh' = Append(lh, b)
    <3>1. /\ Len(lh') = Len(lh) + 1 /\ lh'[Len(lh) + 1] = b
          /\ \A k \in 1 .. Len(lh) : lh'[k] = lh[k]
      BY <2>2, <1>5
    <3>2. \A c \in Blocks : (\E k \in 1 .. Len(lh') : lh'[k] = c)
                              <=> (\E k \in 1 .. Len(lh) : lh[k] = c) \/ c = b
      BY <3>1, <1>5
    <3> QED BY <3>2, <1>13
  <2> QED BY <1>6, <2>1, <2>2
<1>15. \A c \in Blocks : refcnt'[c] = IF c = b /\ b \notin Pending THEN refcnt[c] + 1 ELSE refcnt[c]
  <2>1. refcnt \in [Blocks -> Nat] BY DEF TypeOK
  <2>2. \/ b \in Pending /\ refcnt' = refcnt
        \/ b \notin Pending /\ refcnt' = [refcnt EXCEPT ![b] = refcnt[b] + 1]
    BY <1>6, <1>13
  <2> QED BY <2>1, <2>2
<1>16. Kept'
  <2>1. ASSUME NEW c \in Blocks
        PROVE  refcnt'[c] = Cardinality(Users(c)') + (IF c \in Pending' THEN 1 ELSE 0)
    <3>1. refcnt[c] = Cardinality(Users(c)) + (IF c \in Pending THEN 1 ELSE 0) BY <1>1 DEF Kept
    <3>2. Cardinality(Users(c)) \in Nat /\ Users(c)' = Users(c) BY <1>1, FiniteUsers DEF Users
    <3> QED BY <3>1, <3>2, <1>14, <1>15
  <2>2. ASSUME NEW c \in Blocks
        PROVE  /\ buf'[c] = NotCached => refcnt'[c] = 0
               /\ IF c \in Pending' THEN buf'[c] \in Values
                                    ELSE buf'[c] \in Values => buf'[c] = home'[c]
    <3>1. buf'[c] = IF c = b THEN v ELSE buf[c] BY <1>2 DEF TypeOK
    <3>2. /\ buf[c] = NotCached => refcnt[c] = 0
          /\ IF c \in Pending THEN buf[c] \in Values ELSE buf[c] \in Values => buf[c] = home[c]
      BY <1>1 DEF Kept
    <3> QED BY <3>1, <3>2, <1>1, <1>14, <1>15
  <2> QED BY <2>1, <2>2 DEF Kept
<1> QED BY <1>8, <1>9, <1>11, <1>12, <1>16

-----
\* commit()
\* The committer is alone in its phase, and no operation runs.
LEMMA OneCommits ==
  ASSUME IInv, Live, NEW p \in Procs, pc[p] \in {"writeLog", "install"}
  PROVE  /\ committing /\ ops = {} /\ p \notin ops
         /\ \A q \in Procs : q # p => pc[q] \notin Phases
         /\ Writing <=> pc[p] = "writeLog"
         /\ Installing <=> pc[p] = "install"
         /\ head = IF pc[p] = "install" THEN lh ELSE <<>>
<1>1. pc[p] \in Phases BY DEF Phases
<1>2. committing /\ ops = {} /\ \A q \in Procs : q # p => pc[q] \notin Phases
  BY <1>1 DEF IInv, Commits
<1>3. (Writing <=> pc[p] = "writeLog") /\ (Installing <=> pc[p] = "install")
  BY <1>2 DEF Writing, Installing, Phases
<1> QED BY <1>2, <1>3 DEF IInv, Headed

\* A pending block's buffer is valid.
LEMMA PendingValid ==
  ASSUME IInv, Live, NEW k \in 1 .. Len(lh), Installing => k > tail
  PROVE  lh[k] \in Blocks /\ lh[k] \in Pending /\ buf[lh[k]] \in Values
<1>1. lh[k] \in Blocks BY DEF IInv, TypeOK
<1>2. lh[k] \in Pending BY <1>1, PendingAt DEF IInv, PendingIs
<1> QED BY <1>1, <1>2 DEF IInv, Kept

\* A bread() of a block of the log may evict a buffer.
LEMMA Recycles ==
  ASSUME IInv, Live, buf' \in Recycled(buf)
  PROVE  /\ buf' \in [Blocks -> Values \cup {NotCached, Invalid}]
         /\ \A c \in Blocks : buf'[c] = buf[c] \/ (buf'[c] = NotCached /\ refcnt[c] = 0)
         /\ KeepsPinned
<1>1. /\ buf' \in [Blocks -> Values \cup {NotCached, Invalid}]
      /\ \A c \in Blocks : buf'[c] = buf[c] \/ (buf'[c] = NotCached /\ refcnt[c] = 0)
  BY Recycling DEF IInv, TypeOK
<1>2. Evicts BY <1>1, Sizes DEF Evicts
<1> QED BY <1>1, <1>2, EvictsUnpinned

LEMMA RecyclesKept ==
  ASSUME IInv, Live, buf' \in Recycled(buf), UNCHANGED <<home, refcnt, blk>>,
         \A c \in Blocks : c \in Pending' <=> c \in Pending
  PROVE  Kept'
<1>1. \A c \in Blocks : Users(c)' = Users(c) BY DEF Users
<1> QED BY <1>1, Recycles, Sizes DEF IInv, Kept, KeepsPinned

LEMMA KeepsWriteLog ==
  ASSUME IInv, NEW p \in Procs, WriteLog(p)
  PROVE  IInv'
<1> USE Sizes DEF IInv
<1>1. /\ UNCHANGED <<home, head, lh, outstanding, committing, refcnt, lock, mode>>
      /\ UNCHANGED <<pc, blk, ops, logged, calls, crashes>> /\ Live /\ Live'
      /\ pc[p] = "writeLog" /\ buf' \in Recycled(buf) /\ tail' = tail + 1 /\ tail < Len(lh)
  BY DEF WriteLog, Committer, NextIsFree, logst, procs, bounds, Running, Live
<1>2. /\ tail \in Nat /\ Len(lh) \in Nat /\ tail + 1 \in 1 .. Len(lh) /\ tail + 1 \in 1 .. LOGSIZE
      /\ \A i \in 1 .. Len(lh) : lh[i] \in Blocks /\ i \in 1 .. LOGSIZE
  BY <1>1 DEF TypeOK
<1>3. /\ Writing /\ Writing' /\ ~ Installing /\ ~ Installing'
  BY <1>1, OneCommits DEF Writing, Installing
<1>4. logData' = [logData EXCEPT ![tail + 1] = buf[lh[tail + 1]]] BY DEF WriteLog, NextLogged
<1>5. \A i \in 1 .. Len(lh) : lh[i] \in Pending /\ buf[lh[i]] \in Values
  BY <1>1, <1>3, PendingValid
<1>6. /\ buf' \in [Blocks -> Values \cup {NotCached, Invalid}]
      /\ \A i \in 1 .. Len(lh) : buf'[lh[i]] = buf[lh[i]]
  BY <1>1, <1>2, <1>5, Recycles DEF KeepsPinned
<1>7. TypeOK'
  <2>1. logData' \in [1 .. LOGSIZE -> Values] /\ tail' \in 0 .. Len(lh')
    BY <1>1, <1>2, <1>4, <1>5 DEF TypeOK
  <2> QED BY <1>1, <1>6, <2>1 DEF TypeOK
<1>8. Where' /\ Starting' /\ Logs' /\ Commits'
  BY <1>1 DEF Where, Starting, Logs, Once, Commits, Phases
<1>9. Headed' BY <1>1, <1>3 DEF Headed
<1>10. Copied'
  <2>1. \A i \in 1 .. tail : logData[i] = buf[lh[i]] BY <1>3 DEF Copied
  <2>2. ASSUME NEW i \in 1 .. tail + 1 PROVE logData'[i] = buf'[lh[i]]
    <3>1. i \in 1 .. Len(lh) /\ i \in 1 .. LOGSIZE BY <1>2
    <3>2. logData'[i] = IF i = tail + 1 THEN buf[lh[i]] ELSE logData[i] BY <3>1, <1>4 DEF TypeOK
    <3>3. i # tail + 1 => i \in 1 .. tail BY <1>2
    <3> QED BY <2>1, <3>1, <3>2, <3>3, <1>6
  <2> QED BY <1>1, <1>3, <2>2 DEF Copied
<1>11. Kept'
  <2>1. Pending' = Pending BY <1>1, <1>3 DEF Pending, Installing
  <2> QED BY <1>1, <2>1, RecyclesKept
<1> QED BY <1>7, <1>8, <1>9, <1>10, <1>11

LEMMA KeepsWriteHead ==
  ASSUME IInv, NEW p \in Procs, WriteHead(p)
  PROVE  IInv'
<1> USE Sizes DEF IInv
<1>1. /\ UNCHANGED <<home, logData, lh, outstanding, committing, refcnt, lock, mode>>
      /\ UNCHANGED <<blk, ops, logged, calls, crashes>> /\ Live /\ Live'
      /\ pc[p] = "writeLog" /\ pc' = [pc EXCEPT ![p] = "install"]
      /\ buf' \in Recycled(buf) /\ tail = Len(lh) /\ tail' = 0 /\ head' = lh
  BY DEF WriteHead, Committer, Goto, logst, bounds, Running, Live
<1>2. Len(lh) \in Nat /\ \A i \in 1 .. Len(lh) : lh[i] \in Blocks BY DEF TypeOK
<1>3. /\ pc' \in [Procs -> {"idle", "begin", "asleep", "op", "want", "hold",
                            "writeLog", "install", "done"}]
      /\ pc'[p] = "install" /\ \A q \in Procs : q # p => pc'[q] = pc[q]
  BY <1>1 DEF TypeOK
<1>4. /\ committing /\ p \notin ops /\ \A q \in Procs : q # p => pc[q] \notin Phases
      /\ Writing /\ ~ Installing
  BY <1>1, OneCommits
<1>5. ~ Writing' /\ Installing' BY <1>3, <1>4 DEF Writing, Installing, Phases
<1>6. \A i \in 1 .. Len(lh) : lh[i] \in Pending BY <1>1, <1>4, PendingValid
<1>7. /\ buf' \in [Blocks -> Values \cup {NotCached, Invalid}]
      /\ \A i \in 1 .. Len(lh) : buf'[lh[i]] = buf[lh[i]]
  BY <1>1, <1>2, <1>6, Recycles DEF KeepsPinned
<1>8. TypeOK' BY <1>1, <1>2, <1>3, <1>7 DEF TypeOK
<1>9. Where' /\ Starting' /\ Logs' BY <1>1, <1>3, <1>4 DEF Where, Starting, Logs, Once, TypeOK
<1>10. Commits' BY <1>1, <1>3, <1>4 DEF Commits, Phases
<1>11. Headed' BY <1>1, <1>5 DEF Headed
<1>12. Copied'
  <2>1. \A i \in 1 .. Len(lh) : logData[i] = buf[lh[i]] BY <1>1, <1>4 DEF Copied
  <2> QED BY <1>1, <1>2, <1>5, <1>7, <2>1 DEF Copied
<1>13. Kept'
  <2>1. TypeOK' => PendingIs' BY PendingAt, PTL
  <2>2. \A c \in Blocks : c \in Pending' <=> c \in Pending
    BY <1>1, <1>2, <1>4, <1>5, <1>8, <2>1, PendingAt DEF PendingIs
  <2> QED BY <1>1, <2>2, RecyclesKept
<1> QED BY <1>8, <1>9, <1>10, <1>11, <1>12, <1>13

LEMMA KeepsClearHead ==
  ASSUME IInv, NEW p \in Procs, ClearHead(p)
  PROVE  IInv'
<1> USE Sizes DEF IInv
<1>1. /\ UNCHANGED <<home, logData, outstanding, committing, refcnt, lock, mode>>
      /\ UNCHANGED <<blk, ops, logged, calls, crashes>> /\ Live /\ Live'
      /\ pc[p] = "install" /\ pc' = [pc EXCEPT ![p] = "done"]
      /\ buf' \in Recycled(buf) /\ tail = Len(lh) /\ tail' = 0 /\ head' = <<>> /\ lh' = <<>>
  BY DEF ClearHead, Committer, Goto, bounds, Running, Live
<1>2. /\ pc' \in [Procs -> {"idle", "begin", "asleep", "op", "want", "hold",
                            "writeLog", "install", "done"}]
      /\ pc'[p] = "done" /\ \A q \in Procs : q # p => pc'[q] = pc[q]
  BY <1>1 DEF TypeOK
<1>3. /\ committing /\ p \notin ops /\ \A q \in Procs : q # p => pc[q] \notin Phases
      /\ Installing
  BY <1>1, OneCommits
<1>4. ~ Writing' /\ ~ Installing' BY <1>2, <1>3 DEF Writing, Installing, Phases
<1>5. TypeOK' BY <1>1, <1>2, Recycles DEF TypeOK
<1>6. Where' /\ Starting' /\ Logs' /\ Headed' /\ Copied'
  BY <1>1, <1>2, <1>3, <1>4 DEF Where, Starting, Logs, Once, Headed, Copied
<1>7. Commits' BY <1>1, <1>2, <1>3 DEF Commits, Phases
<1>8. Kept'
  <2>1. TypeOK' => PendingIs' BY PendingAt, PTL
  <2>2. \A c \in Blocks : c \notin Pending /\ c \notin Pending'
    BY <1>1, <1>3, <1>4, <1>5, <2>1, PendingAt DEF PendingIs, TypeOK
  <2> QED BY <1>1, <2>2, RecyclesKept
<1> QED BY <1>5, <1>6, <1>7, <1>8

LEMMA KeepsInstall ==
  ASSUME IInv, NEW p \in Procs, Install(p)
  PROVE  IInv' /\ buf' \in Recycled(buf)
<1> USE Sizes DEF IInv
<1>1. /\ UNCHANGED <<logData, head, lh, outstanding, committing, lock, mode>>
      /\ UNCHANGED <<pc, blk, ops, logged, calls, crashes>> /\ Live /\ Live'
      /\ pc[p] = "install" /\ tail' = tail + 1 /\ tail < Len(lh)
  BY DEF Install, Committer, NextIsFree, logst, procs, bounds, Running, Live
<1>2. /\ tail \in Nat /\ Len(lh) \in Nat /\ tail + 1 \in 1 .. Len(lh) /\ DOMAIN lh = 1 .. Len(lh)
      /\ \A i \in 1 .. Len(lh) : lh[i] \in Blocks /\ logData[i] \in Values
  BY <1>1 DEF TypeOK
<1>b. PICK b \in Blocks : b = lh[tail + 1] BY <1>2
<1>3. ~ Writing /\ ~ Writing' /\ Installing /\ Installing'
  BY <1>1, OneCommits DEF Writing, Installing
<1>4. /\ home' = [home EXCEPT ![b] = logData[tail + 1]]
      /\ refcnt' = [refcnt EXCEPT ![b] = refcnt[b] - 1]
      /\ buf' \in Recycled([buf EXCEPT ![b] = logData[tail + 1]])
  BY <1>b DEF Install, NextLogged
<1>5. /\ b \in Pending /\ buf[b] \in Values /\ buf[b] = logData[tail + 1]
  BY <1>1, <1>2, <1>b, <1>3, PendingValid DEF Copied
<1>6. buf' \in Recycled(buf)
  <2>1. [buf EXCEPT ![b] = logData[tail + 1]] = buf BY <1>5 DEF TypeOK
  <2> QED BY <1>4, <2>1
<1>7. /\ buf' \in [Blocks -> Values \cup {NotCached, Invalid}]
      /\ \A c \in Blocks : buf'[c] = buf[c] \/ (buf'[c] = NotCached /\ refcnt[c] = 0)
      /\ \A c \in Blocks : c \in Pending => buf'[c] = buf[c]
  BY <1>1, <1>6, Recycles DEF KeepsPinned
<1>8. refcnt[b] > 0 /\ refcnt \in [Blocks -> Nat] /\ refcnt' \in [Blocks -> Nat]
  <2>1. refcnt[b] > 0 BY <1>1, <1>5, FiniteUsers DEF Kept
  <2> QED BY <1>4, <2>1 DEF TypeOK
<1>9. TypeOK'
  <2>1. home' \in [Blocks -> Values] /\ tail' \in 0 .. Len(lh') BY <1>1, <1>2, <1>4 DEF TypeOK
  <2> QED BY <1>1, <1>7, <1>8, <2>1 DEF TypeOK
<1>10. Where' /\ Starting' /\ Logs' /\ Commits'
  BY <1>1 DEF Where, Starting, Logs, Once, Commits, Phases
<1>11. Headed' BY <1>1, <1>3 DEF Headed
<1>12. \A i \in 1 .. Len(lh) : lh[i] = b <=> i = tail + 1 BY <1>2, <1>b DEF Logs, Once
<1>13. \A c \in Blocks : home'[c] = IF c = b THEN logData[tail + 1] ELSE home[c]
  BY <1>4 DEF TypeOK
<1>14. PendingIs /\ PendingIs'
  <2>1. TypeOK' => PendingIs' BY PendingAt, PTL
  <2> QED BY <1>9, <2>1, PendingAt
<1>15. \A c \in Blocks : c \in Pending' <=> c \in Pending /\ c # b
  BY <1>1, <1>2, <1>3, <1>12, <1>14 DEF PendingIs
<1>16. Copied'
  <2>1. ASSUME NEW i \in 1 .. Len(lh)
        PROVE  IF i <= tail + 1 THEN home'[lh[i]] = logData[i] ELSE buf'[lh[i]] = logData[i]
    <3>1. IF i <= tail THEN home[lh[i]] = logData[i] ELSE buf[lh[i]] = logData[i]
      BY <1>3 DEF Copied
    <3>2. CASE i <= tail BY <3>1, <3>2, <1>2, <1>12, <1>13
    <3>3. CASE i = tail + 1 BY <3>3, <1>2, <1>12, <1>13
    <3>4. CASE i > tail + 1
      <4>1. lh[i] \in Pending BY <3>4, <1>1, <1>2, PendingValid
      <4> QED BY <3>1, <3>4, <4>1, <1>2, <1>7
    <3> QED BY <3>2, <3>3, <3>4, <1>2
  <2> QED BY <1>1, <1>3, <2>1 DEF Copied
<1>17. Kept'
  <2>1. ASSUME NEW c \in Blocks
        PROVE  refcnt'[c] = Cardinality(Users(c)') + (IF c \in Pending' THEN 1 ELSE 0)
    <3>1. refcnt[c] = Cardinality(Users(c)) + (IF c \in Pending THEN 1 ELSE 0) BY <1>1 DEF Kept
    <3>2. Cardinality(Users(c)) \in Nat /\ Users(c)' = Users(c) BY <1>1, FiniteUsers DEF Users
    <3>3. refcnt'[c] = IF c = b THEN refcnt[c] - 1 ELSE refcnt[c] BY <1>4, <1>8
    <3> QED BY <3>1, <3>2, <3>3, <1>5, <1>15
  <2>2. ASSUME NEW c \in Blocks PROVE buf'[c] = NotCached => refcnt'[c] = 0
    <3>1. c # b => (buf[c] = NotCached => refcnt[c] = 0) /\ refcnt'[c] = refcnt[c]
      BY <1>1, <1>4, <1>8 DEF Kept
    <3>2. c = b => buf'[c] # NotCached BY <1>5, <1>7
    <3> QED BY <3>1, <3>2, <1>7
  <2>3. ASSUME NEW c \in Blocks
        PROVE  IF c \in Pending' THEN buf'[c] \in Values
                                 ELSE buf'[c] \in Values => buf'[c] = home'[c]
    <3>1. IF c \in Pending THEN buf[c] \in Values ELSE buf[c] \in Values => buf[c] = home[c]
      BY <1>1 DEF Kept
    <3> QED BY <3>1, <1>5, <1>7, <1>13, <1>15
  <2> QED BY <2>1, <2>2, <2>3 DEF Kept
<1> QED BY <1>6, <1>9, <1>10, <1>11, <1>16, <1>17

-----
\* The theorems.
LEMMA NextIInv == IInv /\ [Next]_vars => IInv'
<1> SUFFICES ASSUME IInv, [Next]_vars PROVE IInv'
  OBVIOUS
<1>1. CASE Boot BY <1>1, KeepsReadHead, KeepsRecoverBlock, KeepsClearLog DEF Boot
<1>2. CASE Crash BY <1>2, KeepsCrash
<1>3. ASSUME NEW p \in Procs, Process(p) PROVE IInv'
  <2>1. CASE BeginOp(p) BY <2>1, KeepsBeginOp
  <2>2. ASSUME NEW b \in Blocks, Bget(p, b) PROVE IInv' BY <2>2, KeepsBget
  <2>3. ASSUME NEW v \in Values, LogWrite(p, v) PROVE IInv' BY <2>3, KeepsLogWrite
  <2>4. CASE LogWritePanic(p) BY <2>4, KeepsLogWritePanic
  <2>5. CASE Finish(p)
    BY <2>5, KeepsBeginOp, KeepsLock, KeepsBrelse, KeepsEndOp, KeepsWriteLog, KeepsWriteHead,
      KeepsInstall, KeepsClearHead, KeepsCommitted DEF Finish
  <2> QED BY <1>3, <2>1, <2>2, <2>3, <2>4, <2>5 DEF Process
<1>4. CASE UNCHANGED vars
  <2>1. /\ UNCHANGED <<home, logData, head, lh, outstanding, committing, buf, refcnt, lock>>
        /\ UNCHANGED <<mode, tail, pc, blk, ops, logged, calls, crashes>>
    BY <1>4 DEF vars, disk, logst, cache, procs, bounds
  <2>2. TypeOK' /\ Where' /\ Starting' /\ Logs' /\ Commits'
    BY <2>1 DEF IInv, TypeOK, Where, Starting, Logs, Once, Commits, Phases, Live
  <2>3. Headed' /\ Copied' BY <2>1 DEF IInv, Headed, Copied, Live, Writing, Installing
  <2>4. Pending' = Pending /\ \A b \in Blocks : Users(b)' = Users(b) BY <2>1 DEF Pending, Users
  <2>5. Kept' BY <2>1, <2>4 DEF IInv, Kept, Live
  <2> QED BY <2>2, <2>3, <2>5 DEF IInv
<1> QED BY <1>1, <1>2, <1>3, <1>4 DEF Next

LEMMA Invariance == Spec => []IInv
BY InitIInv, NextIInv, PTL DEF Spec

\* The state of the log and of the buffer cache stays within its types: the log
\* header never holds more than LOGSIZE blocks, whatever the operations do.
THEOREM TypeCorrect == Spec => []TypeOK
<1>1. IInv => TypeOK BY DEF IInv
<1> QED BY <1>1, Invariance, PTL

\* bpin() and bunpin() keep what log_write() needs: every block of the log that
\* is not installed yet is pinned in a valid buffer, so that no bget() recycles
\* the only copy, and every other valid buffer equals the disk.
THEOREM PinnedAlways == Spec => []Pinned
<1>1. IInv => Pinned
  <2> SUFFICES ASSUME IInv, mode = "up"
               PROVE  /\ Once(lh)
                      /\ \A b \in Blocks :
                           /\ refcnt[b] = Cardinality(Users(b)) + (IF b \in Pending THEN 1 ELSE 0)
                           /\ IF b \in Pending THEN buf[b] \in Values
                                               ELSE buf[b] \in Values => buf[b] = home[b]
    BY DEF Pinned, Once, Users
  <2> QED BY DEF IInv, Logs, Kept, Live
<1> QED BY <1>1, Invariance, PTL

-----
\* The room in the log.
\* What an operation has logged is in the log, and no more than it may log; what
\* the operations may still log fits.
Claims ==
  Live => \A p \in ops : /\ IsFiniteSet(logged[p]) /\ Cardinality(logged[p]) <= MAXOPBLOCKS
                         /\ \A b \in logged[p] : \E k \in 1 .. Len(lh) : lh[k] = b
Fits == Live => Len(lh) + Cardinality(Unused) <= LOGSIZE
RInv == IInv /\ Claims /\ Fits

LEMMA UnusedFinite ==
  ASSUME ops \subseteq Procs
  PROVE  /\ IsFiniteSet(Unused) /\ Cardinality(Unused) \in Nat
         /\ Cardinality(Unused) <= Cardinality(ops) * MAXOPBLOCKS
<1>1. IsFiniteSet(ops) /\ Cardinality(ops) \in Nat BY FiniteOps
<1>2. /\ MAXOPBLOCKS \in Nat /\ IsFiniteSet(1 .. MAXOPBLOCKS)
      /\ Cardinality(1 .. MAXOPBLOCKS) = MAXOPBLOCKS
  BY LogAssumption, FS_Interval
<1>3. /\ IsFiniteSet(ops \X (1 .. MAXOPBLOCKS))
      /\ Cardinality(ops \X (1 .. MAXOPBLOCKS)) = Cardinality(ops) * MAXOPBLOCKS
  BY <1>1, <1>2, FS_Product
<1>4. Unused \in SUBSET (ops \X (1 .. MAXOPBLOCKS)) BY DEF Unused
<1>5. IsFiniteSet(Unused) /\ Cardinality(Unused) <= Cardinality(ops \X (1 .. MAXOPBLOCKS))
  BY <1>3, <1>4, FS_Subset
<1> QED BY <1>3, <1>5, FS_CardinalityType

UnusedBounded ==
  ops \subseteq Procs =>
    /\ IsFiniteSet(Unused) /\ Cardinality(Unused) \in Nat
    /\ Cardinality(Unused) <= Cardinality(ops) * MAXOPBLOCKS

LEMMA UnusedNow == UnusedBounded
BY UnusedFinite DEF UnusedBounded

LEMMA UnusedNext == UnusedBounded'
BY UnusedNow, PTL

\* Without operations nothing is reserved.
LEMMA NothingReserved ==
  ASSUME IInv', ops' = {}, lh' = <<>> \/ lh' = lh, Len(lh) <= LOGSIZE
  PROVE  Claims' /\ Fits'
<1>1. Unused' = {} BY DEF Unused
<1>2. Cardinality(Unused') = 0 BY <1>1, FS_EmptySet
<1>3. Len(lh') <= LOGSIZE /\ Len(lh') \in Nat BY Sizes DEF IInv, TypeOK
<1>4. Fits' BY <1>2, <1>3, Sizes DEF Fits
<1> QED BY <1>4 DEF Claims

\* Nor does a step change what is reserved that leaves operations and log alone.
LEMMA SameReserved ==
  ASSUME RInv, Live, UNCHANGED <<lh, ops, logged>>
  PROVE  Claims' /\ Fits'
<1>1. Unused' = Unused BY DEF Unused
<1> QED BY <1>1 DEF RInv, Claims, Fits

LEMMA BeginReserves ==
  ASSUME RInv, IInv', NEW p \in Procs, BeginOp(p)
  PROVE  Claims' /\ Fits'
<1>1. Live /\ lh' = lh BY DEF BeginOp, Running, Live
<1>2. CASE UNCHANGED <<ops, logged>> BY <1>1, <1>2, SameReserved
<1>3. CASE /\ ~ MightExhaust /\ ops' = ops \cup {p} /\ outstanding' = outstanding + 1
           /\ logged' = [logged EXCEPT ![p] = {}]
  <2>1. /\ Cardinality(Unused') \in Nat
        /\ Cardinality(Unused') <= Cardinality(ops') * MAXOPBLOCKS
    BY UnusedNext DEF UnusedBounded, IInv, TypeOK
  <2>2. Cardinality(ops') = outstanding + 1 BY <1>3 DEF IInv, Commits
  <2>3. Len(lh) + (outstanding + 1) * MAXOPBLOCKS <= LOGSIZE
    <3>1. Len(lh) \in Nat /\ outstanding \in Nat /\ LOGSIZE \in Nat /\ MAXOPBLOCKS \in Nat
      BY LogAssumption DEF RInv, IInv, TypeOK
    <3>2. (outstanding + 1) * MAXOPBLOCKS \in Nat BY <3>1
    <3> DEFINE need == (outstanding + 1) * MAXOPBLOCKS
    <3>3. ~ (Len(lh) + need > LOGSIZE) /\ need \in Nat BY <1>3, <3>2 DEF MightExhaust
    <3> HIDE DEF need
    <3>4. Len(lh) + need <= LOGSIZE BY <3>1, <3>3
    <3> QED BY <3>4 DEF need
  <2>4. Fits'
    <3> DEFINE need == (outstanding + 1) * MAXOPBLOCKS
    <3>1. Cardinality(Unused') <= need /\ Len(lh) + need <= LOGSIZE BY <2>1, <2>2, <2>3
    <3>2. need \in Int /\ Len(lh) \in Nat BY LogAssumption DEF RInv, IInv, TypeOK
    <3> HIDE DEF need
    <3>3. Len(lh') + Cardinality(Unused') <= LOGSIZE BY <1>1, <2>1, <3>1, <3>2, Sizes
    <3> QED BY <3>3 DEF Fits
  <2>5. Claims'
    <3>1. logged'[p] = {} /\ \A q \in ops : q # p => logged'[q] = logged[q]
      BY <1>3 DEF RInv, IInv, TypeOK
    <3>2. IsFiniteSet({}) /\ Cardinality({}) = 0 /\ MAXOPBLOCKS \in Nat
      BY FS_EmptySet, LogAssumption
    <3>3. ASSUME NEW q \in ops'
          PROVE  /\ IsFiniteSet(logged'[q]) /\ Cardinality(logged'[q]) <= MAXOPBLOCKS
                 /\ \A b \in logged'[q] : \E k \in 1 .. Len(lh') : lh'[k] = b
      <4>1. CASE q = p BY <4>1, <3>1, <3>2
      <4>2. CASE q # p
        <5>1. q \in ops /\ logged'[q] = logged[q] BY <4>2, <1>3, <3>1
        <5> QED BY <5>1, <1>1 DEF RInv, Claims
      <4> QED BY <4>1, <4>2
    <3> QED BY <3>3 DEF Claims
  <2> QED BY <2>4, <2>5
<1> QED BY <1>2, <1>3 DEF BeginOp

\* An operation that logs a block gives up one of its places, unless it has logged
\* the block before; then log_write() absorbs the write.
LEMMA LogWriteReserves ==
  ASSUME RInv, IInv', NEW p \in Procs, NEW v \in Values, LogWrite(p, v)
  PROVE  Claims' /\ Fits'
<1>1. /\ UNCHANGED <<ops, blk>> /\ Live /\ p \in ops /\ blk[p] \in Blocks
      /\ Cardinality(logged[p] \cup {blk[p]}) <= MAXOPBLOCKS
  BY DEF LogWrite, Modifies, Running, Live, RInv, IInv, Where
<1>2. PICK b \in Blocks : b = blk[p] BY <1>1
<1>3. /\ logged' = [logged EXCEPT ![p] = logged[p] \cup {b}]
      /\ logged'[p] = logged[p] \cup {b}
      /\ \A q \in ops : q # p => logged'[q] = logged[q]
  BY <1>2 DEF LogWrite, RInv, IInv, TypeOK
<1>4. lh \in Seq(Blocks) /\ Len(lh) \in Nat /\ DOMAIN lh = 1 .. Len(lh)
  BY DEF RInv, IInv, TypeOK
<1>5. \/ lh' = lh /\ \E k \in 1 .. Len(lh) : lh[k] = b
      \/ lh' = Append(lh, b) /\ \A k \in 1 .. Len(lh) : lh[k] # b
  BY <1>2, <1>4 DEF LogWrite, ToSet
<1>6. /\ \A k \in 1 .. Len(lh) : k \in 1 .. Len(lh') /\ lh'[k] = lh[k]
      /\ \E k \in 1 .. Len(lh') : lh'[k] = b
      /\ Len(lh') \in Nat /\ Len(lh') <= Len(lh) + 1
  <2>1. CASE lh' = lh /\ \E k \in 1 .. Len(lh) : lh[k] = b BY <2>1, <1>4
  <2>2. CASE lh' = Append(lh, b)
    <3>1. /\ Len(lh') = Len(lh) + 1 /\ lh'[Len(lh) + 1] = b
          /\ \A k \in 1 .. Len(lh) : lh'[k] = lh[k]
      BY <2>2, <1>4
    <3> QED BY <3>1, <1>4
  <2> QED BY <1>5, <2>1, <2>2
<1>7. /\ IsFiniteSet(logged[p]) /\ Cardinality(logged[p]) \in Nat /\ MAXOPBLOCKS \in Nat
      /\ IsFiniteSet(logged'[p])
      /\ Cardinality(logged'[p]) = IF b \in logged[p] THEN Cardinality(logged[p])
                                                      ELSE Cardinality(logged[p]) + 1
  BY <1>1, <1>3, FS_AddElement, FS_CardinalityType, LogAssumption DEF RInv, Claims
<1>8. Cardinality(logged'[p]) <= MAXOPBLOCKS BY <1>1, <1>2, <1>3
<1>9. Claims'
  <2>1. ASSUME NEW q \in ops
        PROVE  /\ IsFiniteSet(logged'[q]) /\ Cardinality(logged'[q]) <= MAXOPBLOCKS
               /\ \A c \in logged'[q] : \E k \in 1 .. Len(lh') : lh'[k] = c
    <3>1. /\ IsFiniteSet(logged[q]) /\ Cardinality(logged[q]) <= MAXOPBLOCKS
          /\ \A c \in logged[q] : \E k \in 1 .. Len(lh) : lh[k] = c
      BY <1>1 DEF RInv, Claims
    <3>2. \A c \in logged[q] : \E k \in 1 .. Len(lh') : lh'[k] = c BY <3>1, <1>6
    <3>3. CASE q # p BY <3>1, <3>2, <3>3, <1>3
    <3>4. CASE q = p BY <3>2, <3>4, <1>3, <1>6, <1>7, <1>8
    <3> QED BY <3>3, <3>4
  <2> QED BY <2>1, <1>1 DEF Claims
<1>10. IsFiniteSet(Unused) /\ Cardinality(Unused) \in Nat
  BY UnusedNow DEF UnusedBounded, RInv, IInv, TypeOK
<1>11. Len(lh) + Cardinality(Unused) <= LOGSIZE BY <1>1 DEF RInv, Fits
<1>12. CASE b \in logged[p]
  <2>1. lh' = lh BY <1>1, <1>5, <1>12 DEF RInv, Claims
  <2>2. \A q \in ops : logged'[q] = logged[q] BY <1>3, <1>12
  <2>3. Unused' = Unused BY <1>1, <2>2 DEF Unused
  <2> QED BY <1>9, <1>11, <2>1, <2>3 DEF Fits
<1>13. CASE b \notin logged[p]
  <2> DEFINE place == <<p, Cardinality(logged[p]) + 1>>
  <2>1. Cardinality(logged[p]) + 1 \in 1 .. MAXOPBLOCKS BY <1>7, <1>8, <1>13
  <2>2. place \in Unused BY <1>1, <1>7, <2>1 DEF Unused
  <2>3. Unused' = Unused \ {place}
    <3>1. ASSUME NEW q \in ops, NEW k \in 1 .. MAXOPBLOCKS
          PROVE  k > Cardinality(logged'[q])
                   <=> k > Cardinality(logged[q]) /\ <<q, k>> # place
      <4>1. CASE q # p BY <4>1, <1>3
      <4>2. CASE q = p BY <4>2, <1>7, <1>13
      <4> QED BY <4>1, <4>2
    <3>2. Unused' = {s \in ops \X (1 .. MAXOPBLOCKS) : s[2] > Cardinality(logged'[s[1]])}
      BY <1>1 DEF Unused
    <3> HIDE DEF place
    <3> QED BY <3>1, <3>2 DEF Unused
  <2>4. Cardinality(Unused') = Cardinality(Unused) - 1 BY <1>10, <2>2, <2>3, FS_RemoveElement
  <2>5. Len(lh') + Cardinality(Unused') <= LOGSIZE BY <1>4, <1>6, <1>10, <1>11, <2>4, Sizes
  <2> QED BY <1>9, <2>5 DEF Fits
<1> QED BY <1>12, <1>13

LEMMA EndReserves ==
  ASSUME RInv, IInv', NEW p \in Procs, EndOp(p)
  PROVE  Claims' /\ Fits'
<1>1. UNCHANGED <<lh, logged>> /\ ops' = ops \ {p} /\ Live BY DEF EndOp, Running, Live
<1>2. Unused' \in SUBSET Unused BY <1>1 DEF Unused
<1>3. Cardinality(Unused') <= Cardinality(Unused)
  BY <1>2, UnusedNow, FS_Subset DEF UnusedBounded, RInv, IInv, TypeOK
<1>4. Cardinality(Unused') \in Nat /\ Cardinality(Unused) \in Nat /\ Len(lh) \in Nat
  BY UnusedNow, UnusedNext DEF UnusedBounded, RInv, IInv, TypeOK
<1>5. Len(lh) + Cardinality(Unused) <= LOGSIZE BY <1>1 DEF RInv, Fits
<1>6. Len(lh') + Cardinality(Unused') <= LOGSIZE BY <1>1, <1>3, <1>4, <1>5, Sizes
<1>7. Claims' BY <1>1 DEF RInv, Claims
<1> QED BY <1>6, <1>7 DEF Fits

LEMMA NextRInv == RInv /\ [Next]_vars => RInv'
<1> SUFFICES ASSUME RInv, [Next]_vars PROVE RInv'
  OBVIOUS
<1>1. IInv /\ IInv' /\ Len(lh) <= LOGSIZE BY NextIInv DEF RInv, IInv, TypeOK
<1> SUFFICES Claims' /\ Fits'
  BY <1>1 DEF RInv
<1>2. CASE Crash BY <1>1, <1>2, NothingReserved DEF Crash
<1>3. CASE ReadHead \/ RecoverBlock
  <2>1. ~ Live' BY <1>3 DEF ReadHead, RecoverBlock, Live
  <2> QED BY <2>1 DEF Claims, Fits
<1>4. CASE ClearLog
  <2>1. ops' = {} /\ lh' = <<>> BY <1>1, <1>4 DEF ClearLog, procs, Live, IInv, Starting
  <2> QED BY <1>1, <2>1, NothingReserved
<1>5. ASSUME NEW p \in Procs, Process(p) PROVE Claims' /\ Fits'
  <2>1. CASE BeginOp(p) BY <1>1, <2>1, BeginReserves
  <2>2. ASSUME NEW v \in Values, LogWrite(p, v) PROVE Claims' /\ Fits'
    BY <1>1, <2>2, LogWriteReserves
  <2>3. CASE EndOp(p) BY <1>1, <2>3, EndReserves
  <2>4. CASE ClearHead(p)
    <3>1. Live /\ pc[p] = "install" /\ lh' = <<>> /\ ops' = ops
      BY <2>4 DEF ClearHead, Committer, Running, Live
    <3>2. ops = {} BY <1>1, <3>1, OneCommits
    <3> QED BY <1>1, <3>1, <3>2, NothingReserved
  <2>5. CASE \/ \E b \in Blocks : Bget(p, b)
             \/ LogWritePanic(p) \/ Lock(p) \/ Brelse(p)
    <3>1. Live /\ UNCHANGED <<lh, ops, logged>>
      BY <2>5 DEF Bget, LogWritePanic, Modifies, Lock, Brelse, Running, Live, logst, procs
    <3> QED BY <3>1, SameReserved
  <2>6. CASE WriteLog(p) \/ WriteHead(p) \/ Install(p) \/ Committed(p)
    <3>1. Live /\ UNCHANGED <<lh, ops, logged>>
      BY <2>6 DEF WriteLog, WriteHead, Install, Committed, Committer, Running, Live, logst,
        procs
    <3> QED BY <3>1, SameReserved
  <2> QED BY <1>5, <2>1, <2>2, <2>3, <2>4, <2>5, <2>6 DEF Process, Finish
<1>6. CASE UNCHANGED vars
  <2>1. UNCHANGED <<lh, ops, logged, mode>> BY <1>6 DEF vars, logst, procs
  <2>2. Unused' = Unused BY <2>1 DEF Unused
  <2> QED BY <2>1, <2>2 DEF RInv, Claims, Fits, Live
<1> QED BY <1>2, <1>3, <1>4, <1>5, <1>6 DEF Next, Boot

\* begin_op() reserves enough: whatever operations begin, end and overlap, and
\* however often they log a block again, what they may still log fits in the log.
THEOREM ReservedAlways == Spec => []Reserved
<1>1. Init => RInv
  <2> SUFFICES ASSUME Init PROVE RInv
    OBVIOUS
  <2>1. ~ Live BY DEF Init, Live
  <2> QED BY <2>1, InitIInv DEF RInv, Claims, Fits
<1>2. RInv => Reserved BY DEF RInv, IInv, Commits, Fits, Live, Reserved
<1> QED BY <1>1, <1>2, NextRInv, PTL DEF Spec

-----
\* The refinement: what the disk holds for recovery, and what bread()
\* returns, step by step.
PerBlock ==
  Recovered = [b \in Blocks |-> Recovered[b]] /\ Seen = [b \in Blocks |-> Seen[b]]

LEMMA PerBlockNow == PerBlock
<1> DEFINE Rec(b) == IF b \in ToSet(head)
                     THEN logData[CHOOSE i \in DOMAIN head : head[i] = b]
                     ELSE home[b]
<1>1. Recovered = [b \in Blocks |-> Rec(b)] BY Zenon DEF Recovered
<1> HIDE DEF Rec
<1>2. Recovered = [b \in Blocks |-> Recovered[b]] BY <1>1
<1>3. Seen = [b \in Blocks |-> Seen[b]] BY <1>2 DEF Seen
<1> QED BY <1>2, <1>3 DEF PerBlock

LEMMA Contents == PerBlock /\ PerBlock'
BY PerBlockNow, PTL

\* While the machine runs, bread() returns the buffer of a pending block, and
\* what the disk holds of any other.
SeenIs ==
  Live => \A b \in Blocks :
            /\ Seen[b] = IF buf[b] \in Values THEN buf[b] ELSE home[b]
            /\ Seen[b] = IF b \in Pending THEN buf[b] ELSE home[b]

LEMMA SeenAt == IInv => SeenIs
<1> SUFFICES ASSUME IInv, Live, NEW b \in Blocks
             PROVE  /\ Seen[b] = IF buf[b] \in Values THEN buf[b] ELSE home[b]
                    /\ Seen[b] = IF b \in Pending THEN buf[b] ELSE home[b]
  BY DEF SeenIs
<1>1. Seen[b] = IF buf[b] \in Values THEN buf[b] ELSE home[b] BY DEF Seen, Live
<1> QED BY <1>1 DEF IInv, Kept

LEMMA SeenNext == IInv' => SeenIs'
BY SeenAt, PTL

LEMMA RecoveredNext == IInv => RecoveredIs
BY RecoveredAt DEF IInv, Logs, TypeOK

LEMMA RecoveredThen == IInv' => RecoveredIs'
BY RecoveredNext, PTL

\* Outside install_trans() recovery would leave the disk as it is.
NothingLogged == Live /\ ~ Installing => \A b \in Blocks : Recovered[b] = home[b]

LEMMA NothingToRecover == IInv => NothingLogged
<1> SUFFICES ASSUME IInv, Live, ~ Installing, NEW b \in Blocks
             PROVE  Recovered[b] = home[b]
  BY DEF NothingLogged
<1>1. head = <<>> BY DEF IInv, Headed
<1>2. RecoveredIs BY RecoveredNext
<1> QED BY <1>1, <1>2 DEF RecoveredIs

LEMMA NothingToRecoverNext == IInv' => NothingLogged'
BY NothingToRecover, PTL

\* The contents of a block stay while its buffer is kept, evicted or filled.
SameContents ==
  \A c \in Blocks :
    \/ buf'[c] = buf[c] /\ (home'[c] = home[c] \/ buf[c] \in Values)
    \/ home'[c] = home[c] /\ buf'[c] \notin Values /\ refcnt[c] = 0
    \/ home'[c] = home[c] /\ buf[c] \notin Values /\ buf'[c] = home[c]

LEMMA SeenStays ==
  ASSUME IInv, IInv', Live, Live', SameContents
  PROVE  Seen' = Seen
<1>1. ASSUME NEW c \in Blocks PROVE Seen'[c] = Seen[c]
  <2>1. Seen[c] = IF buf[c] \in Values THEN buf[c] ELSE home[c] BY SeenAt DEF SeenIs
  <2>2. Seen'[c] = IF buf'[c] \in Values THEN buf'[c] ELSE home'[c] BY SeenNext DEF SeenIs
  <2>3. refcnt[c] = 0 => (buf[c] \in Values => buf[c] = home[c]) BY FiniteUsers DEF IInv, Kept
  <2> QED BY <2>1, <2>2, <2>3 DEF SameContents
<1> QED BY <1>1, Contents DEF PerBlock

LEMMA RecoveredStays ==
  ASSUME UNCHANGED <<home, logData, head>>
  PROVE  Recovered' = Recovered
BY DEF Recovered

Stays == UNCHANGED <<Recovered, Seen, ops>>

LEMMA BootRefines ==
  ASSUME IInv, IInv', Boot
  PROVE  Stays
<1> USE DEF Stays
<1>1. CASE ReadHead BY <1>1, RecoveredStays DEF ReadHead, disk, procs, Seen
<1>2. CASE RecoverBlock
  <2>1. /\ UNCHANGED <<logData, head, lh, ops>> /\ mode = "recover" /\ mode' = "recover"
        /\ tail \in 0 .. Len(lh) - 1 /\ lh = head
    BY <1>2 DEF RecoverBlock, logst, procs, IInv, TypeOK, Starting, Live
  <2>2. home' = [home EXCEPT ![head[tail + 1]] = logData[tail + 1]] /\ tail + 1 \in 1 .. Len(head)
    BY <1>2, <2>1 DEF RecoverBlock, NextLogged, IInv, TypeOK
  <2>3. ASSUME NEW b \in Blocks PROVE Recovered'[b] = Recovered[b]
    <3>1. CASE \E i \in 1 .. Len(head) : head[i] = b
      BY <3>1, <2>1, RecoveredNext, RecoveredThen DEF RecoveredIs
    <3>2. CASE \A i \in 1 .. Len(head) : head[i] # b
      <4>1. home'[b] = home[b] BY <3>2, <2>2 DEF IInv, TypeOK
      <4> QED BY <3>2, <4>1, <2>1, RecoveredNext, RecoveredThen DEF RecoveredIs
    <3> QED BY <3>1, <3>2
  <2>4. Recovered' = Recovered BY <2>3, Contents DEF PerBlock
  <2> QED BY <2>1, <2>4 DEF Seen
<1>3. CASE ClearLog
  <2>1. /\ UNCHANGED <<home, logData, buf, ops>> /\ mode = "recover" /\ mode' = "up"
        /\ lh = head /\ tail = Len(head) /\ head' = <<>> /\ ~ Live /\ Live'
    BY <1>3 DEF ClearLog, cache, procs, IInv, Starting, Live
  <2>2. \A b \in Blocks : Recovered'[b] = home[b] BY <2>1, RecoveredThen DEF RecoveredIs
  <2>3. ASSUME NEW b \in Blocks PROVE Recovered[b] = home[b]
    <3>1. CASE \E i \in 1 .. Len(head) : head[i] = b
      <4>1. PICK i \in 1 .. Len(head) : head[i] = b BY <3>1
      <4>2. home[head[i]] = logData[i] BY <2>1 DEF IInv, Starting
      <4> QED BY <4>1, <4>2, RecoveredNext DEF RecoveredIs
    <3>2. CASE \A i \in 1 .. Len(head) : head[i] # b BY <3>2, RecoveredNext DEF RecoveredIs
    <3> QED BY <3>1, <3>2
  <2>4. \A b \in Blocks : Seen'[b] = home[b]
    <3>1. \A b \in Blocks : buf[b] \in Values => buf[b] = home[b] BY <2>1 DEF IInv, Starting
    <3> QED BY <3>1, <2>1, SeenNext DEF SeenIs
  <2>5. Seen = Recovered BY <2>1 DEF Seen
  <2> QED BY <2>1, <2>2, <2>3, <2>4, <2>5, Contents DEF PerBlock
<1> QED BY <1>1, <1>2, <1>3 DEF Boot

LEMMA CommitRefines ==
  ASSUME IInv, IInv', NEW p \in Procs
  PROVE  /\ WriteLog(p) => Stays
         /\ Install(p) => Stays
         /\ ClearHead(p) => Stays
         /\ WriteHead(p) => Recovered' = Seen /\ UNCHANGED <<Seen, ops>> /\ ops = {}
<1>1. ASSUME WriteLog(p) PROVE Stays
  <2>1. /\ UNCHANGED <<home, head, mode, pc, ops, refcnt>> /\ Live /\ Live'
        /\ pc[p] = "writeLog" /\ buf' \in Recycled(buf)
    BY <1>1 DEF WriteLog, Committer, logst, procs, Running, Live
  <2>2. ~ Installing /\ ~ Installing' BY <2>1, OneCommits DEF Installing
  <2>3. \A b \in Blocks : Recovered[b] = home[b] /\ Recovered'[b] = home[b]
    BY <2>1, <2>2, NothingToRecover, NothingToRecoverNext DEF NothingLogged
  <2>4. SameContents BY <2>1, Recycles, Sizes DEF SameContents
  <2> QED BY <2>1, <2>3, <2>4, SeenStays, Contents DEF PerBlock, Stays
<1>2. ASSUME Install(p) PROVE Stays
  <2>1. /\ UNCHANGED <<logData, head, lh, mode, pc, ops>> /\ Live /\ Live'
        /\ pc[p] = "install" /\ tail < Len(lh) /\ buf' \in Recycled(buf)
    BY <1>2, KeepsInstall DEF Install, Committer, NextIsFree, logst, procs, Running, Live
  <2>a. Installing /\ head = lh BY <2>1, OneCommits
  <2>b. tail \in Nat /\ Len(lh) \in Nat /\ \A i \in 1 .. Len(lh) : lh[i] \in Blocks
    BY DEF IInv, TypeOK
  <2>c. tail + 1 \in 1 .. Len(lh) BY <2>1, <2>b
  <2>2. /\ Installing /\ head = lh /\ tail \in Nat
        /\ tail + 1 \in 1 .. Len(lh) /\ lh[tail + 1] \in Blocks
    BY <2>a, <2>b, <2>c
  <2>3. home' = [home EXCEPT ![lh[tail + 1]] = logData[tail + 1]]
    BY <1>2 DEF Install, NextLogged
  <2>4. \A b \in Blocks : home'[b] = home[b] \/ b = lh[tail + 1] BY <2>2, <2>3 DEF IInv, TypeOK
  <2>5. ASSUME NEW b \in Blocks PROVE Recovered'[b] = Recovered[b]
    <3>1. CASE \E i \in 1 .. Len(head) : head[i] = b
      BY <3>1, <2>1, RecoveredNext, RecoveredThen DEF RecoveredIs
    <3>2. CASE \A i \in 1 .. Len(head) : head[i] # b
      <4>1. home'[b] = home[b] BY <3>2, <2>2, <2>4
      <4> QED BY <3>2, <4>1, <2>1, RecoveredNext, RecoveredThen DEF RecoveredIs
    <3> QED BY <3>1, <3>2
  <2>6. SameContents
    <3>1. lh[tail + 1] \in Pending /\ buf[lh[tail + 1]] \in Values BY <2>1, <2>2, PendingValid
    <3>2. buf'[lh[tail + 1]] = buf[lh[tail + 1]] BY <2>1, <2>2, <3>1, Recycles DEF KeepsPinned
    <3> QED BY <2>1, <2>4, <3>1, <3>2, Recycles, Sizes DEF SameContents
  <2> QED BY <2>1, <2>5, <2>6, SeenStays, Contents DEF PerBlock, Stays
<1>3. ASSUME ClearHead(p) PROVE Stays
  <2>1. /\ UNCHANGED <<home, logData, ops>> /\ Live /\ Live' /\ head' = <<>>
        /\ pc[p] = "install" /\ tail = Len(lh) /\ buf' \in Recycled(buf)
    BY <1>3 DEF ClearHead, Committer, Running, Live
  <2>2. Installing /\ head = lh BY <2>1, OneCommits
  <2>3. \A b \in Blocks : Recovered'[b] = home[b] BY <2>1, RecoveredThen DEF RecoveredIs
  <2>4. ASSUME NEW b \in Blocks PROVE Recovered[b] = home[b]
    <3>1. CASE \E i \in 1 .. Len(head) : head[i] = b
      <4>1. PICK i \in 1 .. Len(head) : head[i] = b BY <3>1
      <4>2. home[head[i]] = logData[i] BY <2>1, <2>2 DEF IInv, Copied
      <4> QED BY <4>1, <4>2, RecoveredNext DEF RecoveredIs
    <3>2. CASE \A i \in 1 .. Len(head) : head[i] # b BY <3>2, RecoveredNext DEF RecoveredIs
    <3> QED BY <3>1, <3>2
  <2>5. SameContents BY <2>1, Recycles, Sizes DEF SameContents
  <2> QED BY <2>1, <2>3, <2>4, <2>5, SeenStays, Contents DEF PerBlock, Stays
<1>4. ASSUME WriteHead(p) PROVE Recovered' = Seen /\ UNCHANGED <<Seen, ops>> /\ ops = {}
  <2>1. /\ UNCHANGED <<home, logData, lh, ops>> /\ Live /\ Live' /\ head' = lh
        /\ pc[p] = "writeLog" /\ tail = Len(lh) /\ buf' \in Recycled(buf)
    BY <1>4 DEF WriteHead, Committer, logst, Running, Live
  <2>2. Writing /\ ~ Installing /\ ops = {} BY <2>1, OneCommits
  <2>3. ASSUME NEW b \in Blocks PROVE Recovered'[b] = Seen[b]
    <3>1. CASE \E i \in 1 .. Len(lh) : lh[i] = b
      <4>1. PICK i \in 1 .. Len(lh) : lh[i] = b BY <3>1
      <4>2. logData[i] = buf[b] /\ buf[b] \in Values
        BY <2>1, <2>2, <4>1, PendingValid DEF IInv, Copied
      <4>3. Recovered'[b] = logData[i] BY <2>1, <4>1, RecoveredThen DEF RecoveredIs
      <4> QED BY <2>1, <4>2, <4>3, SeenAt DEF SeenIs
    <3>2. CASE \A i \in 1 .. Len(lh) : lh[i] # b
      <4>1. b \notin Pending BY <3>2, PendingAt DEF PendingIs, IInv
      <4>2. Recovered'[b] = home[b] BY <2>1, <3>2, RecoveredThen DEF RecoveredIs
      <4> QED BY <2>1, <4>1, <4>2, SeenAt DEF SeenIs
    <3> QED BY <3>1, <3>2
  <2>4. SameContents BY <2>1, Recycles, Sizes DEF SameContents
  <2> QED BY <2>1, <2>2, <2>3, <2>4, SeenStays, Contents DEF PerBlock
<1> QED BY <1>1, <1>2, <1>3, <1>4

\* An operation begins when what ended before it is durable: nothing is logged.
LEMMA BeginRefines ==
  ASSUME IInv, IInv', NEW p \in Procs, BeginOp(p)
  PROVE  Stays \/ A!Begin(p)
<1>1. UNCHANGED <<home, logData, head, buf>> /\ Live /\ Live' /\ pc[p] \in {"idle", "begin"}
  BY DEF BeginOp, disk, cache, Running, Live
<1>2. Recovered' = Recovered /\ Seen' = Seen BY <1>1, RecoveredStays, SeenStays DEF SameContents
<1>3. CASE ops' = ops BY <1>2, <1>3 DEF Stays
<1>4. CASE ~ committing /\ ops' = ops \cup {p}
  <2>1. p \notin ops BY <1>1 DEF IInv, Where
  <2>2. ASSUME ops = {} PROVE Recovered = Seen
    <3>1. ~ Installing /\ lh = <<>> BY <1>1, <1>4, <2>2 DEF IInv, Commits, Installing, Phases
    <3>2. \A b \in Blocks : b \notin Pending BY <3>1, PendingAt DEF IInv, PendingIs
    <3>3. \A b \in Blocks : Recovered[b] = home[b] /\ Seen[b] = home[b]
      BY <1>1, <3>1, <3>2, NothingToRecover, SeenAt DEF NothingLogged, SeenIs
    <3> QED BY <3>3, Contents DEF PerBlock
  <2> QED BY <1>2, <1>4, <2>1, <2>2 DEF A!Begin
<1>5. ops' = ops \/ (~ committing /\ ops' = ops \cup {p}) BY DEF BeginOp
<1> QED BY <1>3, <1>4, <1>5

LEMMA LogWriteRefines ==
  ASSUME IInv, IInv', NEW p \in Procs, NEW v \in Values, LogWrite(p, v)
  PROVE  \E b \in Blocks : A!Write(p, b, v)
<1>1. /\ UNCHANGED <<home, logData, head, ops, blk>> /\ Live /\ Live'
      /\ pc[p] = "hold" /\ p \in ops /\ blk[p] \in Blocks
  BY DEF LogWrite, Modifies, disk, Running, Live, IInv, Where
<1>2. PICK b \in Blocks : b = blk[p] BY <1>1
<1>3. buf' = [buf EXCEPT ![b] = v] BY <1>2 DEF LogWrite
<1>4. \A c \in Blocks : buf'[c] = IF c = b THEN v ELSE buf[c] BY <1>3 DEF IInv, TypeOK
<1>5. \A c \in Blocks : Seen'[c] = IF c = b THEN v ELSE Seen[c]
  BY <1>1, <1>4, SeenAt, SeenNext DEF SeenIs
<1>6. Seen' = [Seen EXCEPT ![b] = v] BY <1>5, Contents DEF PerBlock
<1>7. A!Write(p, b, v) BY <1>1, <1>6, RecoveredStays DEF A!Write
<1> QED BY <1>7

\* The other steps of a process touch neither the disk nor what bread() returns.
LEMMA QuietRefines ==
  ASSUME IInv, IInv', NEW p \in Procs
  PROVE  /\ \A b \in Blocks : Bget(p, b) => Stays
         /\ Lock(p) \/ Brelse(p) \/ LogWritePanic(p) \/ Committed(p) => Stays
         /\ EndOp(p) => A!End(p)
<1>1. ASSUME NEW b \in Blocks, Bget(p, b) PROVE Stays
  <2>1. UNCHANGED <<home, logData, head, ops>> /\ Live /\ Live'
    BY <1>1 DEF Bget, disk, Running, Live
  <2>2. SameContents BY <1>1, <2>1, KeepsBget DEF Evicts, SameContents
  <2> QED BY <2>1, <2>2, RecoveredStays, SeenStays DEF Stays
<1>2. ASSUME Lock(p) PROVE Stays
  <2>1. UNCHANGED <<home, logData, head, ops>> /\ Live /\ Live'
    BY <1>2 DEF Lock, disk, Running, Live
  <2>2. SameContents BY <1>2, <2>1, KeepsLock, Sizes DEF SameContents
  <2> QED BY <2>1, <2>2, RecoveredStays, SeenStays DEF Stays
<1>3. ASSUME Brelse(p) \/ LogWritePanic(p) \/ Committed(p) \/ EndOp(p)
      PROVE  UNCHANGED <<Recovered, Seen>>
  <2>1. UNCHANGED <<home, logData, head, buf>> /\ Live /\ Live'
    BY <1>3 DEF Brelse, LogWritePanic, Modifies, Committed, EndOp, Committer, disk, cache,
      Running, Live
  <2> QED BY <2>1, RecoveredStays, SeenStays DEF SameContents
<1>4. ASSUME Brelse(p) \/ LogWritePanic(p) \/ Committed(p) PROVE ops' = ops
  BY <1>4 DEF Brelse, LogWritePanic, Committed, procs
<1>5. ASSUME EndOp(p) PROVE A!End(p) BY <1>3, <1>5 DEF EndOp, A!End, IInv, Where
<1> QED BY <1>1, <1>2, <1>3, <1>4, <1>5 DEF Stays

LEMMA CrashRefines ==
  ASSUME Crash
  PROVE  A!Crash
<1>1. Recovered' = Recovered BY RecoveredStays DEF Crash, disk
<1> QED BY <1>1 DEF Crash, Seen, A!Crash

LEMMA DiskInit == Init => A!Init
<1> SUFFICES ASSUME Init PROVE A!Init
  OBVIOUS
<1>1. head \in Seq(Blocks) /\ Once(head) /\ Len(head) = 0 BY DEF Init, Once
<1>2. \A b \in Blocks : Recovered[b] = Blank BY <1>1, RecoveredAt DEF Init, RecoveredIs
<1>3. Recovered = [b \in Blocks |-> Blank] BY <1>2, Contents DEF PerBlock
<1> QED BY <1>3 DEF Init, Seen, A!Init

LEMMA DiskNext == IInv /\ IInv' /\ [Next]_vars => [A!Next]_(A!vars)
<1> SUFFICES ASSUME IInv, IInv', [Next]_vars PROVE [A!Next]_(A!vars)
  OBVIOUS
<1>1. Stays => UNCHANGED A!vars BY DEF Stays, A!vars
<1>2. CASE Boot BY <1>1, <1>2, BootRefines
<1>3. CASE Crash BY <1>3, CrashRefines DEF A!Next
<1>4. ASSUME NEW p \in Procs, Process(p) PROVE A!Next \/ Stays
  <2>1. CASE BeginOp(p) BY <2>1, BeginRefines DEF A!Next
  <2>2. ASSUME NEW b \in Blocks, Bget(p, b) PROVE Stays BY <2>2, QuietRefines
  <2>3. ASSUME NEW v \in Values, LogWrite(p, v) PROVE A!Next BY <2>3, LogWriteRefines DEF A!Next
  <2>4. CASE LogWritePanic(p) BY <2>4, QuietRefines
  <2>5. CASE EndOp(p) BY <2>5, QuietRefines DEF A!Next
  <2>6. CASE WriteHead(p) BY <2>6, CommitRefines DEF A!Next, A!Commit
  <2>7. CASE Lock(p) \/ Brelse(p) \/ Committed(p) BY <2>7, QuietRefines
  <2>8. CASE WriteLog(p) \/ Install(p) \/ ClearHead(p) BY <2>8, CommitRefines
  <2> QED BY <1>4, <2>1, <2>2, <2>3, <2>4, <2>5, <2>6, <2>7, <2>8 DEF Process, Finish
<1>5. CASE UNCHANGED vars
  <2>1. UNCHANGED <<home, logData, head, buf, mode, ops>> BY <1>5 DEF vars, disk, cache, procs
  <2> QED BY <1>1, <2>1, RecoveredStays DEF Seen, Stays
<1> QED BY <1>1, <1>2, <1>3, <1>4, <1>5 DEF Next

\* The logging layer implements atomic, durable transactions: operations that
\* overlap reach the disk together, at the one write of write_head(), or not at
\* all, whatever write the machine stops after, in recovery too, and no operation
\* begins between the end of a transaction and its commit.
THEOREM Refinement == Spec => Atomicity
BY DiskInit, DiskNext, Invariance, PTL DEF Spec, Atomicity, A!Spec
=============================================================================
