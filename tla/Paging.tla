------------------------------- MODULE Paging -------------------------------
(***************************************************************************)
(* The paging simulator PageTable/Paging_Code/paging.cpp: a script loads,  *)
(* runs, kills and swaps whole processes between a main memory (MM) and a  *)
(* virtual memory (VM) of page frames; swapping in evicts the processes    *)
(* the LRU set lists first.                                                *)
(*                                                                         *)
(* The program is sequential.  An action is one command of the script or,  *)
(* for the commands that call others, one call: `at' is where the program  *)
(* is, `cmd' the command it serves, `cur' the process of the command,      *)
(* `victim' the process swap_out_process() works on, `it' the iterator of  *)
(* the eviction loop and `ip' the next instruction of a running process.   *)
(* An address stands for the page it lies in, and a page holds one word.   *)
(***************************************************************************)
EXTENDS Integers, Sequences, FiniteSets

CONSTANTS MM_PG_CNT, VM_PG_CNT, \* frames of the two memories
          MaxPid,               \* pids the script can use up (MAX_PROC - 1)
          MaxPages,             \* pages of the largest process
          MaxTime,              \* bound on GLB_TIME, for TLC
          Programs              \* the instruction lists files may contain

ASSUME FramesAssumption ==
  MM_PG_CNT \in Nat /\ VM_PG_CNT \in Nat
ASSUME BoundsAssumption ==
  /\ MaxPid \in Nat /\ MaxPages \in Nat \ {0} /\ MaxTime \in Nat

\* What load makes of the lines of a file: str_to_num() reads digits only, and a
\* line with another name or another number of arguments is "bad".
Instructions ==
  {i \in [op : {"load", "add", "sub", "print", "bad"}, val : Int, adr : Seq(Nat)] :
     /\ i.op = "load" => Len(i.adr) = 1
     /\ i.op \in {"add", "sub"} => Len(i.adr) = 3}

ASSUME ProgramsAssumption == Programs \subseteq Seq(Instructions)

MMFrames == 0..(MM_PG_CNT - 1)
VMFrames == 0..(VM_PG_CNT - 1)
ERROR_ENTRY  == -1            \* ERROR_ENTRY in a page table
Pids     == 1..MaxPid
PageNos  == 0..(MaxPages - 1)
Erased   == -1            \* the word initialize() fills both memories with
NoEntry  == <<0, 0>>      \* the iterator when no eviction loop is running

VARIABLES
  at, cmd, cur, victim, it, ip,
  ffMM, ffVM,              \* the frames marked free
  MM_FF_CNT, VM_FF_CNT,    \* the free-frame counters
  VPID,                    \* the valid pids
  PID_CNT, GLB_TIME,
  LRU_SET,                 \* pairs <<time, pid>>
  in_mm, in_vm,            \* the processes with the flag set
  num_pg, program,         \* per process: its pages and its instructions
  MMPFNum, VMPFNum,        \* the page tables
  MM                       \* the words of main memory

control == <<at, cmd, cur, victim, it, ip>>
mmState == <<ffMM, MM_FF_CNT, in_mm, MMPFNum>>
vmState == <<ffVM, VM_FF_CNT, in_vm, VMPFNum>>
lru     == <<LRU_SET, GLB_TIME>>
table   == <<VPID, PID_CNT, num_pg, program>>
vars    == <<control, mmState, vmState, lru, table, MM>>

NoPages == [k \in PageNos |-> ERROR_ENTRY]

Init ==
  /\ at = "script" /\ cmd = "none" /\ cur = 0 /\ victim = 0 /\ it = NoEntry /\ ip = 1
  /\ ffMM = MMFrames /\ MM_FF_CNT = MM_PG_CNT
  /\ ffVM = VMFrames /\ VM_FF_CNT = VM_PG_CNT
  /\ VPID = {} /\ PID_CNT = 0 /\ GLB_TIME = 0 /\ LRU_SET = {}
  /\ in_mm = {} /\ in_vm = {}
  /\ num_pg = [p \in Pids |-> 0] /\ program = [p \in Pids |-> <<>>]
  /\ MMPFNum = [p \in Pids |-> NoPages]
  /\ VMPFNum = [p \in Pids |-> NoPages]
  /\ MM = [f \in MMFrames |-> Erased]

Pages(p) == 0..(num_pg[p] - 1)

\* The scan of get_freloc(): n pages get the first n free frames, in order.
\* (One placement, or none when fewer than n frames are free.)
Placements(n, frames) ==
  {f \in [0..(n - 1) -> frames] :
     /\ \A j, k \in 0..(n - 1) : j < k => f[j] < f[k]
     /\ \A k \in 0..(n - 1) : \A g \in frames :
          g < f[k] => \E j \in 0..(n - 1) : f[j] = g}

\* Mutant: the page counter of the scan is not advanced.
MappedOnePage(pt, place) ==
  [k \in PageNos |-> IF k = 0 THEN place[0] ELSE pt[k]]

\* A page table whose first pages are as placed and the others untouched.
Mapped(pt, place) == [k \in PageNos |-> IF k \in DOMAIN place THEN place[k] ELSE pt[k]]

FramesOf(place) == {place[k] : k \in DOMAIN place}

-----------------------------------------------------------------------------
(***************************************************************************)
(* Helpers the commands share.                                             *)
(***************************************************************************)
\* remove_set(pid): it compares the pid with the first component, the time.
RemoveSet(p) == {e \in LRU_SET : e[1] # p}

\* remove_set(pid); GLB_TIME ++; LRU_SET.insert({GLB_TIME, pid});
Touch(p) ==
  /\ GLB_TIME' = GLB_TIME + 1
  /\ LRU_SET' = RemoveSet(p) \cup {<<GLB_TIME + 1, p>>}

\* A command that may advance the clock starts only below the bound.
ClockLeft == GLB_TIME < MaxTime

\* get_freloc() with room in MM, the flags set as it leaves them.
PlaceMM(p, n) ==
  \E place \in Placements(n, ffMM) :
    /\ ffMM' = ffMM \ FramesOf(place)
    /\ MM_FF_CNT' = MM_FF_CNT - n
    /\ in_mm' = in_mm \cup {p}
    /\ MMPFNum' = [MMPFNum EXCEPT ![p] = Mapped(@, place)]

\* Mutant: the free-frame counter of VM is forgotten.
PlaceVMUncounted(p, n) ==
  \E place \in Placements(n, ffVM) :
    /\ ffVM' = ffVM \ FramesOf(place)
    /\ VM_FF_CNT' = VM_FF_CNT
    /\ in_vm' = in_vm \cup {p}
    /\ VMPFNum' = [VMPFNum EXCEPT ![p] = Mapped(@, place)]

PlaceVM(p, n) ==
  \E place \in Placements(n, ffVM) :
    /\ ffVM' = ffVM \ FramesOf(place)
    /\ VM_FF_CNT' = VM_FF_CNT - n
    /\ in_vm' = in_vm \cup {p}
    /\ VMPFNum' = [VMPFNum EXCEPT ![p] = Mapped(@, place)]

\* load_into_mm(pid) and load_into_vm(pid): get_freloc() forced one way, or
\* ERROR_ENTRY with nothing changed when there is no room there.
LoadIntoMM(p) ==
  \/ /\ MM_FF_CNT >= num_pg[p]
     /\ PlaceMM(p, num_pg[p])
     /\ in_vm' = in_vm \ {p}
     /\ UNCHANGED <<ffVM, VM_FF_CNT, VMPFNum>>
  \/ /\ MM_FF_CNT < num_pg[p]
     /\ UNCHANGED <<mmState, vmState>>

LoadIntoVM(p) ==
  \/ /\ VM_FF_CNT >= num_pg[p]
     /\ PlaceVM(p, num_pg[p])
     /\ in_mm' = in_mm \ {p}
     /\ UNCHANGED <<ffMM, MM_FF_CNT, MMPFNum>>
  \/ /\ VM_FF_CNT < num_pg[p]
     /\ UNCHANGED <<mmState, vmState>>

\* Mutant: the loop over the pages stops one short.
ReleaseAllButOne(p) ==
  \/ /\ p \in in_mm
     /\ ffMM' = ffMM \cup {MMPFNum[p][k] : k \in 0..(num_pg[p] - 2)}
     /\ MM_FF_CNT' = MM_FF_CNT + num_pg[p] - 1
     /\ in_mm' = in_mm \ {p}
     /\ UNCHANGED <<vmState, MMPFNum>>
  \/ /\ p \notin in_mm
     /\ UNCHANGED <<mmState, vmState>>

\* The part of kill_process() that gives the frames back.
ReleaseFrames(p) ==
  \/ /\ p \in in_mm
     /\ ffMM' = ffMM \cup {MMPFNum[p][k] : k \in Pages(p)}
     /\ MM_FF_CNT' = MM_FF_CNT + num_pg[p]
     /\ in_mm' = in_mm \ {p}
     /\ MMPFNum' = [MMPFNum EXCEPT ![p] = [k \in PageNos |->
                       IF k \in Pages(p) THEN ERROR_ENTRY ELSE @[k]]]
     /\ UNCHANGED vmState
  \/ /\ p \notin in_mm /\ p \in in_vm
     /\ ffVM' = ffVM \cup {VMPFNum[p][k] : k \in Pages(p)}
     /\ VM_FF_CNT' = VM_FF_CNT + num_pg[p]
     /\ in_vm' = in_vm \ {p}
     /\ VMPFNum' = [VMPFNum EXCEPT ![p] = [k \in PageNos |->
                       IF k \in Pages(p) THEN ERROR_ENTRY ELSE @[k]]]
     /\ UNCHANGED mmState
  \/ /\ p \notin in_mm \cup in_vm
     /\ UNCHANGED <<mmState, vmState>>

-----------------------------------------------------------------------------
(***************************************************************************)
(* load: one file.  A file of no pages makes get_freloc() write past an    *)
(* empty page table; such files are left out.                              *)
(***************************************************************************)
NextPid == PID_CNT + 1

NewProcess(n, prog) ==
  /\ PID_CNT < MaxPid
  /\ PID_CNT' = NextPid /\ VPID' = VPID \cup {NextPid}
  /\ num_pg' = [num_pg EXCEPT ![NextPid] = n]
  /\ program' = [program EXCEPT ![NextPid] = prog]

LoadToMM(n, prog) ==
  /\ at = "script" /\ ClockLeft /\ MM_FF_CNT >= n
  /\ NewProcess(n, prog) /\ PlaceMM(NextPid, n) /\ Touch(NextPid)
  /\ UNCHANGED <<control, vmState, MM>>

\* A process that starts in virtual memory is not entered in LRU_SET.
LoadToVM(n, prog) ==
  /\ at = "script" /\ MM_FF_CNT < n /\ VM_FF_CNT >= n
  /\ NewProcess(n, prog) /\ PlaceVM(NextPid, n)
  /\ UNCHANGED <<control, mmState, lru, MM>>

(***************************************************************************)
(* kill                                                                    *)
(***************************************************************************)
Kill(p) ==
  /\ at = "script" /\ p \in VPID
  /\ LRU_SET' = RemoveSet(p)
  /\ ReleaseFrames(p)
  /\ VPID' = IF p \in in_mm \cup in_vm THEN VPID \ {p} ELSE VPID
  /\ UNCHANGED <<control, GLB_TIME, PID_CNT, num_pg, program, MM>>

(***************************************************************************)
(* swapout: swap_out_process() frees the process from MM, then loads it    *)
(* into VM if it fits there and back into MM if it does not.               *)
(***************************************************************************)
\* free_process() is called only for a process that is in MM.
FreeForSwapOut(p) ==
  /\ victim' = p /\ at' = "swapOutPlace"
  /\ LRU_SET' = IF p \in in_mm THEN RemoveSet(p) ELSE LRU_SET
  /\ ReleaseFrames(p)
  /\ UNCHANGED <<cur, it, ip, GLB_TIME, table, MM>>

SwapOut(p) ==
  /\ at = "script" /\ p \in VPID \ in_vm
  /\ cmd' = "swapout" /\ FreeForSwapOut(p)

\* ++ on the iterator of the range-for over LRU_SET.  When remove_set() has
\* erased the element it stands at, it reads a freed tree node: the node's links
\* may still lead to some element, to the end of the set or nowhere.
Advance ==
  \/ /\ it \in LRU_SET
     /\ \E e \in LRU_SET :
          /\ e[1] > it[1]
          /\ \A d \in LRU_SET : d[1] > it[1] => e[1] <= d[1]
          /\ it' = e /\ at' = "evict"
  \/ /\ it \in LRU_SET /\ \A d \in LRU_SET : d[1] <= it[1]
     /\ it' = NoEntry /\ at' = "swapInPlace"
  \/ /\ it \notin LRU_SET
     /\ it' \in LRU_SET /\ at' = "evict"
  \/ /\ it \notin LRU_SET
     /\ it' = NoEntry /\ at' \in {"swapInPlace", "crashed"}

\* A command is over; its local variables are gone.
Return ==
  /\ at' = "script" /\ cmd' = "none"
  /\ cur' = 0 /\ victim' = 0 /\ ip' = 1 /\ it' = NoEntry

\* Where swap_out_process() returns to: the script, or the eviction loop, which
\* goes on after PASS_ENTRY and gives up after ERROR_ENTRY.
ReturnFromSwapOut(pass) ==
  \/ cmd = "swapout" /\ Return
  \/ /\ cmd # "swapout" /\ pass
     /\ Advance /\ victim' = 0
     /\ UNCHANGED <<cmd, cur, ip>>
  \/ /\ cmd # "swapout" /\ ~pass
     /\ it' = NoEntry /\ at' = "swapInPlace" /\ victim' = 0
     /\ UNCHANGED <<cmd, cur, ip>>

SwapOutPlace ==
  /\ at = "swapOutPlace"
  /\ \/ VM_FF_CNT >= num_pg[victim] /\ LoadIntoVM(victim) /\ ReturnFromSwapOut(TRUE)
     \/ VM_FF_CNT < num_pg[victim] /\ LoadIntoMM(victim) /\ ReturnFromSwapOut(FALSE)
  /\ UNCHANGED <<lru, table, MM>>

(***************************************************************************)
(* swapin: swap_in_process() frees the process from VM, evicts others from *)
(* MM in the order of LRU_SET until it fits, and loads it.  run does the   *)
(* same when its process is in VM, and then returns without running it.    *)
(***************************************************************************)
SwapIn(p, command) ==
  /\ at = "script" /\ ClockLeft /\ p \in VPID \ in_mm
  /\ command = "run" => p \in in_vm
  /\ cmd' = command /\ cur' = p
  /\ LRU_SET' = IF p \in in_vm THEN RemoveSet(p) ELSE LRU_SET
  /\ ReleaseFrames(p)
  /\ \/ /\ \E e \in LRU_SET' : (\A d \in LRU_SET' : e[1] <= d[1]) /\ it' = e
        /\ at' = "evict"
     \/ LRU_SET' = {} /\ it' = NoEntry /\ at' = "swapInPlace"
  /\ UNCHANGED <<victim, ip, GLB_TIME, table, MM>>

\* build_space_mm(), one round: enough room, an entry of a killed process, one
\* already in VM, or a process to swap out.
EvictEnough ==
  /\ at = "evict" /\ MM_FF_CNT >= num_pg[cur]
  /\ at' = "swapInPlace" /\ it' = NoEntry
  /\ UNCHANGED <<cmd, cur, victim, ip, mmState, vmState, lru, table, MM>>

\* Mutant: the iterator is not advanced past an entry that is skipped.
EvictSkipStays ==
  /\ at = "evict" /\ MM_FF_CNT < num_pg[cur]
  /\ it[2] \notin VPID \/ it[2] \in in_vm
  /\ UNCHANGED vars

EvictSkip ==
  /\ at = "evict" /\ MM_FF_CNT < num_pg[cur]
  /\ it[2] \notin VPID \/ it[2] \in in_vm
  /\ Advance
  /\ UNCHANGED <<cmd, cur, victim, ip, mmState, vmState, lru, table, MM>>

EvictVictim ==
  /\ at = "evict" /\ MM_FF_CNT < num_pg[cur]
  /\ it[2] \in VPID \ in_vm
  /\ FreeForSwapOut(it[2]) /\ UNCHANGED cmd

SwapInPlace ==
  /\ at = "swapInPlace" /\ MM_FF_CNT >= num_pg[cur]
  /\ LoadIntoMM(cur)
  /\ Touch(cur) /\ Return
  /\ UNCHANGED <<table, MM>>

\* No room was made: back into VM, if there still is room there.
SwapInFails ==
  /\ at = "swapInPlace" /\ MM_FF_CNT < num_pg[cur]
  /\ LoadIntoVM(cur) /\ Return
  /\ UNCHANGED <<lru, table, MM>>

(***************************************************************************)
(* run: the instructions of a process that is not in VM, one at a time.    *)
(***************************************************************************)
Run(p) ==
  /\ at = "script" /\ ClockLeft /\ p \in VPID \ in_vm
  /\ Touch(p)
  /\ at' = "run" /\ cmd' = "run" /\ cur' = p /\ ip' = 1
  /\ UNCHANGED <<victim, it, mmState, vmState, table, MM>>

Instr == program[cur][ip]
Fetching == at = "run" /\ ip <= Len(program[cur])

\* get_real_addr(), for a process in MM.
Word(adr) == MM[MMPFNum[cur][adr]]

\* Process::load, add and sub; print and an instruction with an address out of
\* range store nothing, and so does a process that is in neither memory.
Stores ==
  /\ cur \in in_mm
  /\ \A k \in DOMAIN Instr.adr : Instr.adr[k] < num_pg[cur]
  /\ Instr.op \in {"load", "add", "sub"}

Result ==
  CASE Instr.op = "load" -> Instr.val
    [] Instr.op = "add"  -> Word(Instr.adr[1]) + Word(Instr.adr[2])
    [] Instr.op = "sub"  -> Word(Instr.adr[1]) - Word(Instr.adr[2])

Target == Instr.adr[Len(Instr.adr)]

\* Mutant: the address of a store is not translated.
ExecuteUntranslated ==
  /\ Fetching /\ Instr.op # "bad"
  /\ MM' = IF Stores THEN [MM EXCEPT ![Target] = Result] ELSE MM
  /\ ip' = ip + 1
  /\ UNCHANGED <<at, cmd, cur, victim, it, mmState, vmState, lru, table>>

Execute ==
  /\ Fetching /\ Instr.op # "bad"
  /\ MM' = IF Stores THEN [MM EXCEPT ![MMPFNum[cur][Target]] = Result] ELSE MM
  /\ ip' = ip + 1
  /\ UNCHANGED <<at, cmd, cur, victim, it, mmState, vmState, lru, table>>

\* Wrong number of arguments, or an unknown name: run_process() returns.
BadInstruction ==
  /\ Fetching /\ Instr.op = "bad" /\ Return
  /\ UNCHANGED <<mmState, vmState, lru, table, MM>>

RunOver ==
  /\ at = "run" /\ ip > Len(program[cur]) /\ Return
  /\ UNCHANGED <<mmState, vmState, lru, table, MM>>

(***************************************************************************)
(* exit initialises the memories, VPID and LRU_SET, not pid_to_prc or      *)
(* PID_CNT, and the script goes on.  A command main() does not know is     *)
(* reported and the script goes on.                                        *)
(***************************************************************************)
Exit ==
  /\ at = "script"
  /\ ffMM' = MMFrames /\ MM_FF_CNT' = MM_PG_CNT
  /\ ffVM' = VMFrames /\ VM_FF_CNT' = VM_PG_CNT
  /\ VPID' = {} /\ LRU_SET' = {} /\ GLB_TIME' = 0
  /\ MM' = [f \in MMFrames |-> Erased]
  /\ UNCHANGED <<control, in_mm, in_vm, PID_CNT, num_pg, program, MMPFNum, VMPFNum>>

UnknownCommand ==
  /\ at = "script" /\ at' = "unknown"
  /\ UNCHANGED <<cmd, cur, victim, it, ip, mmState, vmState, lru, table, MM>>

NextCommand ==
  /\ at = "unknown" /\ at' = "script"
  /\ UNCHANGED <<cmd, cur, victim, it, ip, mmState, vmState, lru, table, MM>>

\* The end of the script.
EndOfScript ==
  /\ at = "script" /\ at' = "over"
  /\ UNCHANGED <<cmd, cur, victim, it, ip, mmState, vmState, lru, table, MM>>

Stopped == at \in {"over", "crashed"} /\ UNCHANGED vars

Command ==
  \/ \E n \in 1..MaxPages, prog \in Programs : LoadToMM(n, prog) \/ LoadToVM(n, prog)
  \/ \E p \in Pids : \/ Kill(p) \/ Run(p) \/ SwapOut(p)
                      \/ \E c \in {"swapin", "run"} : SwapIn(p, c)
  \/ Exit \/ UnknownCommand \/ EndOfScript

Continue ==
  \/ SwapOutPlace \/ EvictEnough \/ EvictSkip \/ EvictVictim
  \/ SwapInPlace \/ SwapInFails
  \/ Execute \/ BadInstruction \/ RunOver \/ NextCommand

Next == Command \/ Continue \/ Stopped

Spec == Init /\ [][Next]_vars

\* A command that has begun goes on; the script owes nobody a next command.
FairSpec == Spec /\ WF_vars(Continue)

-----------------------------------------------------------------------------
(***************************************************************************)
(* Properties.                                                             *)
(***************************************************************************)
\* The type invariant.
TypeOK ==
  /\ at \in {"script", "run", "evict", "swapInPlace", "swapOutPlace", "unknown",
             "over", "crashed"}
  /\ cmd \in {"none", "run", "swapin", "swapout"}
  /\ cur \in Pids \cup {0} /\ victim \in Pids \cup {0} /\ ip \in Nat
  /\ it \in Nat \X (Pids \cup {0})
  /\ ffMM \subseteq MMFrames /\ MM_FF_CNT \in Int
  /\ ffVM \subseteq VMFrames /\ VM_FF_CNT \in Int
  /\ VPID \subseteq 1..PID_CNT /\ PID_CNT \in 0..MaxPid /\ GLB_TIME \in Nat
  /\ LRU_SET \subseteq (1..GLB_TIME) \X Pids
  /\ in_mm \subseteq Pids /\ in_vm \subseteq Pids
  /\ num_pg \in [Pids -> 0..MaxPages] /\ DOMAIN program = Pids
  /\ MMPFNum \in [Pids -> [PageNos -> MMFrames \cup {ERROR_ENTRY}]]
  /\ VMPFNum \in [Pids -> [PageNos -> VMFrames \cup {ERROR_ENTRY}]]
  /\ MM \in [MMFrames -> Int]

MMResident == VPID \cap in_mm
VMResident == VPID \cap in_vm
MMOwned == UNION {{MMPFNum[p][k] : k \in Pages(p)} : p \in MMResident}
VMOwned == UNION {{VMPFNum[p][k] : k \in Pages(p)} : p \in VMResident}

\* The counters the space checks rely on are the numbers of free frames, after
\* every load, eviction, failed swap and kill.
CountsMatch ==
  MM_FF_CNT = Cardinality(ffMM) /\ VM_FF_CNT = Cardinality(ffVM)

\* Every page of a resident process has a frame of its own: no two pages, of
\* one process or of two, share a frame, and none of these frames is free.
FramesExclusive ==
  /\ \A p, q \in MMResident : \A j \in Pages(p), k \in Pages(q) :
       MMPFNum[p][j] = MMPFNum[q][k] => p = q /\ j = k
  /\ \A p, q \in VMResident : \A j \in Pages(p), k \in Pages(q) :
       VMPFNum[p][j] = VMPFNum[q][k] => p = q /\ j = k
  /\ MMOwned \subseteq MMFrames \ ffMM
  /\ VMOwned \subseteq VMFrames \ ffVM

\* Main memory does not leak: a frame that is not free belongs to a process
\* in main memory.
MMConserved == MMFrames \ ffMM \subseteq MMOwned

\* A running process changes no word of another process in main memory.
WordsIsolated ==
  [][\A p \in MMResident : (at = "run" /\ cur # p) =>
       \A k \in Pages(p) : MM'[MMPFNum[p][k]] = MM[MMPFNum[p][k]]]_vars

\* Every command returns to the script: the eviction loop ends although the
\* set it walks over changes under it (unless walking a freed node crashes).
CommandsReturn == [](at # "script" => <>(at \in {"script", "over", "crashed"}))
=============================================================================
