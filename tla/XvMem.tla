-------------------------------- MODULE XvMem --------------------------------
(***************************************************************************)
(* The memory of the xv6 kernel: the frames of kalloc.c, the page tables   *)
(* of vm.c, and the calls that take and give back frames: fork(), exec(),  *)
(* sbrk(), exit() and wait() (proc.c, exec.c, sysfile.c), and copyout()    *)
(* into a process.                                                         *)
(*                                                                         *)
(* Physical memory is ram: a frame holds a page-table page or data.  Every *)
(* page that is allocated is an action, with the page-table pages that     *)
(* mapping it takes, so that other processes take frames in between and a  *)
(* call fails at any page; what a call gives back it gives back in one     *)
(* action.  Frames are alike: the free list is a set, and kalloc() takes   *)
(* the first.  Virtual addresses are page numbers, FANOUT stands for the   *)
(* 512 entries of a page-table page, sizes are bytes.                      *)
(***************************************************************************)
EXTENDS Integers, Sequences, FiniteSets, SequencesExt

CONSTANTS NPROC, NFRAMES, FANOUT, PGSIZE, MAXARG,
          Binaries,   \* the files for exec(): sequences of segments
          Values,     \* what processes write
          Increments, \* arguments of sbrk()
          BootFree,   \* how many frames the kernel leaves after booting
          MaxCalls, PageLimit  \* bounds for TLC: system calls, pages of a process

\* The kernel boots: it has the seven frames of the first process.
ASSUME MemAssumption ==
  /\ NPROC \in Nat \ {0} /\ NFRAMES \in Nat /\ FANOUT \in Nat /\ FANOUT > 1
  /\ PGSIZE \in Nat \ {0} /\ MAXARG \in Nat /\ BootFree \subseteq 7 .. NFRAMES
  /\ Increments \subseteq Int /\ "kernel" \notin Values

Procs  == 1 .. NPROC
Frames == 1 .. NFRAMES
NoFrame == 0
Trampoline == NFRAMES + 1   \* the kernel's page that every process maps

TRAMPOLINE == FANOUT * FANOUT * FANOUT - 1
TRAPFRAME  == TRAMPOLINE - 1

\* Memory ends long before the addresses do: the kernel has 2^15 frames, TRAPFRAME is
\* page 2^27 - 2.
ASSUME PagesAssumption == PageLimit \in Nat /\ 2 <= PageLimit /\ PageLimit <= TRAPFRAME

\* What a frame holds.
Data(v) == [data |-> v]
Junk == Data("junk")
Zero == Data("zero")
Entries == 0 .. FANOUT - 1
NoPte == [pa |-> NoFrame, perm |-> {}]
Pointer(f) == [pa |-> f, perm |-> {}]
Table(k, pte) == [table |-> [e \in Entries |-> IF e = k THEN pte ELSE NoPte]]

VARIABLES
  ram, free, panic,      \* physical memory, kmem.freelist, the kernel has stopped
  state, parent, sz, pagetable, trapframe,  \* struct proc
  pc,      \* where a process is in a call
  loc,     \* what the call has in its local variables
  calls

memory == <<ram, free, panic>>
procs  == <<state, parent, sz, pagetable, trapframe>>
memVars   == <<memory, procs, pc, loc, calls>>

NoCall == [np |-> 0, root |-> NoFrame, at |-> 0, old |-> 0, new |-> 0, perm |-> {},
           then |-> "user", segs |-> <<>>, size |-> 0, argv |-> {}]

-----------------------------------------------------------------------------
(***************************************************************************)
(* kalloc.c and vm.c                                                       *)
(***************************************************************************)
Frame1 == Min(free)
Frame2 == Min(free \ {Frame1})
Frame3 == Min(free \ {Frame1, Frame2})
Frame4 == Min(free \ {Frame1, Frame2, Frame3})
FreeFrames(n) == Cardinality(free) >= n

Span(level) == CASE level = 0 -> 1 [] level = 1 -> FANOUT [] OTHER -> FANOUT * FANOUT
PX(level, va) == (va \div Span(level)) % FANOUT

\* walk(): the page-table pages of the middle and of the lowest level for va, and
\* the entry.
Next1(root, va) == ram[root].table[PX(2, va)].pa
Next0(root, va) ==
  IF Next1(root, va) = NoFrame THEN NoFrame ELSE ram[Next1(root, va)].table[PX(1, va)].pa
Pte(root, va) ==
  IF Next0(root, va) = NoFrame THEN NoPte ELSE ram[Next0(root, va)].table[PX(0, va)]

Missing(root, va) ==
  IF Next1(root, va) = NoFrame THEN 2 ELSE IF Next0(root, va) = NoFrame THEN 1 ELSE 0

Addresses == 0 .. TRAMPOLINE
MappedPages(root) == {va \in Addresses : Pte(root, va).pa # NoFrame}

\* kalloc(), memset() or memmove(), and mappages(): walk() makes the page-table
\* pages that are missing.
NewPage(root, va, contents, perm) ==
  LET pte == [pa |-> Frame1, perm |-> perm] IN
  /\ \/ /\ Missing(root, va) = 0 /\ FreeFrames(1) /\ free' = free \ {Frame1}
        /\ ram' = [ram EXCEPT ![Frame1] = contents,
                              ![Next0(root, va)].table[PX(0, va)] = pte]
     \/ /\ Missing(root, va) = 1 /\ FreeFrames(2) /\ free' = free \ {Frame1, Frame2}
        /\ ram' = [ram EXCEPT ![Frame1] = contents,
                              ![Next1(root, va)].table[PX(1, va)] = Pointer(Frame2),
                              ![Frame2] = Table(PX(0, va), pte)]
     \/ /\ Missing(root, va) = 2 /\ FreeFrames(3)
        /\ free' = free \ {Frame1, Frame2, Frame3}
        /\ ram' = [ram EXCEPT ![Frame1] = contents,
                              ![root].table[PX(2, va)] = Pointer(Frame2),
                              ![Frame2] = Table(PX(1, va), Pointer(Frame3)),
                              ![Frame3] = Table(PX(0, va), pte)]
  /\ panic' = (Pte(root, va).pa # NoFrame)

NoRoom(root, va) == ~ FreeFrames(1 + Missing(root, va))

PGROUNDUP(n) == ((n + PGSIZE - 1) \div PGSIZE) * PGSIZE
PagesOf(n) == PGROUNDUP(n) \div PGSIZE
PagesFrom(oldsz, newsz) == PagesOf(oldsz) .. PagesOf(newsz) - 1

\* What exec() does not refuse for its header: segments that begin at a page and have no
\* more in the file than in memory; two pages for the stack follow.
ASSUME BinariesAssumption ==
  \A program \in Binaries :
    /\ program \in Seq(Range(program))
    /\ \A s \in Range(program) :
         /\ {s.vaddr, s.memsz, s.filesz} \subseteq Nat /\ s.filesz <= s.memsz
         /\ s.vaddr % PGSIZE = 0 /\ PagesOf(s.vaddr + s.memsz) + 2 <= PageLimit

FramesAt(root, K) == {Pte(root, k).pa : k \in K}

\* uvmunmap() of the pages K, which are freed.
Unmapped(root, K) ==
  [f \in Frames |->
     IF f \in FramesAt(root, K) THEN Junk
     ELSE IF f \in {Next0(root, k) : k \in K}
       THEN [table |-> [e \in Entries |->
               IF \E k \in K : Next0(root, k) = f /\ PX(0, k) = e
                 THEN NoPte ELSE ram[f].table[e]]]
     ELSE ram[f]]

\* The page-table pages that freewalk() frees.
Tables(root) ==
  ({root} \cup {Next1(root, va) : va \in Addresses} \cup {Next0(root, va) : va \in Addresses})
  \ {NoFrame}

\* proc_freepagetable(): it takes back the pages of size bytes; a page that is not
\* mapped, or one that is left over, makes the kernel panic.
SpaceFrames(root, size) == Tables(root) \cup FramesAt(root, PagesFrom(0, size))
SpaceSound(root, size) == MappedPages(root) = PagesFrom(0, size) \cup {TRAMPOLINE, TRAPFRAME}

Kfree(F) == /\ ram' = [f \in Frames |-> IF f \in F THEN Junk ELSE ram[f]]
            /\ free' = free \cup F

\* proc_pagetable() takes three frames: the root, and two for TRAMPOLINE and TRAPFRAME.
SpaceTables(m, root, middle, lowest, tf) ==
  [m EXCEPT ![root] = Table(PX(2, TRAMPOLINE), Pointer(middle)),
            ![middle] = Table(PX(1, TRAMPOLINE), Pointer(lowest)),
            ![lowest] = [table |-> [e \in Entries |->
              CASE e = PX(0, TRAMPOLINE) -> [pa |-> Trampoline, perm |-> {"R", "X"}]
                [] e = PX(0, TRAPFRAME) -> [pa |-> tf, perm |-> {"R", "W"}]
                [] OTHER -> NoPte]]]

IsMapped(root, k) == Pte(root, k).pa # NoFrame \* mutant: copyout() that does not check PTE_U

\* walkaddr(), copyout() of v to the pages K: it stops at one that is not the user's.
IsUser(root, k) == "U" \in Pte(root, k).perm
Reached(root, K) == {k \in K : \A j \in K : j <= k => IsUser(root, j)}
Copyout(root, K, v) ==
  [f \in Frames |-> IF f \in FramesAt(root, Reached(root, K)) THEN Data(v) ELSE ram[f]]

-----------------------------------------------------------------------------
(***************************************************************************)
(* Processes and their calls                                               *)
(***************************************************************************)
\* kinit() leaves n frames, the kernel has the others; userinit() makes the first
\* process: its trapframe, its page tables and a page of text.
MemInit ==
  /\ \E n \in BootFree :
       /\ free = 8 .. n
       /\ ram = [SpaceTables([f \in Frames |-> IF f <= n THEN Junk ELSE Data("kernel")],
                             2, 3, 4, 1)
                 EXCEPT ![2].table[0] = Pointer(6), ![6] = Table(0, Pointer(7)),
                        ![7] = Table(0, [pa |-> 5, perm |-> {"R", "W", "X", "U"}]),
                        ![5] = Data("text")]
  /\ state = [p \in Procs |-> IF p = 1 THEN "runnable" ELSE "unused"]
  /\ parent = [p \in Procs |-> 0] /\ sz = [p \in Procs |-> IF p = 1 THEN PGSIZE ELSE 0]
  /\ pagetable = [p \in Procs |-> IF p = 1 THEN 2 ELSE NoFrame]
  /\ trapframe = [p \in Procs |-> IF p = 1 THEN 1 ELSE NoFrame]
  /\ panic = FALSE /\ pc = [p \in Procs |-> "user"] /\ loc = [p \in Procs |-> NoCall]
  /\ calls = 0

Goto(p, s) == pc' = [pc EXCEPT ![p] = s]

\* A process in user space makes a call; the call returns.
Calls(p) == state[p] = "runnable" /\ pc[p] = "user" /\ calls < MaxCalls /\ calls' = calls + 1
Returns(p) == Goto(p, "user") /\ loc' = [loc EXCEPT ![p] = NoCall]

\* uvmalloc() begins for a call with locals l; the call goes on at s.
Uvmalloc(p, l, oldsz, newsz, perm, s) ==
  /\ loc' = [loc EXCEPT ![p] = [l EXCEPT !.at = PagesOf(oldsz), !.old = PagesOf(oldsz),
               !.new = IF newsz < oldsz THEN oldsz ELSE newsz, !.perm = perm, !.then = s]]
  /\ Goto(p, IF PagesOf(oldsz) * PGSIZE >= newsz THEN s ELSE "uvmalloc")

UvmallocPage(p) ==
  /\ pc[p] = "uvmalloc"
  /\ NewPage(loc[p].root, loc[p].at, Zero, {"R", "U"} \cup loc[p].perm)
  /\ loc' = [loc EXCEPT ![p].at = @ + 1]
  /\ Goto(p, IF (loc[p].at + 1) * PGSIZE >= loc[p].new THEN loc[p].then ELSE "uvmalloc")
  /\ UNCHANGED <<procs, calls>>

\* Mutant: uvmalloc() without its uvmdealloc().
UvmallocStops(p) ==
  /\ pc[p] = "uvmalloc" /\ NoRoom(loc[p].root, loc[p].at)
  /\ loc' = [loc EXCEPT ![p].new = 0] /\ Goto(p, loc[p].then)
  /\ UNCHANGED <<memory, procs, calls>>

\* Without a frame the pages that uvmalloc() has made go back and it returns 0; a
\* page-table page that walk() has made stays.
UvmallocFails(p) ==
  /\ pc[p] = "uvmalloc" /\ NoRoom(loc[p].root, loc[p].at)
  /\ \E root \in {loc[p].root}, K \in {loc[p].old .. loc[p].at - 1} :
       \/ /\ Missing(root, loc[p].at) = 2 /\ FreeFrames(2)
          /\ free' = (free \ {Frame2}) \cup FramesAt(root, K)
          /\ ram' = [Unmapped(root, K) EXCEPT
                       ![root].table[PX(2, loc[p].at)] = Pointer(Frame2),
                       ![Frame2] = [table |-> [e \in Entries |-> NoPte]]]
       \/ /\ ~ (Missing(root, loc[p].at) = 2 /\ FreeFrames(2))
          /\ free' = free \cup FramesAt(root, K) /\ ram' = Unmapped(root, K)
  /\ loc' = [loc EXCEPT ![p].new = 0] /\ Goto(p, loc[p].then)
  /\ UNCHANGED <<panic, procs, calls>>

\* sbrk(): growproc().  Below zero, sz + n is a huge uint64 and nothing happens.
Sbrk(p, n) ==
  /\ Calls(p) /\ PagesOf(sz[p] + n) <= PageLimit
  /\ \/ /\ n > 0
        /\ Uvmalloc(p, [NoCall EXCEPT !.root = pagetable[p]], sz[p], sz[p] + n, {"W"}, "sbrk")
        /\ UNCHANGED <<memory, sz>>
     \/ /\ n < 0 /\ sz[p] + n >= 0
        /\ \E K \in {PagesFrom(sz[p] + n, sz[p])} :
             /\ ram' = Unmapped(pagetable[p], K) /\ free' = free \cup FramesAt(pagetable[p], K)
        /\ sz' = [sz EXCEPT ![p] = @ + n]
        /\ UNCHANGED <<panic, pc, loc>>
     \/ /\ n < 0 /\ sz[p] + n < 0
        /\ UNCHANGED <<memory, sz, pc, loc>>
  /\ UNCHANGED <<state, parent, pagetable, trapframe>>

SbrkReturns(p) ==
  /\ pc[p] = "sbrk"
  /\ sz' = [sz EXCEPT ![p] = IF loc[p].new = 0 THEN @ ELSE loc[p].new]
  /\ Returns(p)
  /\ UNCHANGED <<memory, state, parent, pagetable, trapframe, calls>>

-----------------------------------------------------------------------------
Unused(p) ==
  /\ state' = [state EXCEPT ![p] = "unused"] /\ parent' = [parent EXCEPT ![p] = 0]
  /\ sz' = [sz EXCEPT ![p] = 0] /\ pagetable' = [pagetable EXCEPT ![p] = NoFrame]
  /\ trapframe' = [trapframe EXCEPT ![p] = NoFrame]

Slots == {q \in Procs : state[q] = "unused"}

\* fork(): allocproc() finds a slot and takes a trapframe and page tables; if it
\* cannot, it has given back what it took.
Fork(p) ==
  /\ Calls(p)
  /\ \/ /\ Slots = {} \/ ~ FreeFrames(4)
        /\ UNCHANGED <<memory, procs, pc, loc>>
     \/ /\ Slots # {} /\ FreeFrames(4)
        /\ free' = free \ {Frame1, Frame2, Frame3, Frame4}
        /\ ram' = SpaceTables(ram, Frame2, Frame3, Frame4, Frame1)
        /\ state' = [state EXCEPT ![Min(Slots)] = "used"]
        /\ pagetable' = [pagetable EXCEPT ![Min(Slots)] = Frame2]
        /\ trapframe' = [trapframe EXCEPT ![Min(Slots)] = Frame1]
        /\ Goto(p, "copy")
        /\ loc' = [loc EXCEPT ![p] = [NoCall EXCEPT !.np = Min(Slots)]]
        /\ UNCHANGED <<panic, parent, sz>>

\* A page of uvmcopy().
CopyPage(p) ==
  /\ pc[p] = "copy" /\ loc[p].at * PGSIZE < sz[p]
  /\ \E pte \in {Pte(pagetable[p], loc[p].at)} :
       NewPage(pagetable[loc[p].np], loc[p].at, ram[pte.pa], pte.perm)
  /\ loc' = [loc EXCEPT ![p].at = @ + 1]
  /\ UNCHANGED <<procs, pc, calls>>

\* Mutant: uvmcopy() that unmaps the pages and does not free them.
CopyLoses(p) ==
  /\ pc[p] = "copy" /\ loc[p].at * PGSIZE < sz[p]
  /\ \E q \in {loc[p].np} :
       /\ NoRoom(pagetable[q], loc[p].at)
       /\ Kfree(Tables(pagetable[q]) \cup {trapframe[q]})
       /\ panic' = panic /\ Unused(q)
  /\ Returns(p)
  /\ UNCHANGED calls

\* Without memory for a page uvmcopy() gives back those it has copied, and freeproc()
\* the rest of the child, whose sz is 0.
CopyFails(p) ==
  /\ pc[p] = "copy" /\ loc[p].at * PGSIZE < sz[p]
  /\ \E q \in {loc[p].np} :
       /\ NoRoom(pagetable[q], loc[p].at)
       /\ Kfree(FramesAt(pagetable[q], 0 .. loc[p].at - 1)
                \cup Tables(pagetable[q]) \cup {trapframe[q]})
       /\ panic' = (MappedPages(pagetable[q]) # 0 .. loc[p].at - 1 \cup {TRAMPOLINE, TRAPFRAME})
       /\ Unused(q)
  /\ Returns(p)
  /\ UNCHANGED calls

ForkReturns(p) ==
  /\ pc[p] = "copy" /\ loc[p].at * PGSIZE >= sz[p]
  /\ sz' = [sz EXCEPT ![loc[p].np] = sz[p]]
  /\ parent' = [parent EXCEPT ![loc[p].np] = p]
  /\ state' = [state EXCEPT ![loc[p].np] = "runnable"]
  /\ Returns(p)
  /\ UNCHANGED <<memory, pagetable, trapframe, calls>>

ExitProcess(p) ==
  /\ Calls(p) /\ p # 1
  /\ state' = [state EXCEPT ![p] = "zombie"]
  /\ parent' = [q \in Procs |-> IF parent[q] = p THEN 1 ELSE parent[q]]
  /\ UNCHANGED <<memory, sz, pagetable, trapframe, pc, loc>>

\* wait(): the status of a child is copied out to page k of the parent, or not if
\* it passes no address; if that fails the child stays.
Wait(p, c, k) ==
  /\ Calls(p) /\ state[c] = "zombie" /\ parent[c] = p
  /\ \/ /\ IsUser(pagetable[p], k)
        /\ ram' = Copyout(pagetable[p], {k}, "status")
        /\ Goto(p, "reap") /\ loc' = [loc EXCEPT ![p].np = c]
     \/ ~ IsUser(pagetable[p], k) /\ UNCHANGED <<ram, pc, loc>>
     \/ /\ Goto(p, "reap") /\ loc' = [loc EXCEPT ![p].np = c]
        /\ UNCHANGED ram
  /\ UNCHANGED <<free, panic, procs>>

\* freeproc().
Reap(p) ==
  /\ pc[p] = "reap"
  /\ \E c \in {loc[p].np} :
       /\ Kfree(SpaceFrames(pagetable[c], sz[c]) \cup {trapframe[c]})
       /\ panic' = ~ SpaceSound(pagetable[c], sz[c])
       /\ Unused(c)
  /\ Returns(p)
  /\ UNCHANGED calls

-----------------------------------------------------------------------------
(***************************************************************************)
(* exec().  A program is a sequence of segments [vaddr, memsz, filesz,     *)
(* perm, sound]; a segment that is not sound has a file that is too short. *)
(***************************************************************************)
Exec(p, program) ==
  /\ Calls(p)
  /\ Goto(p, "argv") /\ loc' = [loc EXCEPT ![p] = [NoCall EXCEPT !.segs = program]]
  /\ UNCHANGED <<memory, procs>>

\* The call fails: the new page table, of size bytes, and the arguments' frames go back.
Bad(p, size) ==
  /\ IF loc[p].root = NoFrame THEN Kfree(loc[p].argv) /\ UNCHANGED panic
     ELSE /\ Kfree(SpaceFrames(loc[p].root, size) \cup loc[p].argv)
          /\ panic' = ~ SpaceSound(loc[p].root, size)
  /\ Returns(p)

\* sys_exec() copies an argument into a frame.  The pointers and the strings are the
\* process's and may be wrong, the frames may run out and the arguments be too many.
FetchArg(p) ==
  /\ pc[p] = "argv"
  /\ \/ Bad(p, 0)
     \/ /\ Cardinality(loc[p].argv) < MAXARG /\ FreeFrames(1)
        /\ ram' = [ram EXCEPT ![Frame1] = Data("args")] /\ free' = free \ {Frame1}
        /\ loc' = [loc EXCEPT ![p].argv = @ \cup {Frame1}]
        /\ UNCHANGED <<panic, pc>>
     \/ /\ Cardinality(loc[p].argv) < MAXARG
        /\ Goto(p, "open") /\ UNCHANGED <<memory, loc>>
  /\ UNCHANGED <<procs, calls>>

\* namei() and the ELF header, which may fail, and the new page table.
Open(p) ==
  /\ pc[p] = "open"
  /\ \/ Bad(p, 0)
     \/ /\ FreeFrames(3) /\ free' = free \ {Frame1, Frame2, Frame3}
        /\ ram' = SpaceTables(ram, Frame1, Frame2, Frame3, trapframe[p])
        /\ loc' = [loc EXCEPT ![p].root = Frame1]
        /\ Goto(p, "segment")
        /\ UNCHANGED panic
  /\ UNCHANGED <<procs, calls>>

\* The next segment's pages; after the last the guard page and the stack.  A program
\* header may be one that exec() refuses.
Segment(p) ==
  /\ pc[p] = "segment"
  /\ \/ /\ loc[p].segs # <<>> /\ Bad(p, loc[p].size)
     \/ /\ loc[p].segs # <<>>
        /\ Uvmalloc(p, loc[p], loc[p].size, Head(loc[p].segs).vaddr + Head(loc[p].segs).memsz,
                    Head(loc[p].segs).perm, "load")
        /\ UNCHANGED memory
     \/ /\ loc[p].segs = <<>>
        /\ Uvmalloc(p, [loc[p] EXCEPT !.size = PGROUNDUP(@)], PGROUNDUP(loc[p].size),
                    PGROUNDUP(loc[p].size) + 2 * PGSIZE, {"W"}, "stack")
        /\ UNCHANGED memory
  /\ UNCHANGED <<procs, calls>>

\* uvmalloc() has failed, or loadseg() reads the segment from the file.
Load(p) ==
  /\ pc[p] = "load"
  /\ \/ loc[p].new = 0 /\ Bad(p, loc[p].size)
     \/ loc[p].new # 0 /\ ~ Head(loc[p].segs).sound /\ Bad(p, loc[p].new)
     \/ /\ loc[p].new # 0 /\ Head(loc[p].segs).sound
        /\ \E K \in {{Head(loc[p].segs).vaddr \div PGSIZE + k :
                        k \in 0 .. PagesOf(Head(loc[p].segs).filesz) - 1}} :
             /\ ram' = Copyout(loc[p].root, K, "text")
             /\ panic' = \E k \in K : ~ IsUser(loc[p].root, k)
        /\ loc' = [loc EXCEPT ![p].size = loc[p].new, ![p].segs = Tail(@)]
        /\ Goto(p, "segment")
        /\ UNCHANGED free
  /\ UNCHANGED <<procs, calls>>

\* The arguments do not fit the stack, or there was no memory for it.
CommitFails(p) ==
  /\ pc[p] = "stack" /\ Bad(p, IF loc[p].new = 0 THEN loc[p].size ELSE loc[p].new)
  /\ UNCHANGED <<procs, calls>>

\* uvmclear() of the page below the stack, copyout() of the arguments, and the process
\* has its new image; the old one is freed.
Commit(p) ==
  /\ pc[p] = "stack" /\ loc[p].new # 0
  /\ \E guard \in {loc[p].new \div PGSIZE - 2}, root \in {loc[p].root},
        F \in {SpaceFrames(pagetable[p], sz[p]) \cup loc[p].argv} :
       /\ ram' = [f \in Frames |->
                    IF f \in F THEN Junk ELSE
                      [Copyout(root, {guard + 1}, "args") EXCEPT
                         ![Next0(root, guard)].table[PX(0, guard)].perm = @ \ {"U"}][f]]
       /\ free' = free \cup F
       /\ panic' = ~ SpaceSound(pagetable[p], sz[p])
  /\ sz' = [sz EXCEPT ![p] = loc[p].new] /\ pagetable' = [pagetable EXCEPT ![p] = loc[p].root]
  /\ Returns(p)
  /\ UNCHANGED <<state, parent, trapframe, calls>>

-----------------------------------------------------------------------------
\* A store of the process itself; elsewhere it traps and is killed.
Store(p, k, v) ==
  /\ Calls(p) /\ {"U", "W"} \subseteq Pte(pagetable[p], k).perm
  /\ ram' = [ram EXCEPT ![Pte(pagetable[p], k).pa] = Data(v)]
  /\ UNCHANGED <<free, panic, procs, pc, loc>>

\* read(), pipe() or fstat(): copyout() to the pages from j to k.
Read(p, j, k, v) ==
  /\ Calls(p)
  /\ ram' = Copyout(pagetable[p], j .. k, v)
  /\ UNCHANGED <<free, panic, procs, pc, loc>>

PageNumbers == 0 .. PageLimit - 1

UserStep(p) ==
  \/ \E n \in Increments : Sbrk(p, n)
  \/ Fork(p) \/ ExitProcess(p)
  \/ \E c \in Procs, k \in PageNumbers : Wait(p, c, k)
  \/ \E program \in Binaries : Exec(p, program)
  \/ \E k \in PageNumbers, v \in Values : Store(p, k, v) \/ Read(p, k, k + 1, v)

KernelStep(p) ==
  \/ UvmallocPage(p) \/ UvmallocFails(p) \/ SbrkReturns(p)
  \/ CopyPage(p) \/ CopyFails(p) \/ ForkReturns(p) \/ Reap(p)
  \/ FetchArg(p) \/ Open(p) \/ Segment(p) \/ Load(p) \/ Commit(p) \/ CommitFails(p)

MemNext == ~ panic /\ \E p \in Procs : UserStep(p) \/ KernelStep(p)

MemSpec == MemInit /\ [][MemNext]_memVars

-----------------------------------------------------------------------------
(***************************************************************************)
(* Properties                                                              *)
(***************************************************************************)
\* The page tables in use: the processes' and those exec() is building.
Roots == ({pagetable[p] : p \in Procs} \cup {loc[p].root : p \in Procs}) \ {NoFrame}

\* Every place that refers to a frame: two places, two uses.
Leaves(root) == {va \in Addresses \ {TRAMPOLINE, TRAPFRAME} : Pte(root, va).pa # NoFrame}
Uses ==
  {<<f, "free", f>> : f \in free}
  \cup {<<root, "root", root>> : root \in Roots}
  \cup (UNION {{<<f, "table", root>> : f \in Tables(root) \ {root}} : root \in Roots})
  \cup (UNION {{<<Pte(root, va).pa, root, va>> : va \in Leaves(root)} : root \in Roots})
  \cup {<<trapframe[p], "trapframe", p>> : p \in {q \in Procs : trapframe[q] # NoFrame}}
  \cup (UNION {{<<f, "argument", p>> : f \in loc[p].argv} : p \in Procs})

\* Every frame the kernel manages is free or has one use, in one page table or as one
\* process's trapframe or argument: none is lost on any way out of a call that fails
\* half way, and none is given back twice or mapped by two processes.
FramesOwnedOnce ==
  \E uses \in {Uses} :
    /\ {u[1] : u \in uses} = {f \in Frames : ram[f] # Data("kernel")}
    /\ Cardinality(uses) = Cardinality({u[1] : u \in uses})

\* In user space a process has the pages of its size and no others, after every call
\* that failed too; and vm.c never meets a mapping it panics at.
SizeIsMapped ==
  /\ ~ panic
  /\ \A p \in Procs : state[p] = "runnable" /\ pc[p] = "user" => SpaceSound(pagetable[p], sz[p])

\* The image exec() makes of a program, from its segments alone: up to the last end of a
\* segment a page has text if a segment has some of its file there, and the first segment
\* that ends after it says how it may be used; a page without access and the stack follow.
End(s) == s.vaddr + s.memsz
Extent(program) == Max({0} \cup {End(s) : s \in Range(program)})
Covers(s, k) == PagesOf(End(s)) >= k
Owner(program, k) == Min({j \in DOMAIN program : Covers(program[j], k)})
HasFile(s, k) == s.filesz > 0 /\ k * PGSIZE > s.vaddr /\ (k - 1) * PGSIZE < s.vaddr + s.filesz
Guard == [data |-> "zero", perm |-> {"R", "W"}]
Stack == [data |-> "args", perm |-> {"R", "W", "U"}]
Image(program) ==
  [k \in 1 .. PagesOf(Extent(program)) |->
     [data |-> IF \E s \in Range(program) : HasFile(s, k) THEN "text" ELSE "zero",
      perm |-> {"R", "U"} \cup program[Owner(program, k)].perm]]
  \o <<Guard, Stack>>

NoSpace == <<[data |-> "none", perm |-> {}]>>

\* What a process finds in its memory, from the bottom.
AddressSpace(p) ==
  IF state[p] \notin {"runnable", "zombie"} THEN NoSpace
  ELSE [k \in 1 .. PagesOf(sz[p]) |->
          [data |-> ram[Pte(pagetable[p], k - 1).pa].data, perm |-> Pte(pagetable[p], k - 1).perm]]

\* Each process has a memory of its own: fork() copies what the parent had when it
\* called, exec() gives the image of the program or leaves all as it was, sbrk() adds
\* zero pages, and nobody's memory changes by what another process does, although the
\* frames they use were others' before.
A == INSTANCE AddressSpaces
       WITH MaxPages <- PageLimit, Images <- {Image(program) : program \in Binaries},
            Values <- Values \cup {"status"}, NoSpace <- NoSpace,
            First <- <<[data |-> "text", perm |-> {"R", "W", "X", "U"}]>>,
            space <- [p \in Procs |-> AddressSpace(p)]

IsAddressSpaces == A!Spec
=============================================================================
