# Models of the CS3500 lab programs

This directory holds TLA+ models of the programs of this repository, the TLC
configurations that check them on small instances, and proofs that the TLA+
proof system checks for every size. The repository has two kinds of program: a
handful of self-contained programs written for the labs (a producer/consumer
program with condition variables, a paging simulator, two scheduler simulators, a
few thread exercises), and the xv6 kernel that the later labs modify.

Every definition that models code is mapped to its lines in `PROJECT.json`. The
kernel exists twice in the repository, in `xv6 Labs/Set 1/lab5` and `xv6 Labs/Set
2/lab5`; the two copies are the same byte for byte. The modules of the kernel's parts
are mapped to the first, the system calls (`SystemCalls`, and a few definitions of
`XvMem` that stand for code a process sees) to the second.

## 1. The system

### 1.1 Lab programs

| Program | State | Operations | What is hard about it |
|---|---|---|---|
| `Thread Scheduling/submission/part1/code3.c` | a ring with two indices and a counter, a mutex, the condition variable `not_empty`, the flag `no_more_items` | threads that produce and consume; `main` joins the producers, sets the flag, joins the consumers | producers that find the ring full give up for good; one signal per item; wakeups may be spurious; the flag is set without a signal |
| `PageTable/Paging_Code/paging.cpp` | frames of two memories with free flags and counters, two page tables per process, flags that say which memory it is in, the LRU set, the clock | the commands of a script: load, run, kill, swapin, swapout, exit | swapping in evicts others in a loop over a set the loop body changes; a swap can fail half way; the free counters are kept by hand |
| `MLFQ/Part A/.../mlfq_naive.cpp` | four queues of copies of processes, and the table of processes | one tick: insert, choose, run, age, reorder | the copies and the table must agree; ties within one tick |
| `MLFQ/Part B/mlfq.py` | queues, jobs, pending I/O | one tick: boost, I/O done, run, I/O start, end of quantum | several of these on one tick |
| `code1.c`, `code2.c`, `code.c`, `newcode.c` | the ring and its counter | drafts of `code3.c` that poll | shared variables read outside the lock |
| `main_signal.c`, `main_signal_cv.c`, `thread1.c`, `thread2.c` | one flag or counter | two threads | a data race, a home-made spin-lock |
| `xv6 Labs/Set 2/lab6/.../part2.c` | a linked list with a lock | insert, look up | the head is read before the lock is taken |
| `xv6 Labs/Set 2/lab3` | `readcount` | `read()`, `getreadcount()` | an unlocked counter in a kernel with several CPUs |

### 1.2 The kernel

    user processes
       |  system calls (trap.c, syscall.c, sysproc.c, sysfile.c)
       v
    +-----------------------+  +--------------------------------------------+
    | proc.c                |  | file.c: open files        pipe.c           |
    |  fork exit wait kill  |  | fs.c: inodes, directories  console.c uart.c|
    |  scheduler            |  | log.c: transactions                        |
    |  sleep / wakeup  <----+--| bio.c: buffers                             |
    +-----------------------+  | virtio_disk.c                              |
    | vm.c kalloc.c exec.c  |  +--------------------------------------------+
    +-----------------------+      ^ interrupts: UART, disk, timer (trap.c)

Components meet in three ways: they call each other downwards; they share memory
under spin-locks and sleep-locks; and they wait for each other with `sleep()` and
`wakeup()` on a channel. Interrupts enter at the bottom and wake what sleeps above.

| Component | State | Operations | What makes it correct |
|---|---|---|---|
| processes, `proc.c` | process table, `p->lock`, `wait_lock`, `c->proc` | fork, exit, wait, kill, yield, sleep, wakeup, scheduler | one CPU per kernel stack; no wakeup of a parent is lost; every process has a parent that can wait for it |
| log, `log.c` over `bio.c` | log header in memory and on disk, count of operations inside, buffers | begin_op, log_write, end_op, commit, recovery | operations reach the disk all together or not at all, whatever write the machine stops after; no operation is kept out for ever |
| file system, `fs.c`, `file.c`, `sysfile.c` | inodes on disk and in `itable`, bitmap, directories, open files, current directories | open, mkdir, mknod, link, unlink, chdir, dup, read, write, close | a crash leaves a sound file system; blocks have one owner; references are counted exactly; no deadlock |
| pipes, `pipe.c` | the ring with its two counters, the two open flags | write, read, close | a bounded queue of bytes with an end; nobody sleeps for ever; the page is freed after its last use |
| console, `console.c`, `uart.c` | the input ring with three counters, the output ring with two | read, write, the interrupt, echo and line editing | line-edited input, output in order, nothing left behind |
| disk driver, buffers, `virtio_disk.c`, `bio.c`, `sleeplock.c` | buffers in the order of their use, descriptors, two rings shared with the device | bread, bwrite, brelse, the interrupt | a block is read as it was last written; the completion a process sees is that of its own request; no sleeper is forgotten |
| memory, `vm.c`, `kalloc.c`, `exec.c` | free list, page tables | grow, copy, free, exec | frames are given back exactly once, on every failure too |
| system calls, `sysfile.c`, `sysproc.c` | all of the above | the calls a program makes | a call that fails leaves everything as it was; nobody waits for ever; what is counted is never exceeded |
| programs of `user/` | their variables, open files, children | `sh`, `init`, the commands, `usertests`, `stressfs`, `grind` | each gets the answers it insists on, in every order of the steps |
| traps and boot | registers, the table of system calls | dispatch | |

## 2. Modules

    ProdConsCV  <- MCProdConsCV          code3.c
        ^-------- Queues_proofs
    Paging      <- MCPaging              paging.cpp
        ^-------- Memory_proofs
    Arrangements                         queues made by sorting and by leaving out
        ^ used by  MlfqNaive, Mlfq <- MCMlfq     mlfq_naive.cpp, mlfq.py
                            ^------ Queues_proofs
    XvProc      <- MCXvProc              proc.c, spinlock.c
        ^-------- XvKernel_proofs
    AtomicDisk                           what the log promises
        ^ implemented by  XvLog <- MCXvLog      log.c, bio.c
        |                   ^------ XvKernel_proofs
        ^ used by         XvFs  <- MCXvFs       fs.c, file.c, sysfile.c
                            ^------ XvFsLemmas <- XvFs_proofs
    ByteQueue                            what a ring of bytes promises
        ^ implemented by  XvPipe <- MCXvPipe    pipe.c
        |                   ^------ Queues_proofs  -> RingLemmas
        ^ implemented by  XvConsole             uart.c, the output ring
    LineInput                            what line editing promises
        ^ implemented by  XvConsole <- MCXvConsole   console.c, the input ring
                            ^------ XvDevices_proofs  -> RingLemmas
    BlockStore                           what the buffer cache promises
        ^ implemented by  XvDisk <- MCXvDisk    bio.c, sleeplock.c, virtio_disk.c
                            ^------ XvDevices_proofs
    AddressSpaces                        what a process may count on in its memory
        ^ implemented by  XvMem <- MCXvMem      vm.c, kalloc.c, exec.c, proc.c
                            ^------ Memory_proofs <- XvMem_proofs
    UserCode                             how a program is written as the calls it makes
        ^ used by  UserTests  usertests.c;  UserLand  sh.c, init.c, grind.c, ...
        ^ run by   SystemCalls <- MCSystemCalls (with both)   the calls themselves

`AtomicDisk` joins two layers: a run shows that the log implements it, and the file
system is modelled on top of it (`D!Begin`, `D!End`, `D!Commit`, `D!Crash`), so
that what `XvFs` shows of crashes rests on what `XvLog` shows of the log.

In every module a thread's program counter is `pc`, with one value for each point
where another thread can come in; an action is the code from one such point to the
next. Spin-lock sections whose lock nobody else can observe are one action. `sleep()`
gives up the lock and sets the process asleep in one step, because it takes
`p->lock` before it releases the caller's (that this is right is one of the things
`XvProc` checks, where the two locks are separate), and `wakeup()` makes every
sleeper on the channel go for the lock again.

### 2.1 ProdConsCV: `code3.c`

State: the ring with `in_idx`, `out_idx` and `counter`; the owner of the mutex;
the set `notEmpty` of threads blocked in `pthread_cond_wait`; `no_more_items`; and
`produced` and `consumed`, the lines the program prints. `put()` and `get()` are
actions of their own although they run under the mutex, so that the mutex gives
exclusion, not the model. A blocked consumer may wake without a signal
(`SpuriousWakeup`), as POSIX allows. `ConsumptionLimit` is the C expression with
its truncation to a whole number of items (whole numbers give what the `double` gives).
Items stand for random numbers: the pair of a producer and its
iteration. Left out: `sleep()` between items, the wording of the output, and the
condition variable `not_full`, which nothing waits on.

### 2.2 Paging: `paging.cpp`

The program is sequential. A command is one action unless it calls
`swap_in_process()` or `swap_out_process()`: then each eviction, each failed
eviction and each instruction of a running process is an action, with `at`, `cur`,
`victim`, `it` and `ip` for the locals. The range-`for` over `LRU_SET` is modelled
with its iterator: `remove_set()` erases an element inside the loop, and if it is
the one the iterator stands on, advancing it is undefined; the model lets it go to
any element, end the loop or crash. Addresses stand for pages and a page holds one
word. `listpr`, `pte`, `pteall` and `print` only read and are left out.

### 2.3 XvProc: `proc.c`, `spinlock.c`

A CPU is on its scheduler's stack or on that of a process (`on`), and `p->lock` is
held by a CPU and handed over a `swtch()` from one stack to another. `fork()`,
`exit()`, `wait()` and `kill()` take their locks one by one as the code does;
`wakeup()` walks the table one `p->lock` at a time. A process in user space may
make any call, or be preempted in the kernel. `kill(0)` finds an unused slot, as in
the code, whose unused slots have pid 0.

### 2.4 XvLog: `log.c` over `bio.c`

Disk: `home` (the blocks), `logData` and `head` (the log's blocks and its header).
Memory: the header `lh`, `outstanding`, `committing`, and per block its buffer with
`refcnt` and sleep-lock. Every disk write of `commit()`, of `install_trans()` and of
recovery is an action, and `Crash` may come between any two of them, twice in a
behaviour, so also in recovery. Reading and writing a block through the cache,
pinning by `log_write()` and recycling of unused buffers are modelled; which unused
buffer is recycled, and how many there are, is left open. `NLog`, the size of the
log on disk, is set by `mkfs`, which is not in the repository.

### 2.5 XvFs: `fs.c`, `file.c`, `sysfile.c`

A disk is a record of inodes and of the bitmap. Inodes have type, `nlink`, size in
blocks, block addresses and, for directories, a function from names to inode
numbers. In memory: `ref`, the copy of the inode (`valid`) and its sleep-lock. The
system calls are sequences of actions between two acquisitions of locks: path names
are walked one directory at a time with `namex()`'s `iget`, `ilock`, `iunlockput`;
`iput()` frees an inode in the steps in which it gives up and takes its locks.
Transactions come from `AtomicDisk`; with `Crash` the disk falls back to the last
commit and memory is lost. Calls come from a set of path names chosen so that
they meet: create, link, unlink, mkdir and chdir of the same names, `..` of a
directory that is being removed, a full disk, a full directory, a full file table.
`bmap()` has `NDIRECT` addresses in the inode and an indirect block, whose own block is
allocated before the block of data, so that it may be allocated and the data not; files and
directories end at `MAXFILE` blocks. `iget()` panics when `NINODE` inodes are in use: the
kernel is built with `NINODE` 50 and `NFILE` 100, so that open files of four processes are
enough for it. `open()` of a device may be refused for its major number, which the model
does not know. Left out: the contents of files, `fork()`'s sharing of open files, `fstat`
and `exec`. The disk that
`mkfs` makes is `Image`: any tree with counted links and blocks that have one owner, in
which no directory is below itself. `strayed` is a history variable: it turns true when a
path leads through the `..` of a directory that has no name any more, and stays true over
crashes, for what comes of it may be on the disk (see 3.3).

### 2.6 XvPipe: `pipe.c`

The ring with `nread` and `nwrite`, which wrap at `Wrap` as `uint` does at 2^32
(`Wrap` is a multiple of `PIPESIZE`, as 2^32 is of 512); the open flags; the
processes that hold each end, which is `f->ref` of its two files. Every turn of the
loops in `pipewrite()` and `piperead()` is an action with `pi->lock` held. `kill()`
needs no lock of the pipe and may come between any two of them; `copyin()` and
`copyout()` may fail at any byte.

### 2.7 XvConsole: `console.c`, `uart.c`

Input ring with `r`, `w` and `e`, output ring with its two counters, all wrapping at
`Span`. Actors are the processes that read and write and `Handler`, the CPU that serves
the interrupt; both run `uartstart()`. Keys are a letter, newline, `^D`, erase and kill
line. The device is modelled from how `uart.c` uses it: it takes a character, sends it,
raises its interrupt; it receives a key and raises its interrupt. The interrupt is a flag
that `plic_claim()` clears. `uartputc_sync()` tests the device and writes to it without
`uart_tx_lock`; the model takes test and write as one step because the device's FIFO,
switched on in `uartinit()`, keeps both characters if `uartstart()` comes between, and the
order of echo and output is not a property. Left out: `^P`, `printf()` and the state
`panicked`.

### 2.8 XvDisk: `bio.c`, `sleeplock.c`, `virtio_disk.c`

The buffers with their list, `refcnt` and sleep-lock; the descriptors, of which a
request takes three; the ring `avail`, written by the driver, and the ring `used`,
written by the device; `b->disk` is `onDisk`. A process is a caller that reads a
block with `bread()`, may write it with `bwrite()` several times, and lets it go. A
section with `bcache.lock`, with the lock inside a sleep-lock or with `vdisk_lock` is
an action up to its next `sleep()`; the interrupt handler alone keeps `vdisk_lock` over
several steps, because the device completes requests meanwhile. `kill()` wakes any
sleeper. The device is modelled from how the driver uses it: it takes requests from
`avail` in order, serves those it has in any order, adds them to `used` and raises its
interrupt. The indices wrap at `Wrap`, a multiple of `NUM`, as `uint16` does. There may be
fewer buffers than processes, as in the kernel (`NBUF` 30, `NPROC` 64): `bget()` that finds
none panics and keeps `bcache.lock`; the others go on until they need that lock, as the
other CPUs do until they come to `panicked`. Pinned buffers are in `XvLog`.

The abstract `BlockStore` has one process in a block at a time, which finds there what
was last written and leaves only when the disk has it. The contents of a block are
mapped to its valid buffer, or to the disk when it has none. `XvLog` takes a disk
access as one step and a block as read and written under its sleep-lock: that is what
this run shows.

### 2.9 XvMem: `vm.c`, `kalloc.c`, `exec.c` and the calls that use them

`ram` says what each frame holds: a page-table page, or data. Page tables are walked
as `walk()` does, on three levels of `FANOUT` entries. `fork()`, `exec()` and `sbrk()`
take their pages one by one, an action each, so that others take frames in between and
a call can fail at any page; what a call gives back it gives back in one action, since
nobody can tell a frame given back early from one given back late. The frames that
`allocproc()` and `proc_pagetable()` need are taken at once. Frames are alike, so the
free list is a set. A process has at most `PageLimit` pages, far from `TRAPFRAME`
(`PagesAssumption`: the kernel has 2^15 frames and 2^27 pages of addresses, so memory ends
first), and a program for `exec()` is any sequence of segments that its checks let pass and
that ends below that limit (`BinariesAssumption`). `copyout()` checks only that a page is the user's, as the code does,
and so writes into pages of text. `AddressSpaces` has no frames: it says what each
process finds in its memory.

### 2.10 SystemCalls, UserCode, UserTests, UserLand

`UserCode` is the language the programs of `user/` are written in here: a statement is a
system call with its arguments, the results the program takes for good, and what it does
in either case. `UserTests` has the tests of `usertests.c`, `UserLand` the shell with
its parser, `init`, the commands, `stressfs` and the cases of `grind`. `SystemCalls`
gives every call its meaning for a program: what it returns and what it leaves behind,
in inodes with names and contents, a table of open files, pipes, processes with memory
in pages, each with its limit. A call is one step, except a large write, which goes down
in pieces between which others come in, reads and writes of pipes, and `wait()`. For calls
with path names this is an assumption, which no module shows: two of them that run at the
same time can give answers that no order of single steps gives. What their interleavings do to
inodes, blocks and references is checked and proved in `XvFs`; what programs see of them is
not. A pid is a slot number (no program here uses a pid after its process was waited
for), a reader of the console waits for ever, a process needs `OVERHEAD` pages beside its
own, an argument or a word is one byte, `gets()` takes a line at once, and what programs
print for the user is left out. Loops of hundreds of rounds take a few: in the place of
luck, TLC tries every order. Cases 14 and 19 of `grind` fork once.

`UserLand` is the only module with `RECURSIVE` operators (the shell's parser), and no
theorem reaches it.

### 2.11 MlfqNaive and Mlfq

`MlfqNaive` has one action for each part of a tick of `main()`: insert, start, run, age,
reorder. The table of processes is kept in functions, and the queues hold copies with
the remaining time a process had when it was put in, as the code's vectors do. Process
numbers differ, a process has at least one tick to run, and the output is left out. `Arrangements` says
by counting what `std::sort` and leaving elements out make of a queue, so that it can be
proved about.
`Mlfq` has an action for each part of the loop of `mlfq.py`: boost, wake, and the three
ways a tick ends. `ioDone` is the code's dictionary of what is to come, as one sequence
in the order of entry. Statistics and the random job lists are left out; a list given
with `-l` may be any the constants allow, and they allow what the program accepts: jobs with
nothing to run, allotments and quanta of any sign. A job that has nothing to run when its turn
comes ends the program (`Abort`, 290-291: `mlfq.py -l 0,0,0 -c` does so on its first tick).

## 3. Runs

Passing runs finish with no error and fire every action of their modules.

| Run | Instance | Question |
|---|---|---|
| `cv` | 2 producers of 3 items, 2 consumers, ring of 3, spurious wakeups | Is the ring a queue; who owns the mutex; is a signal ever lost; does the program end when enough was made? |
| `paging` | 3 processes of 1 or 2 pages, 2 frames in each memory | Do counters, flags and page tables agree after every command and every failed eviction; does the eviction loop end? |
| `log` | 2 processes, 2 blocks, a log of 2, 7 calls, 2 crashes | Does the log implement `AtomicDisk`; does every `begin_op()` return? |
| `proc` | init and 3 processes on 2 CPUs, 3 calls of fork, kill, wait | Is a kernel stack ever used by two CPUs; is a wakeup of a parent ever lost? |
| `fs` | 2 processes, 5 inodes and 4 entries of `itable`, 6 blocks, 1 address in an inode and 1 in its indirect block, 3 calls, 1 crash | What does a crash leave; are blocks and references exact; what stops the kernel, and can it deadlock? |
| `pipe` | 2 processes, 2 bytes of ring, counters that wrap at 4, 3 calls, 1 kill | Is it a queue of bytes; does anybody sleep for ever; when is the page freed? |
| `disk` | 3 processes and a late one, 4 blocks, 3 buffers, descriptors for 2 requests, rings that wrap, 4 calls | Does the cache implement `BlockStore`, also when a buffer is missing; can a descriptor be taken for another request; is a sleeper ever forgotten? |
| `mem` | 3 processes, page tables of 2 entries on 3 levels, 13 or 24 free frames, 3 programs, 3 calls, at most 6 pages | Has every frame one owner on every way out of a call; has a process what the abstract specification gives it? |
| `calls` | 81 programs one at a time, each with its children, on 24 blocks, 12 inodes, 7 processes, 44 pages, 9 open files | Does each test, shell script and stress program get the answers it wants; can all be left waiting? |
| `mlfq` | up to 3 processes of 1 or 3 ticks, and up to 3 jobs of 0, 1 or 4 ticks with and without I/O and boosts | Do queues and tables agree; how long can a process wait; which `Abort()` is reached; does the simulation end? |
| `console` | 2 processes, rings of 2 that wrap at 4 and start just before it, 3 keys, 2 calls | Is input line-edited input and output a queue; is output ever left with nobody to send it? |

What the properties say is written above each of them in its module. The ones that
carry most:

- `FifoNoLoss`, `EndsIfFed` (code3.c): no item is lost or read twice; with enough items
  every schedule ends, so no signal is lost.
- `CountsMatch`, `FramesExclusive`, `MMConserved`, `WordsIsolated`, `CommandsReturn`
  (paging.cpp).
- `Atomicity` (log.c): the refinement of `AtomicDisk`, with the disk mapped to what
  recovery would make of it and the current contents to what a read would return.
  `Reserved` is the reason why the log never overflows, `Pinned` the reason why the
  cache never drops a block that is only in the log. `Reserved` does not rule out the panic
  of `log_write()`, which looks at the length of the log before it looks for the block: when
  the operations inside have used all they may and the log is exactly full, logging a block
  a second time panics although it needs no room (`LogWritePanic`, which the run reaches).
  Whether operations of the file system can use all of it together is a matter of `fs.c`
  and of the block sizes, which `XvLog` leaves open.
- `StackExclusive`, with the panics of `sched()`, `WaitNotLost`, `ParentsAlive` (proc.c).
- `DurableSound`, `BlocksExclusive`, `RefsCounted` and `CallsGoOn`: no deadlock, and no
  panic but that of `iget()`, and then more inodes are in use than it has entries for, and
  two that need a path through the `..` of a removed directory (fs.c).
- `IsByteQueue`, `NobodyStranded`, `FreedUnused`, `EndReleases` (pipe.c).
- `IsBlockStore`, `DescriptorsSound`, `NobodyForgotten` (bio.c, virtio_disk.c).
- `IsLineInput`, `OutputInOrder`, `NobodyStranded` (console.c, uart.c).
- `FramesOwnedOnce`, `SizeIsMapped`, `IsAddressSpaces` (vm.c, kalloc.c, exec.c).
- `TestsPass`, `SomebodyGoesOn`, `NamesSound`, `WithinMeans` (system calls and programs).
- `QueuesTrue`, `WaitBounded` (mlfq_naive.cpp), `JobsInPlace` (mlfq.py), `SimulationsEnd`.

A module's `TypeOK` that no run lists was checked while the model was written; it is kept
because the proofs, or the reader, need it.

### 3.1 Bounds

Bounds are constants in the guards of calls, never of steps already begun: a call
that has started can always go on. They are chosen so that the interesting case
happens, and each action is fired. In `cv` a producer can find the ring full, the
indices wrap, and a consumer can be woken for an item another one takes. In `paging`
an eviction can succeed, fail for want of room in VM, and pick the process that is
being swapped in. In `log` two operations overlap and share a commit, absorb each
other's blocks, fill the log so that a third waits, and the machine stops in
recovery. In `fs` three calls are what the two disagreements of 3.3 need; inodes in use fill
`itable`, a write needs the indirect block and finds no block for the data. In `pipe`
and `console` rings fill up, both sides sleep, and counters pass their wrap;
`console` starts them shortly before it, at a state the kernel reaches after three
characters have been read and written. In `disk` the first request wraps the indices;
a third process finds too few descriptors, three processes meet in one block, a
fourth block makes the cache recycle a buffer, and the late process finds three buffers in
use. Four calls do not come to reading again a block that was written and recycled; the
theorem `Refinement` covers that, with any number of calls. `fs`, `console` and `disk` use symmetry
(processes, blocks, and the characters written) and check no liveness. In `mem` the
smaller memory lets calls fail at every page and the larger lets two processes live
while a third is made. In `calls` the disk, the tables and the memory are small enough
for the tests that exhaust them, and large enough for the others. `mlfq` explores both
programs in one run: they share nothing, and one has no work while the other runs.
Its bursts make a process age twice and wait for a quantum that is not the last, its
boosts fall on ends of quanta and of I/O, I/O may take no time, and a job may have
nothing to run.

### 3.2 Fairness

- `cv`: weak fairness of each thread. The mutex needs no strong fairness because a
  thread takes it a bounded number of times as long as wakeups are not spurious;
  spurious wakeups stop in the end (`NoMoreSpurious`), for they owe nobody anything.
- `paging`: a command that has begun goes on. The script owes no next command.
- `log`: booting and a process inside a call go on; nobody has to make a call, and
  crashes are bounded. The number of calls is bounded, so a lock is not taken from
  under somebody for ever.
- `pipe`: steps in the kernel go on, and who competes for `pi->lock` again and again
  gets it (strong fairness): the scheduler of xv6 goes round the process table.
  Processes in user space owe nothing.
- `mlfq`: the program goes on.
- `proc`, `fs`, `console`, `disk`, `mem` and `calls` check safety only. `NobodyStranded`,
  `NobodyForgotten` and `SomebodyGoesOn` are what liveness rests on: whoever sleeps has
  somebody to wake it.

### 3.3 Where the program and its documents disagree

The run `cv_hang` expects its one property to be violated: `main` sets `no_more_items`
and signals nobody. With a small ring at least two of the three producers give up, fewer items
than the demand are made, and a consumer asleep on `not_empty` is never woken: the program does not end,
although the README says that `main` waits for all threads to finish.

Met while modelling; the models are as the code has it:

- `paging.cpp`: a swap-in that fails after its evictions took the process's frames in VM
  leaves the process in neither memory, and frames of VM are lost by some failed swaps
  (so no property claims that VM is conserved). `remove_set()` compares the pid with
  the time of an entry of `LRU_SET`, so the set does not list the processes in main
  memory, as its README says it does; the eviction loop may step from an erased element;
  unknown commands and syntax errors do not do what its README says.
- `proc.c`: `kill(0)` marks an unused slot of the process table, and the next process in
  it dies at once. A process that a signal kills between `wait()`'s test and its sleep
  stays asleep until a child exits.
- `fs.c`: `iput()` frees an inode and drops its reference later (355-359); if the number
  is reused and removed in between, the second `iput()` sees a reference count of two and
  the inode is never freed. `..` of a directory that was removed may name an inode that is
  free, and `ilock()` panics. It may also name an inode that is just being made:
  `create()` has no lock on it between `ialloc()` and `ilock(ip)` (`sysfile.c` 265-270).
  When `d/e` and then `d` are unlinked while a process that walks `d/e/../x` stands in
  `e`, `mkdir("y")` may get the number of `d`; the walker comes to it through `..`, locks
  it first and makes `x` in it, before `create()` sets its count to 1: it has then two
  links and counts one, on the disk too, and taking both away can panic in `sys_unlink()`.
  TLC finds this when the proviso `strayed` is dropped from `DurableSound`; all properties
  of links, and `CallsGoOn` for these two panics, are claimed up to the first such path,
  and the proofs show that it is the only way to them. `create()` in a removed directory
  makes an inode nobody can reach, which is lost if the process dies before it unlinks it.
- `pipe.c`: a writer that is killed after it has written some bytes returns without
  waking readers (`NobodyStranded` of `XvPipe` excepts it).
- `sh.c`: `>>` opens the file and writes from its start. `usertests.c`: the test for lost
  pages counts while orphans of an earlier test may still hold some.
- `mlfq.py`: a boost sets `ticksLeft` to the allotment, a number of quanta, instead of the
  quantum, so that with
  the default options a boosted job runs for one tick and not for ten; jobs of the lower queues
  join the highest in the order of their queues, the lowest first. With `-S` and an
  allotment of one, a job whose I/O falls on the last tick of its quantum moves down,
  although the option says it stays. A job of run time 0, which `-l` accepts, ends in
  `Abort()`.
- `mlfq_naive.cpp`: `timeSinceLastRun` is not set to 0 for a process whose quantum ends with the
  tick it has just run (379-382, then 397-403). With a quantum of one tick that is every
  tick, and the counter no longer tells how long a process has waited: `WaitBounded` claims
  its bound for quanta of more than one tick.

## 4. Proofs

`Queues_proofs` proves three properties of `code3.c` for every number of
producers and consumers, every ring size and every production limit, from the two
assumptions of `ProdConsCV` (finite disjoint sets of threads, at least one consumer,
`1 <= buffer_size` and `production_limit <= buffer_size`, which `main` enforces):

- `CVTypeCorrect`: the indices stay in the ring and `counter` between 0 and its size;
- `Exclusion`: the owner of the mutex is the one thread in a critical section;
- `Fifo`: what was printed as added is what was printed as read, followed by what the
  ring holds, in the same order.

None of them is inductive. The invariant `CVInv` adds: `Holds`, the mutex is owned by
the thread in a critical section and by nobody else, through condition waits;
`Blocked`, the consumers in `notEmpty` are those that are blocked; `Checked`, a thread
about to `put()` has seen room and one about to `get()` has seen an item, with the
mutex held ever since; `TailCell`, `in_idx` is the cell `counter` places after
`out_idx`; and `Lines`, the pointwise form of `FifoNoLoss`, which needs no
concatenation and so survives a step by arithmetic on the two indices. `PutKeepsLines`
and `GetKeepsLines` are the two lemmas where the ring is touched; every other action
leaves `TailCell` and `Lines` alone. `ConcatPointwise` turns `Lines` into `FifoNoLoss`
at the end. TLC had checked the properties before.

`Memory_proofs` proves the four safety properties of `paging.cpp` and its type invariant
for memories, page sizes, processes and programs of every size (`FramesAssumption`,
`BoundsAssumption`, `ProgramsAssumption`). Its lemmas are first about one memory alone: `Sound` says that
every page of its processes has a frame of its own that is not free, `Full` that every
frame that is not free is a page's, and `TakeKeeps` and `GiveKeeps` that taking frames
for a process and giving them back keeps both. The inductive invariant is `Sound` of both
memories and `Full` of main memory, where the frames of the process that is being evicted
count as its own while it is in neither memory; `CountsMatch` and the other properties
follow from it by counting. `Full` does not hold of VM (see 3.3), and nothing claims it.

`Memory_proofs` goes on with lemmas about `XvMem`, and `XvMem_proofs`, which extends it,
proves `FramesOwnedOnce` and `SizeIsMapped` for every number of processes and frames, size
of a page and of a page-table page, set of programs, increments and arguments, and number
of frames the kernel leaves at boot. They need each other: a frame that `uvmunmap()` frees
is not freed twice because page tables are trees, and a new page meets no mapping
(`remap`) because the size says what is mapped. The inductive invariant `Good` consists
of:

- `Partition(Holding, Managed(ram))`: the frames the kernel manages are divided among
  owners, which are the free list and, for each process, its address space, the one
  `exec()` is building, its trapframe and the arguments `sys_exec()` has copied. `Holding`
  says what each owns in terms of the state; for a space it is `SpaceOf`, what its page
  table reaches;
- `Tree(ram, root)` of every page table: no frame is reached twice, on any level or as a page;
  TRAMPOLINE and TRAPFRAME are there, on page-table pages of their own entries; only a
  frame with a page-table page is walked through;
- `Process(p)`: `Maps(ram, pagetable[p], n)`, the pages below `n` are mapped and no others
  but those two, with `n` from `sz[p]`, except while `sbrk()` runs;
- `Caller(p)`: what the locals of each call say of the same: `InSbrk`, `InFork`, `InWait`,
  `InExec`, and `Growing` while `uvmalloc()` is at page `at`; `Forks`, two calls of `fork()`
  make different children; and `Typed`.

`Kept`, `Bystander` and `Quiet` are what makes the size of the proof bearable: a step that
moves frames between the free list and one owner, and writes no frame of another, leaves
all that `Good` says of the others (`Stays`). `Extended` says what three cases of `mappages()`
(no page-table page missing, one, two) do to a tree, `Unmaps` what `uvmunmap()` does, `NewSpace`
what `proc_pagetable()` makes; `Division` and `DigitsOf`, that an address is its three
indices, is the arithmetic under them. There is one lemma for each action. `FramesOwnedOnce`
follows from `Partition` and the trees by showing that each use belongs to one owner
(`UsesOwned`) and that within an owner a frame has one use (`OwnersSingly`), which is how the
two cardinalities are compared without counting.

On top of `Good`, `XvMem_proofs` proves that `XvMem` implements `AddressSpaces`
(`AddressSpacesKept`, for the same constants). What processes find in their memory needs
more than who owns which frame: the invariant `GoodPages` adds `Contents(p)`, what a call
that works page by page has put there so far. `Adding`: what `uvmalloc()` has mapped above
the old size is zero and the user's to write. `Copied`: what `uvmcopy()` has given the
child looks like the parent's pages, which nobody writes meanwhile. `InImage`: what
`exec()` has loaded is the first segments of some program, with gaps of zeros between them
(`HasSegments`), and the segments it has left are the others. `AddressSpace` reads frames,
so that most steps leave it alone has to be shown: `Unwritten` says when two memories look
the same through a page table, `Partition` and the trees why a frame that one process
writes is not seen by another. Each step then is one of `AddressSpaces`, of the one
process whose memory it gives, changes or takes away, or a stutter: a page that
`uvmalloc()` maps is above `sz`, a page that `uvmcopy()` maps is a child's that does not
run yet, and `exec()` builds a table of its own and exchanges it in one step
(`CommitSteps`). `ImageIs` says that what it exchanges then is the image of the program,
page by page.

`Queues_proofs` also proves, for every number of processes, size of the pipe,
length of a call and width of the counters that is a multiple of the size, that `pipe.c`
implements `ByteQueue`, that nobody sleeps on a condition that holds, and that the page is
freed after its last use. The invariant `IInv` is `TypeOK` with: `Members`, `Rights` and
`Closers`, who holds which end; `OpenEnds`; `Locked`, who is inside; `Started`, how far a
call is; `Waiting`, a sleeper has reason to sleep or the process inside will wake it;
`Fresh`, a reader that has no byte yet finds one; and `Room`, the counters are at most
`PIPESIZE` apart. There is one lemma for each action. `RingLemmas` holds the arithmetic of
rings with wrapping counters (what `%` does to a counter that wraps at a multiple of the
ring's size, and that the sequence between two counters grows at one end and shrinks at
the other, also with a third counter between the two); it does not mention pipes.

`XvDevices_proofs` is about the two devices, the console and the disk. It proves of
`XvConsole`, for every number of processes, size of the two buffers, width of the
counters, length of a call and key typed, that the input ring implements `LineInput`, that
the output ring implements `ByteQueue`, and that nobody sleeps, and no character stays in
the transmit buffer, for want of somebody who will act. The invariant `ConsoleInv` adds to
`TypeOK`: `Roles` and `Locked`, who is where and inside which lock; `KeyServed`, the key
that the handler is about to store has room, which holds since it tested and because it
has kept `cons.lock`; `ReadCounts`; `InputOutput`, the end `w` of the finished input lies
between `r` and `e` however they have wrapped; `SleepersWait` and `Sender`, which unlike
`NobodyStranded` hold inside the critical sections too. `KeyIn`, `KeyOut`, `KeyErased`,
`CharIn` and `CharOut` say what the five actions that touch a ring do to it.

`XvKernel_proofs` proves that `log.c` implements `AtomicDisk` (operations reach the disk
together or not at all, wherever the machine stops), that the blocks of the log are pinned
until they are installed (`Pinned`), that what the operations inside may still log fits
(`Reserved`), and `TypeOK`, for every finite set of processes, set of
blocks and of values, size of the log and number of crashes. The inductive invariant `IInv`
adds to `TypeOK`: `Where`, the processes that use a buffer or are inside an operation;
`Starting`, what recovery has copied so far; `Logs`, a block is in the log once; `Commits`,
one process commits and no operation runs meanwhile, which is what keeps the blocks still
while `commit()` reads them without `log.lock`; `Headed`, the header on the disk is empty
but during `install_trans()`; `Copied`, how far the commit has got; and `Kept`, the form of
`Pinned` that holds while recovering too, with the fact that a block in use has a buffer.
`Commits` does not say that a committer exists while `committing` is set: that is not needed
for safety. The refinement maps `durable` to what recovery would make of the disk
(`Recovered`) and `current` to what `bread()` would return (`Seen`); `write_head()` is the
one step that changes the first, `log_write()` the one that changes the second, but for a
crash, and the lemmas `SeenStays` and `CommitRefines` show that every other step, an
installed block and a recycled buffer among them, changes neither. `Reserved` needs two
more facts, kept apart in `RInv`: what an operation has logged is in the log, so that
logging it again takes no room, and is at most `MAXOPBLOCKS`.

It also proves all three properties of `XvProc`, and `ProcTypeOK`, for every size of
the process table and every set of CPUs. The invariant adds to `ProcTypeOK`: `Stacks`, a CPU is
on the stack of its own process or of its scheduler; `HandedOver`, a CPU holds no `p->lock`
but that of its own process, from before `sched()` until its scheduler is back, and from
`scheduler()` until the thread has gone on; `WaitLocked`, the parts of `exit()` and `wait()`
that hold `wait_lock`; `States`, what `p->state` says about the thread; `Forks`, a `USED`
slot belongs to one `fork()`; `InitLives`; `Families`, who is on its way to `ZOMBIE` has no
children left; and `Woken`, `Watched` and `Checked`, the three places where a wakeup could be
lost: between `wakeup(p->parent)` and `ZOMBIE`, between the adoption of a zombie and
`wakeup(initproc)`, and between the scan in `wait()` and its sleep. `Watched` lets init sleep
on a zombie in the second of them, which is why `WaitNotLost` speaks of states with
`wait_lock` free. There is one lemma for each action, with one step for each part.

`XvDevices_proofs` also proves of `XvDisk`, for every finite set of processes, every set
of blocks and of values, any number of buffers, fewer than processes among them, any
number of descriptors from three up and any width of the indices that is a larger multiple
of it, that the buffer cache with the disk driver implements `BlockStore`
(`IsBlockStore`), that a descriptor belongs to one request (`DescriptorsSound`) and that
nobody sleeps for good (`NobodyForgotten`). The invariant `IInv` consists of three parts
with the types and: `Owners`, who has which buffer, and that the holder of a sleep-lock is
the process inside; `Counted`, `refcnt` counts the processes that have the buffer;
`Cache`, a block is in one buffer and the list has them all; `Fresh`, when a buffer equals
the disk: when it is valid and nobody is inside, when its process is about to use it, and
when its request has been served; `Chains`, a request has three descriptors of its own,
which say what it is about; `Rings`, a request is in one place, once: in `avail`, with the
device, or in `used`; `Served`, `b->disk` is set exactly as long as the request is in one
of the three; and `Sleepers`. That neither ring ever overflows needs no assumption: the
entries are different descriptors that are not free (`OnceBounded`), so there is room for
one more. That `bget()` finds a buffer is not claimed; a process that panics there keeps
`bcache.lock`, and `NobodyForgotten` holds of the others, who go on until they need it. What the steps do to the rings comes from `RingLemmas` (`SubmitEffect`,
`TakeEffect`, `ServeEffect`, `CompletedEffect`), and there is one lemma for each action.
In the refinement a process opens a block in `Acquire` if its buffer is valid, or else
when its read returns; `Bwrite` writes, the device saves, `Brelse` closes. The lemma
`SameStore` says when two caches hold the same: it covers a recycled buffer
(`BgetRefines`), a buffer that becomes valid (`ReturnRefines`) and one that the device
fills (`ServeRefines`).

`XvFsLemmas` and `XvFs_proofs` prove all the properties of `XvFs` that the run `fs` checks,
and `TypeOK`, for every finite set of processes, set of calls, number of inodes, blocks, open
files and descriptors, size of a directory block and of a file, number of calls and crashes,
and every disk `mkfs` may leave. The invariant `Good` is inductive, and has two halves.

`Core` holds of every state: `Typed`; `Shape`, which locals a process has set at each point
of a call, and that it is in a transaction there; `Locks`, the sleep-lock of an inode is held
by the call that has it, and what is locked has been read; `Coherent`, an inode in memory is
the inode on the disk, unless a process is freeing or truncating it, which `iupdate()` ends;
`RefsOK` and `FilesOK`, where `RefsCounted` comes from; `UnlinkOK`, the entry that
`sys_unlink()` has looked up is still there when it clears it, as the directory stays locked;
and `BlocksOwned` of the running system and of the durable disk. `RefsOK` counts with
functions, one for each place that keeps a reference (`CwdRef`, `FileRef`, `cur`, `IpRef`,
`dp`, `Put1Ref`, `Put2Ref`), because a step changes a function at one argument and
`CountChanges` says what that does to the count; `HoldersCounted` shows at the end that the
sum is the cardinality of `Holders(i)`. Coherence needs the references: whether an inode that
`iput()` frees may be changed or read by somebody else is decided by `ref == 1` (`OnlyRef`).

`Sound` holds as long as no path has strayed: `Counted`, `nlink` is no less than the links
that are there and those that a call has counted before it makes them (`link()`) or has taken
away before it counts them (`unlink()`); `Alive`, what somebody refers to is allocated and
nobody is freeing it; `Tree`, of the running system too, not of the durable disk only: each
directory has one name and its `..` is there; `Reaching`, a path stands in directories that
have entries; `NewAlone`, nobody has come to the inode of `create()`; and what a crash leaves.
They need each other: `iput()` frees an inode with no link, so no name leads to it
(`Unlinkedness`), so a path can come to it through a `..` only, and `Tree` says that the
directory it comes from has then no name: the path has strayed (`EntryLeads`). There is a
lemma for each action; those with `Quiet` in their names are about the ways out of an action
that write no inode, which `QuietStep` settles for all, as `ChangeGood` and `MovesGood` do
for the others.

`SomebodyRuns` is the absence of deadlock among the sleep-locks. An inode is locked with
another one held in `unlink()` and in `create()` only, from a directory to what its name leads
to. `Ordered` says that directories can be ranked such that names lead to lower ranks
(`Descends`), on the disk and on the durable disk; that the directory that `create()` is
making ranks below its parent; and that a call knows the type of the inodes it acts on
(`Knows`), which stays, because who frees an inode is alone with it (`FreesAlone`). If every
process inside a call waited, each would wait for one that holds a directory and waits for an
inode of lower rank (`WaitsForHolder`, `RankFalls`), and one of them waits for the lowest. That
a name makes no cycle needs `Knows`: a directory gets a name only when it is made. `Ordered`
does not need `Sound`, so there is no deadlock after a path has strayed either.
`CallsAlwaysGoOn` adds `PanicsRare`, step by step: `IgetRare` says that `iget()` panics with
`NINODE` inodes in use besides the one it looks for, and `StepRare` that no other step does
but the two after a path has strayed.

`Queues_proofs` ends with the MLFQ programs. `Arrangements` replaces induction over sequences by
counting: the `k`-th of a set in some order is the one with `k - 1` before it, and `ArrangedIs`
and `KeptIs` prove from the theorems on cardinality that this gives every member one place, in
that order. Of `mlfq_naive.cpp` it is proved, for every list of processes, number of them,
threshold and quantum:

- `QueuesAlways`: queues and table agree. `QueuesInv` says that each level has one copy of each
  process of that level and no other (`Placed`), that all copies but that of the
  running process tell the remaining time of the table (`UpToDate`), and `OneRuns`;
- `WaitsAlways`: the bound on waiting at level 4, for a quantum of more than one tick.
  `WaitInv` measures what is ahead of a process: each of those runs for at most a quantum or the
  longest burst (`Cost`), the running one for what is left of its own (`LeftOf`, `RunnerIs`), and
  `WaitIs` says that the wait so far and that cost together stay within the bound. That the CPU
  is not idle meanwhile is `CpuBusy`; that nobody gets ahead, `NewFacts`: new copies stand behind,
  which `checkOrdering()` keeps although it sorts them.

Of `mlfq.py`, for every list of jobs, function of quanta and of allotments, and value of the
options, with zero and negative ones: `JobsAlways`, each job is in one place and the only
`Abort()` reached is that of a job with nothing to run. `JobsInv` consists of `InQueues`, each
queue lists once the jobs of its priority that wait for nothing; `Coming`, what is to come has one
event for a job and no event of the past; `Runnable`, who has time left; and `Excused`, why
the program may have stopped. `LowerIs` and `ToIs` say whom a boost and the events of a tick
move.

Model-checked only: liveness and fairness (`EndsIfFed`, `CommandsReturn`, `BeginReturns`,
`EndReleases`, `SimulationsEnd`), which are out of the prover's reach, and the properties of
`SystemCalls` (`TestsPass`, `SomebodyGoesOn`, `NamesSound`, `WithinMeans`), which is checked with
programs that recursive definitions compute (`UserLand`).

## 5. Not modelled

- `code1.c`, `code2.c`, `code.c`, `newcode.c`, `mycode.c`: drafts of `code3.c`. They read
  the shared counter and flags outside the lock, in loops with no other access, which a
  compiler may turn into loops that never end or never test; what such a program does is
  not the program's to say, and `code3.c` is the version that was handed in last.
- `main_signal.c`, `main_signal_cv.c`, `thread1.c`, `thread2.c`: two threads and one
  variable each. `thread2.c` takes its lock three times in a row, by three primitives, and
  so never gets past the second.
- `readcount` of lab 3: a counter that `read()` increments without a lock; nothing but
  "never more than the reads" holds of it. The list of lab 6: inserts under one lock, and
  look-ups only after all threads have been joined.
- The kernel's own page table and the traps (`trap.c`, `plic.c`, `start.c`, `main.c`,
  assembly): registers and privilege. What their interrupts do is in the modules of the
  components they reach.
- `printf.c` with the lab's `backtrace()`, `string.c`, `ramdisk.c`, and of `user/` the
  libraries `ulib.c`, `umalloc.c`, `printf.c`: no state that outlives a call or is shared.
- `ls.c`, `wc.c`, `grep.c`: they only print. `forktest.c` repeats a test of `usertests.c`;
  `bsstest` of `usertests.c` makes no call. `mkfs` is not in the repository.
- The ValGrind exercises, the lab texts (html, pdf), inputs and outputs of MLFQ.
- Of `proc.c` and `fs.c`: `XvProc` has no memory and no clock (memory is in `XvMem`,
  `sleep()` in `SystemCalls`), `XvFs` has no contents of files and no sharing of open files
  after `fork()` (both are in `SystemCalls`). `XvFs` takes a disk access as a step and so has no
  buffers; `SystemCalls` has no `itable` (its `NINODE` is the number of inodes on the disk).

## 6. Plan

Done: `ProdConsCV`, `Paging`, `XvPipe` and `XvConsole` (over `ByteQueue` and `LineInput`)
`XvLog` (over `AtomicDisk`), `XvDisk` (over `BlockStore`), `XvProc` and `XvFs` (on top of
`AtomicDisk`), `XvMem` (over `AddressSpaces`) and both MLFQ programs with proofs,
`SystemCalls` with the programs of `user/`.

What would come next: path calls of `SystemCalls` in the steps of `XvFs`, so that a run shows
which answers of two of them that overlap no order of single steps gives.
