---------------------------- MODULE SystemCalls ----------------------------
(* The system calls of xv6 as a program sees them: what each returns, what   *)
(* it leaves behind, and when it waits.  A call is one step, except where    *)
(* another process can come between its parts: a large write goes down in    *)
(* pieces, a pipe takes and gives what it can, and wait() waits.  The disk   *)
(* is counted in blocks and memory in frames, so that every call can run out *)
(* of either; tables of processes, open files and inodes are bounded too.    *)
(* XvFs, XvLog, XvDisk, XvPipe, XvMem and XvProc model how the kernel does   *)
(* this; here the programs of user/ run on top of it.  The number of a       *)
(* process is its slot: no program here uses one after wait() returned it.   *)
EXTENDS UserCode, FiniteSets, FiniteSetsExt, Functions

CONSTANTS NFILE, MAXCHUNK, PIPESIZE, NPAGES,  \* the sizes not in UserCode
          OVERHEAD,                         \* frames every process needs
          MAXARG,
          Names,                            \* name |-> its first DIRSIZ bytes
          Executables,                      \* the contents of a file exec() can load
          Program(_, _),                    \* the code of a program, its arguments
          FirstInodes,                      \* the disk at the start
          Mains                             \* what init may be told to run

ASSUME SizesAssumption ==
  /\ {NPROC, NOFILE, NFILE, NINODE, NBLOCKS, BSIZE, NDIRECT, NINDIRECT} \subseteq Nat \ {0}
  /\ {MAXCHUNK, PIPESIZE, NPAGES, PGSIZE, MAXARG} \subseteq Nat \ {0}

VARIABLES procs,   \* struct proc, with the code still to run and its variables
          files,   \* ftable
          inodes,  \* the inodes with what they hold
          pipes    \* struct pipe, by the number of the file that made it

vars == <<procs, files, inodes, pipes>>

Procs == 1 .. NPROC
Fds == 0 .. NOFILE - 1
Files == 1 .. NFILE
Inums == 1 .. NINODE
Root == 1
Console == 1                                           \* its major number
NDEV == 10                                             \* numbers there may be
Init1 == 1                                             \* initproc
Lowest(S) == Min(S)

(***************************************************************************)
(* Memory.  An image has a page of text, one of data, the guard and the    *)
(* stack; the heap follows.                                                *)
(***************************************************************************)
Pages(sz) == (sz + PGSIZE - 1) \div PGSIZE
Text == 0
Guard == 2
StackPage == 3
Image == 4 * PGSIZE
Nobody == [state |-> "unused", code |-> <<>>, env |-> <<>>, buf |-> <<>>, ofile |-> <<>>,
           cwd |-> 0, parent |-> 0, killed |-> FALSE, status |-> 0, sz |-> 0]
FreePages(ps, pi) ==
  NPAGES - MapThenSumSet(LAMBDA q : IF ps[q].state = "unused" THEN 0
                                                  ELSE OVERHEAD + Pages(ps[q].sz), Procs)
         - Cardinality({f \in Files : pi[f].open})

Stm(p) == Head(procs[p].code)                          \* the next statement of p
Address(p, a) == procs[p].env[a.var] + a.plus
Page(a) == a \div PGSIZE
\* copyin() and copyout() ask for a user page; a store needs a writable one.
Mapped(p, a) == a >= 0 /\ Page(a) < Pages(procs[p].sz) /\ Page(a) # Guard
Reachable(p, a, n) == \A i \in 0 .. n - 1 : Mapped(p, a + i)

(***************************************************************************)
(* Files and directories.  A directory holds its entries in order.         *)
(***************************************************************************)
NoInode == [type |-> "free", nlink |-> 0, data |-> <<>>, blocks |-> 0, major |-> 0]
NoFile == [type |-> "none", ip |-> 0, off |-> 0, readable |-> FALSE, writable |-> FALSE]
NoPipe == [open |-> FALSE, data |-> <<>>]
NoEntry == [name |-> "", inum |-> 0]

FreeBlocks(is) == NBLOCKS - MapThenSumSet(LAMBDA i : is[i].blocks, Inums)

\* bmap(): the blocks an inode holds once block bn of its data has one, the
\* indirect block among them.
Held(bn) == IF bn < NDIRECT THEN bn + 1 ELSE bn + 2

\* Mutant: a write that forgets the indirect block.
FitsWithoutIndirect(ino, off, n, free) ==
  Max({k \in 0 .. n : k = 0 \/ ((off + k - 1) \div BSIZE) + 1 <= ino.blocks + free})
\* writei(): how much of n bytes gets there, and what the inode is afterwards.
Fits(ino, off, n, free) ==
  Max({k \in 0 .. n : k = 0 \/ Held((off + k - 1) \div BSIZE) <= ino.blocks + free})
InBounds(ino, off, n) == off <= Len(ino.data) /\ off + n <= MAXFILE * BSIZE
Overlaid(old, off, new) == SubSeq(old, 1, off) \o new \o SubSeq(old, off + Len(new) + 1, Len(old))
Wrote(ino, off, data, k, free) ==
  [ino EXCEPT
     !.data = Overlaid(@, off, SubSeq(data, 1, k)),
     !.blocks = IF k < Len(data) THEN @ + free
                ELSE Max({@, IF k = 0 THEN 0 ELSE Held((off + k - 1) \div BSIZE)})]

\* dirlookup() and dirlink()
Lookup(is, dp, name) ==
  LET at == {k \in DOMAIN is[dp].data : is[dp].data[k].inum # 0 /\ is[dp].data[k].name = name}
  IN IF at = {} THEN 0 ELSE is[dp].data[Lowest(at)].inum
Slot(dir) == Lowest({k \in DOMAIN dir : dir[k].inum = 0} \union {Len(dir) + 1}) - 1
Written(is, dp, entry, off, free) ==
  [is EXCEPT ![dp] = Wrote(@, off, <<entry>>, Fits(@, off, 1, free), free)]
\* What follows gives the one outcome as a set, so that it is found only once.
Linked(is, dp, name, i) ==
  {IF Lookup(is, dp, name) # 0 THEN is ELSE Written(is, dp, [name |-> name, inum |-> i], off, free) :
     off \in {Slot(is[dp].data)}, free \in {FreeBlocks(is)}}

\* skipelem() and namex().  A path is the sequence of its names, "/" first if
\* it is absolute; no string at all is NoString.
Short(name) == IF name \in DOMAIN Names THEN Names[name] ELSE name
Elements(path) == FoldLeft(LAMBDA es, e : IF e = "/" THEN es ELSE Append(es, Short(e)), <<>>, path)
Begin(p, path) == IF path # <<>> /\ path[1] = "/" THEN Root ELSE procs[p].cwd
\* One step of the walk; a walk gives the inode it ends at, or none.
Into(i, e) ==
  IF inodes[i].type # "dir" THEN {} ELSE {j \in {Lookup(inodes, i, e)} : j # 0}
Walk(p, path, names) == FoldLeft(LAMBDA S, e : UNION {Into(i, e) : i \in S}, {Begin(p, path)}, names)
Named(p, path) == IF path = NoString THEN {} ELSE UNION {Walk(p, path, es) : es \in {Elements(path)}}
Namei(p, path) == Max({0} \union Named(p, path))
\* nameiparent(): the directory, 0 if there is none, and the last name.
Dir(ip) == IF ip # 0 /\ inodes[ip].type = "dir" THEN ip ELSE 0
Parent(p, path, names) ==
  IF path = NoString \/ names = <<>> THEN [dp |-> 0, name |-> ""]
  ELSE [dp |-> Max({0} \union {Dir(i) : i \in Walk(p, path, Front(names))}), name |-> Last(names)]
NameiParent(p, path) == CHOOSE at \in {Parent(p, path, es) : es \in {Elements(path)}} : TRUE
Find(at) == IF at.dp = 0 THEN 0 ELSE Lookup(inodes, at.dp, at.name)

\* create(): the inode, and all inodes afterwards, whether it succeeds or not.
\* A directory gets its two entries before it gets a name.
FreeInode == Lowest({i \in Inums : inodes[i].type = "free"} \union {NINODE + 1})
Outcome(i, is) == [ip |-> i, is |-> is]
\* Mutant: create() gives up without taking back the link.
UnmadeLinked(is, new) == Outcome(0, is)
Unmade(is, new) == Outcome(0, [is EXCEPT ![new].nlink = 0])
Entered(at, type, new, is) ==
  {IF Lookup(named, at.dp, at.name) # new THEN Unmade(named, new)
   ELSE Outcome(new, [named EXCEPT ![at.dp].nlink = IF type = "dir" THEN @ + 1 ELSE @]) :
     named \in Linked(is, at.dp, at.name, new)}
Dotted(at, new, is) == UNION {Linked(one, new, "..", at.dp) : one \in Linked(is, new, ".", new)}
Make(at, type, new, is) ==
  UNION {IF type = "dir" /\ Len(begun[new].data) # 2 THEN {Unmade(begun, new)}
         ELSE Entered(at, type, new, begun) :
           begun \in IF type = "dir" THEN Dotted(at, new, is) ELSE {is}}
Existing(i, type) == Outcome(IF type = "file" /\ inodes[i].type # "dir" THEN i ELSE 0, inodes)
Blank(type, major) == [NoInode EXCEPT !.type = type, !.nlink = 1, !.major = major]
CreateAt(at, old, new, type, major) ==
  IF at.dp = 0 \/ (old = 0 /\ new \notin Inums) THEN {Outcome(0, inodes)}
  ELSE IF old # 0 THEN {Existing(old, type)}
  ELSE Make(at, type, new, [inodes EXCEPT ![new] = Blank(type, major)])
Create(p, type, major) ==
  UNION {CreateAt(at, Find(at), FreeInode, type, major) : at \in {NameiParent(p, Stm(p).path)}}

(***************************************************************************)
(* The step of a process: the first statement of its code, the result, and *)
(* what is left to do.                                                     *)
(***************************************************************************)
\* A process that is killed, or has given back its stack, does nothing more,
\* except finish a write to a file that it has begun.
Fd(p) == procs[p].env[Stm(p).fd]
\* argfd(): the open file, or 0
File(p) == IF Fd(p) \in Fds THEN procs[p].ofile[Fd(p)] ELSE 0
MidWrite(p) == procs[p].code # <<>> /\ Stm(p).done > 0 /\ files[File(p)].type = "inode"
Able(p) == /\ procs[p].state = "runs" /\ procs[p].sz > StackPage * PGSIZE
           /\ ~procs[p].killed \/ MidWrite(p)
Calls(p, c) == Able(p) /\ procs[p].code # <<>> /\ Stm(p).call = c

Resumed(s, r, rest) ==
  IF s.want[1] <= r /\ r <= s.want[2]
  THEN s.then \o (IF s.again THEN <<s>> ELSE <<>>) \o rest
  ELSE IF s.must THEN <<exit(1)>> ELSE s.else \o rest
Set(env, v, r) == IF v = "" THEN env ELSE (v :> r) @@ env
Back(p, r) ==                                  \* all processes once p has r
  [procs EXCEPT ![p].code = Resumed(Head(@), r, Tail(@)),
                ![p].env = Set(@, Stm(p).to, r)]

\* The files some descriptor refers to, the pipes some file, the inodes some
\* name, file or working directory: the rest goes back (fileclose(), iput(),
\* pipeclose()).
Settle(ps, fs, is, pi) ==
  /\ procs' = ps
  /\ files' = [f \in Files |-> IF \E q \in Procs : f \in Range(ps[q].ofile) THEN fs[f] ELSE NoFile]
  /\ inodes' = [i \in Inums |->
       IF \/ is[i].nlink > 0
          \/ \E f \in Files : files'[f].ip = i /\ files'[f].type # "pipe"
          \/ \E q \in Procs : ps[q].cwd = i
       THEN is[i] ELSE NoInode]
  /\ pipes' = [f \in Files |->
       IF \E g \in Files : files'[g].type = "pipe" /\ files'[g].ip = f THEN pi[f] ELSE NoPipe]
Only(ps) == procs' = ps /\ UNCHANGED <<files, inodes, pipes>>

FreeFds(p) == {d \in Fds : procs[p].ofile[d] = 0}
FreeFiles == {f \in Files : files[f].type = "none"}

(***************************************************************************)
(* sysfile.c                                                               *)
(***************************************************************************)
Opened(p, mode) ==
  IF "create" \in mode THEN Create(p, "file", 0) ELSE {Outcome(Namei(p, Stm(p).path), inodes)}
\* Mutant: a directory is opened for writing like any file.
OpensDirectories(ip, ino, mode) ==
  ip = 0 \/ (ino.type = "device" /\ ino.major \notin 0 .. NDEV - 1) \/ FreeFiles = {}
NotOpened(ip, ino, mode) ==
  \/ ip = 0 \/ (ino.type = "dir" /\ mode # {})
  \/ (ino.type = "device" /\ ino.major \notin 0 .. NDEV - 1) \/ FreeFiles = {}
OpenFile(ip, type, mode) ==
  [type |-> IF type = "device" THEN "device" ELSE "inode", ip |-> ip, off |-> 0,
   readable |-> "wronly" \notin mode, writable |-> mode \intersect {"wronly", "rdwr"} # {}]
SysOpen(p) ==
  /\ Calls(p, "open")
  /\ \E mode \in {Stm(p).mode} : \E made \in Opened(p, mode) :
       \E ino \in {IF made.ip = 0 THEN NoInode ELSE made.is[made.ip]} :
         \/ /\ NotOpened(made.ip, ino, mode) \/ FreeFds(p) = {}
            /\ Settle(Back(p, -1), files, made.is, pipes)
         \/ /\ ~NotOpened(made.ip, ino, mode) /\ FreeFds(p) # {}
            /\ \E f \in {Lowest(FreeFiles)}, fd \in {Lowest(FreeFds(p))} :
                 Settle([Back(p, fd) EXCEPT ![p].ofile[fd] = f],
                   [files EXCEPT ![f] = OpenFile(made.ip, ino.type, mode)],
                   IF "trunc" \in mode /\ ino.type = "file"
                   THEN [made.is EXCEPT ![made.ip].data = <<>>, ![made.ip].blocks = 0] ELSE made.is,
                   pipes)

SysMkdir(p) ==
  /\ Calls(p, "mkdir")
  /\ \E made \in Create(p, "dir", 0) :
       Settle(Back(p, IF made.ip = 0 THEN -1 ELSE 0), files, made.is, pipes)

SysMknod(p) ==
  /\ Calls(p, "mknod")
  /\ \E made \in Create(p, "device", Stm(p).n) :
       Settle(Back(p, IF made.ip = 0 THEN -1 ELSE 0), files, made.is, pipes)

SysClose(p) ==
  /\ Calls(p, "close")
  /\ IF File(p) = 0 THEN Only(Back(p, -1))
     ELSE Settle([Back(p, 0) EXCEPT ![p].ofile[Fd(p)] = 0], files, inodes, pipes)

SysDup(p) ==
  /\ Calls(p, "dup")
  /\ IF File(p) = 0 \/ FreeFds(p) = {} THEN Only(Back(p, -1))
     ELSE LET fd == Lowest(FreeFds(p)) IN Only([Back(p, fd) EXCEPT ![p].ofile[fd] = File(p)])

\* filestat() knows the inode's type, number, links and size; a pipe has none.
SysFstat(p) ==
  /\ Calls(p, "fstat")
  /\ LET f == files[File(p)]
         bad == File(p) = 0 \/ f.type = "pipe" \/ ~Reachable(p, Address(p, Stm(p).addr), 1)
     IN IF bad THEN Only(Back(p, -1))
        ELSE Only([Back(p, 0) EXCEPT ![p].buf =
                     <<[type |-> inodes[f.ip].type, ino |-> f.ip, nlink |-> inodes[f.ip].nlink,
                        size |-> Len(inodes[f.ip].data)]>>])

SysLink(p) ==
  /\ Calls(p, "link")
  /\ \E ip \in {Namei(p, Stm(p).path)}, at \in {NameiParent(p, Stm(p).new)} :
       IF ip = 0 \/ Dir(ip) # 0 \/ at.dp = 0 THEN Only(Back(p, -1))
       ELSE \E is \in Linked(inodes, at.dp, at.name, ip) :
              IF Find(at) # 0 \/ Lookup(is, at.dp, at.name) # ip
              THEN Settle(Back(p, -1), files, is, pipes)
              ELSE Settle(Back(p, 0), files, [is EXCEPT ![ip].nlink = @ + 1], pipes)

\* isdirempty()
Empty(dir) == \A k \in DOMAIN dir : k > 2 => dir[k].inum = 0
EntryAt(dir, name) == Lowest({k \in DOMAIN dir : dir[k].inum # 0 /\ dir[k].name = name})
SysUnlink(p) ==
  /\ Calls(p, "unlink")
  /\ \E at \in {NameiParent(p, Stm(p).path)} : \E ip \in {Find(at)} :
       IF ip = 0 \/ at.name \in {".", ".."} \/ (Dir(ip) # 0 /\ ~Empty(inodes[ip].data))
       THEN Only(Back(p, -1))
       ELSE Settle(Back(p, 0), files,
              [inodes EXCEPT ![at.dp].data[EntryAt(inodes[at.dp].data, at.name)] = NoEntry,
                             ![at.dp].nlink = IF Dir(ip) # 0 THEN @ - 1 ELSE @,
                             ![ip].nlink = @ - 1], pipes)

SysChdir(p) ==
  /\ Calls(p, "chdir")
  /\ \E ip \in {Dir(Namei(p, Stm(p).path))} :
       IF ip = 0 THEN Only(Back(p, -1)) ELSE Settle([Back(p, 0) EXCEPT ![p].cwd = ip], files, inodes, pipes)

\* pipealloc() takes two files and a page.
NoPipes(p) == \/ Cardinality(FreeFiles) < 2 \/ Cardinality(FreeFds(p)) < 2
              \/ FreePages(procs, pipes) = 0 \/ ~Reachable(p, Address(p, Stm(p).addr), 1)
SysPipe(p) ==
  /\ Calls(p, "pipe")
  /\ \/ NoPipes(p) /\ Only(Back(p, -1))
     \/ /\ ~NoPipes(p)
        /\ \E r \in {Lowest(FreeFiles)}, d \in {Lowest(FreeFds(p))} :
             \E w \in {Lowest(FreeFiles \ {r})}, e \in {Lowest(FreeFds(p) \ {d})} :
               Settle([Back(p, 0) EXCEPT ![p].ofile[d] = r, ![p].ofile[e] = w,
                         ![p].env = (Stm(p).to :> d) @@ (Stm(p).also :> e) @@ @],
                 [files EXCEPT
                    ![r] = [NoFile EXCEPT !.type = "pipe", !.ip = r, !.readable = TRUE],
                    ![w] = [NoFile EXCEPT !.type = "pipe", !.ip = r, !.writable = TRUE]],
                 inodes, [pipes EXCEPT ![r].open = TRUE])

(***************************************************************************)
(* read() and write()                                                      *)
(***************************************************************************)
\* How much of what follows a read takes: a program that wants a line takes it
\* byte by byte, to its end.
Ends(d) == {k \in DOMAIN d : d[k] = "\n"}
Amount(s, d) == IF "line" \in s.mode /\ Ends(d) # {} THEN Lowest(Ends(d)) ELSE Max({0, Min({s.n, Len(d)})})
\* The program's own buffer is large enough.
Room(p, n) == IF Stm(p).addr.var = "stack" THEN Min({n, 1}) ELSE n
Keep(p, ps, d) == [ps EXCEPT ![p].buf = IF "more" \in Stm(p).mode THEN @ \o d ELSE d]

\* devsw[] has functions for the console alone.
Undriven(f) == files[f].type = "device" /\ inodes[files[f].ip].major # Console
ReadNothing(p) ==
  /\ Calls(p, "read")
  /\ File(p) = 0 \/ (File(p) # 0 /\ (~files[File(p)].readable \/ Undriven(File(p))))
  /\ Only(Back(p, -1))

\* fileread() and readi().  Nobody types at the console: its reader waits.
ReadInode(p) ==
  /\ Calls(p, "read")
  /\ File(p) # 0 /\ files[File(p)].readable /\ files[File(p)].type = "inode"
  /\ LET f == File(p)
         data == inodes[files[f].ip].data
         left == SubSeq(data, files[f].off + 1, Len(data))
         n == Amount(Stm(p), left)
     IN IF ~Reachable(p, Address(p, Stm(p).addr), Room(p, n)) THEN Only(Back(p, -1))
        ELSE /\ procs' = Keep(p, Back(p, n), SubSeq(left, 1, n))
             /\ files' = [files EXCEPT ![f].off = @ + n]
             /\ UNCHANGED <<inodes, pipes>>

WriterOf(f) == \E g \in Files : files[g].type = "pipe" /\ files[g].ip = f /\ files[g].writable
ReaderOf(f) == \E g \in Files : files[g].type = "pipe" /\ files[g].ip = f /\ files[g].readable
\* piperead(): a byte that cannot be copied out is lost all the same.
ReadPipe(p) ==
  /\ Calls(p, "read")
  /\ File(p) # 0 /\ files[File(p)].readable /\ files[File(p)].type = "pipe"
  /\ LET f == files[File(p)].ip
         n == Max({0, Min({Stm(p).n, Len(pipes[f].data)})})
         good == Reachable(p, Address(p, Stm(p).addr), 1)
     IN /\ pipes[f].data # <<>> \/ ~WriterOf(f)
        /\ pipes' = [pipes EXCEPT ![f].data = SubSeq(@, (IF good THEN n ELSE Min({n, 1})) + 1, Len(@))]
        /\ procs' = IF good THEN Keep(p, Back(p, n), SubSeq(pipes[f].data, 1, n)) ELSE Back(p, 0)
        /\ UNCHANGED <<files, inodes>>

Data(p) == IF "buffer" \in Stm(p).mode THEN procs[p].buf ELSE Stm(p).data
WriteNothing(p) ==
  /\ Calls(p, "write")
  /\ File(p) = 0 \/ (File(p) # 0 /\ (~files[File(p)].writable \/ Undriven(File(p))))
  /\ Only(Back(p, -1))

\* consolewrite() stops at a byte it cannot fetch.
WriteConsole(p) ==
  /\ Calls(p, "write")
  /\ File(p) # 0 /\ files[File(p)].writable /\ files[File(p)].type = "device" /\ ~Undriven(File(p))
  /\ Only(Back(p, IF Reachable(p, Address(p, Stm(p).addr), 1) THEN Len(Data(p)) ELSE 0))

\* One turn of the loop of filewrite(); writei() gives a block to the bytes it
\* then cannot fetch.
Taken(ino, off, free, fits) ==
  [ino EXCEPT !.blocks = Max({@, IF fits > 0 THEN Held(off \div BSIZE) ELSE @ + free})]
Writei(ino, off, part, good, free, fits) ==
  IF ~InBounds(ino, off, Len(part)) \/ part = <<>> THEN ino
  ELSE IF good THEN Wrote(ino, off, part, fits, free) ELSE Taken(ino, off, free, fits)
WriteInode(p) ==
  /\ Calls(p, "write")
  /\ File(p) # 0 /\ files[File(p)].writable /\ files[File(p)].type = "inode"
  /\ \E f \in {File(p)}, s \in {[Stm(p) EXCEPT !.data = Data(p)]}, good \in {Reachable(p, Address(p, Stm(p).addr), 1)},
        free \in {FreeBlocks(inodes)} :
     \E ip \in {files[f].ip}, off \in {files[f].off},
        part \in {SubSeq(s.data, s.done + 1, Min({Len(s.data), s.done + MAXCHUNK}))} :
     \E fits \in {Fits(inodes[ip], off, Len(part), free)} :
     \E r \in {IF ~InBounds(inodes[ip], off, Len(part)) THEN -1 ELSE IF good THEN fits ELSE 0} :
       /\ inodes' = [inodes EXCEPT ![ip] = Writei(@, off, part, good, free, fits)]
       /\ files' = [files EXCEPT ![f].off = @ + Max({r, 0})]
       /\ procs' = IF r # Len(part) THEN Back(p, -1)
                   ELSE IF s.done + r = Len(s.data) THEN Back(p, Len(s.data))
                   ELSE [procs EXCEPT ![p].code[1].done = s.done + r]
       /\ UNCHANGED pipes

\* pipewrite(): as much as there is room for, then again; it answers -1 once
\* nobody can read.
WritePipe(p) ==
  /\ Calls(p, "write")
  /\ File(p) # 0 /\ files[File(p)].writable /\ files[File(p)].type = "pipe"
  /\ LET f == files[File(p)].ip
         s == [Stm(p) EXCEPT !.data = Data(p)]
         left == Len(s.data) - s.done
         n == Min({left, PIPESIZE - Len(pipes[f].data)})
         good == Reachable(p, Address(p, s.addr), 1)
     IN \/ /\ left > 0 /\ ~ReaderOf(f)
           /\ Only(Back(p, -1))
        \/ /\ left = 0 \/ (ReaderOf(f) /\ n > 0 /\ ~good)
           /\ Only(Back(p, s.done))
        \/ /\ ReaderOf(f) /\ n > 0 /\ good
           /\ pipes' = [pipes EXCEPT ![f].data = @ \o SubSeq(s.data, s.done + 1, s.done + n)]
           /\ procs' = IF n = left THEN Back(p, Len(s.data))
                       ELSE [procs EXCEPT ![p].code[1].done = s.done + n]
           /\ UNCHANGED <<files, inodes>>

(***************************************************************************)
(* sysproc.c: processes and their memory                                   *)
(***************************************************************************)
Unused == {q \in Procs : procs[q].state = "unused"}
SysFork(p) ==
  /\ Calls(p, "fork")
  /\ IF Unused = {} \/ FreePages(procs, pipes) < OVERHEAD + Pages(procs[p].sz)
     THEN Only(Back(p, -1))
     ELSE LET q == Lowest(Unused)
          IN Only([Back(p, q) EXCEPT
                     ![q] = [Back(p, 0)[p] EXCEPT !.code = IF "both" \in Stm(p).mode THEN @ ELSE Stm(p).child,
                                                  !.parent = p]])

\* Mutant: exit() leaves the files open until wait() collects the process.
GoneWithFiles(p, status) ==
  [q \in Procs |->
     IF q = p THEN [procs[p] EXCEPT !.state = "zombie", !.status = status, !.cwd = 0, !.code = <<>>,
                                    !.env = <<>>, !.buf = <<>>]
     ELSE [procs[q] EXCEPT !.parent = IF @ = p THEN Init1 ELSE @]]
\* exit(): the files go, the children pass to init.
Gone(p, status) ==
  [q \in Procs |->
     IF q = p THEN [procs[p] EXCEPT !.state = "zombie", !.status = status, !.cwd = 0,
                                    !.ofile = [d \in Fds |-> 0], !.code = <<>>, !.env = <<>>,
                                    !.buf = <<>>]
     ELSE [procs[q] EXCEPT !.parent = IF @ = p THEN Init1 ELSE @]]
SysExit(p) ==
  /\ Calls(p, "exit")
  /\ Settle(Gone(p, IF Stm(p).fd = "" THEN Stm(p).n ELSE procs[p].env[Stm(p).fd]), files, inodes, pipes)
\* main() and the tests return: the code is at an end.
Returned(p) == /\ p # Init1 /\ Able(p) /\ procs[p].code = <<>>
               /\ Settle(Gone(p, 0), files, inodes, pipes)
\* usertrap() sees the flag.
Dies(p) ==
  /\ procs[p].state = "runs" /\ procs[p].killed /\ ~MidWrite(p)
  /\ Settle(Gone(p, -1), files, inodes, pipes)

Children(p) == {q \in Procs : procs[q].state # "unused" /\ procs[q].parent = p}
SysWait(p) ==
  /\ Calls(p, "wait")
  /\ LET dead == {q \in Children(p) : procs[q].state = "zombie"}
         q == Lowest(dead)
     IN \/ Children(p) = {} /\ Only(Back(p, -1))
        \/ dead # {} /\ Only([Back(p, q) EXCEPT ![q] = Nobody,
                                ![p].env = Set(Set(@, Stm(p).to, q), Stm(p).also, procs[q].status)])

SysKill(p) ==
  /\ Calls(p, "kill")
  /\ LET q == procs[p].env[Stm(p).fd]
     IN IF q \in Procs /\ procs[q].state # "unused"
        THEN Only([Back(p, 0) EXCEPT ![q].killed = TRUE])
        ELSE Only(Back(p, -1))

\* growproc(): a size that would be negative wraps and is left alone.
SysSbrk(p) ==
  /\ Calls(p, "sbrk")
  /\ LET sz == procs[p].sz
         n == Stm(p).n
     IN IF n > 0 /\ Pages(sz + n) - Pages(sz) > FreePages(procs, pipes) THEN Only(Back(p, -1))
        ELSE Only([Back(p, sz) EXCEPT ![p].sz = IF sz + n < 0 THEN sz ELSE sz + n])

SysGetpid(p) == Calls(p, "getpid") /\ Only(Back(p, p))
\* The clock moves on for a sleeper: when it goes on is anybody's guess.
SysSleep(p) == Calls(p, "sleep") /\ Only(Back(p, 0))

\* exec(): the arguments are copied to a page each, the new image is built
\* beside the old one, and the program starts with its files and directory.
ExecAs(p, ip) == Program(Head(inodes[ip].data), Stm(p).argv)
Env == [v \in {"0", "1", "2", "stack", "null"} |->
          CASE v = "0" -> 0 [] v = "1" -> 1 [] v = "2" -> 2
            [] v = "stack" -> StackPage * PGSIZE [] v = "null" -> 0]
\* An argument ends within a page, and all of them fit the page of the stack:
\* of those called "half" only one does.
ArgsFit(argv) == /\ Len(argv) < MAXARG /\ "page" \notin Range(argv) /\ "nowhere" \notin Range(argv)
                 /\ Cardinality({k \in DOMAIN argv : argv[k] = "half"}) < 2
SysExec(p) ==
  /\ Calls(p, "exec")
  /\ \E ip \in {Namei(p, Stm(p).path)}, argv \in {Stm(p).argv} :
       IF \/ ip = 0 \/ ~Mapped(p, Address(p, Stm(p).addr)) \/ ~ArgsFit(argv)
          \/ inodes[ip].data \notin Executables
          \/ Len(argv) + OVERHEAD + Pages(Image) > FreePages(procs, pipes)
       THEN Only(Back(p, -1))
       ELSE Only([procs EXCEPT ![p].code = ExecAs(p, ip), ![p].env = Env, ![p].buf = <<>>,
                                ![p].sz = Image])

(***************************************************************************)
(* What a process does on its own.  An access it may not make is a fault:  *)
(* usertrap() kills it.                                                    *)
(***************************************************************************)
Access(p) ==
  /\ Able(p) /\ procs[p].code # <<>> /\ Stm(p).call \in {"load", "store"}
  /\ LET a == Address(p, Stm(p).addr)
     IN IF Mapped(p, a) /\ (Stm(p).call = "store" => Page(a) # Text)
        THEN Only(Back(p, 0)) ELSE Only([procs EXCEPT ![p].killed = TRUE])
\* It has given back the stack it runs on.
Faults(p) == /\ procs[p].state = "runs" /\ ~procs[p].killed /\ procs[p].sz <= StackPage * PGSIZE
             /\ Only([procs EXCEPT ![p].killed = TRUE])

Sees(p) == Calls(p, "see")
           /\ Only([Back(p, IF procs[p].buf \in Stm(p).mode THEN 0 ELSE -1) EXCEPT ![p].buf = <<>>])
\* Each of the names stands once in the directory that was read.
Once(buf, name) == Cardinality({k \in DOMAIN buf : buf[k].inum # 0 /\ buf[k].name = name}) = 1
Finds(p) ==
  /\ Calls(p, "holds")
  /\ Only([Back(p, IF \A name \in Range(Stm(p).path) : Once(procs[p].buf, name) THEN 0 ELSE -1)
           EXCEPT ![p].buf = <<>>])
Compares(p) ==
  /\ Calls(p, "value")
  /\ LET s == Stm(p)
         env == procs[p].env
     IN Only(Back(p, IF s.fd = "" THEN s.n ELSE env[s.fd] - IF s.also = "" THEN 0 ELSE env[s.also]))
Chooses(p) ==
  /\ Calls(p, "pick")
  /\ \E code \in Stm(p).mode : Only([procs EXCEPT ![p].code = code \o Tail(@)])
Obeys(p) ==
  /\ Calls(p, "runline")
  /\ Only([procs EXCEPT ![p].code = Program("line", procs[p].buf) \o Tail(@), ![p].buf = <<>>])

Opens(p) == SysOpen(p) \/ SysMkdir(p) \/ SysMknod(p) \/ SysClose(p) \/ SysDup(p) \/ SysPipe(p)
Renames(p) == SysLink(p) \/ SysUnlink(p) \/ SysChdir(p) \/ SysFstat(p)
Reads(p) == ReadNothing(p) \/ ReadInode(p) \/ ReadPipe(p)
Writes(p) == WriteNothing(p) \/ WriteConsole(p) \/ WriteInode(p) \/ WritePipe(p)
Lives(p) == SysFork(p) \/ SysExit(p) \/ Returned(p) \/ Dies(p) \/ SysWait(p) \/ SysKill(p)
Runs(p) == SysSbrk(p) \/ SysGetpid(p) \/ SysSleep(p) \/ SysExec(p) \/ Access(p) \/ Faults(p)
           \/ Sees(p) \/ Finds(p) \/ Compares(p) \/ Chooses(p) \/ Obeys(p)
Step(p) == Opens(p) \/ Renames(p) \/ Reads(p) \/ Writes(p) \/ Lives(p) \/ Runs(p)

\* init has collected the program it was told to run.
Finished == procs[Init1].code = <<>> /\ UNCHANGED vars

Init ==
  /\ \E code \in Mains :
       procs = [q \in Procs |->
         IF q # Init1 THEN Nobody
         ELSE [Nobody EXCEPT !.state = "runs", !.code = code, !.env = Env, !.cwd = Root,
                             !.sz = Image, !.ofile = [d \in Fds |-> IF d \in 0 .. 2 THEN 1 ELSE 0]]]
  /\ inodes = FirstInodes
  /\ files = [f \in Files |-> IF f # 1 THEN NoFile
                ELSE [type |-> "device", ip |-> 2, off |-> 0, readable |-> TRUE, writable |-> TRUE]]
  /\ pipes = [f \in Files |-> NoPipe]

Next == (\E p \in Procs : Step(p)) \/ Finished
Spec == Init /\ [][Next]_vars

(***************************************************************************)
(* Properties                                                              *)
(***************************************************************************)
\* Whatever the order of the steps, every call of a program answers what the
\* program insists on: the driver, the first child of init, exits with 0.
Driver == 2
TestsPass ==
  LET me == procs[Init1]
  IN me.code # <<>> /\ "w" \in DOMAIN me.env /\ me.env["w"] = Driver => me.env["st"] = 0

\* Until everyone has ended somebody can go on: no order of the steps leaves
\* the processes waiting for one another, for a child, for bytes in a pipe whose
\* writers are gone, or for room in one nobody will read.
Pipe(p) == files[File(p)].ip
Waits(p) ==
  \/ Calls(p, "wait") /\ Children(p) # {} /\ \A q \in Children(p) : procs[q].state # "zombie"
  \/ /\ Calls(p, "read") /\ File(p) # 0
     /\ \/ files[File(p)].type = "device" /\ ~Undriven(File(p))
        \/ files[File(p)].type = "pipe" /\ pipes[Pipe(p)].data = <<>> /\ WriterOf(Pipe(p))
  \/ /\ Calls(p, "write") /\ File(p) # 0 /\ files[File(p)].type = "pipe"
     /\ Len(pipes[Pipe(p)].data) = PIPESIZE /\ ReaderOf(Pipe(p))
SomebodyGoesOn == procs[Init1].code = <<>> \/ \E p \in Procs : procs[p].state = "runs" /\ ~Waits(p)

\* An inode has as many links as directories name it, a directory names nothing
\* twice, and what it names is in use: create(), link() and unlink() undo what
\* they did when they fail half way.  The ".." of a directory that was removed
\* does not count.
Dirs == {d \in Inums : inodes[d].type = "dir"}
Entries(d) == {k \in DOMAIN inodes[d].data : inodes[d].data[k].inum # 0}
Links(d, i) == {k \in DOMAIN inodes[d].data :
                  LET e == inodes[d].data[k]
                  IN e.inum = i /\ e.name # "." /\ (e.name = ".." => inodes[d].nlink > 0)}
NamesSound ==
  /\ \A i \in Inums : inodes[i].nlink = MapThenSumSet(LAMBDA d : Cardinality(Links(d, i)), Dirs)
  /\ \A d \in Dirs :
       /\ \A k, l \in Entries(d) : inodes[d].data[k].name = inodes[d].data[l].name => k = l
       /\ \A k \in Entries(d) : inodes[inodes[d].data[k].inum].type # "free"

\* No call takes a frame or a block that is not there, and the blocks an inode
\* holds are enough for its size: what fails for want of either fails before it
\* is taken.
WithinMeans ==
  /\ FreePages(procs, pipes) >= 0 /\ FreeBlocks(inodes) >= 0
  /\ \A i \in Inums : inodes[i].data # <<>> =>
       inodes[i].blocks >= Held((Len(inodes[i].data) - 1) \div BSIZE)
=============================================================================
