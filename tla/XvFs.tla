-------------------------------- MODULE XvFs --------------------------------
(***************************************************************************)
(* The file system of the xv6 kernel (kernel/fs.c, file.c and sysfile.c):  *)
(* inodes with their table in memory, directories, path names, open files  *)
(* and the system calls on them, run by several processes at once.  The    *)
(* disk below it is AtomicDisk, what the logging layer promises.           *)
(*                                                                         *)
(* An action is what a process does from one acquisition of a sleep-lock,  *)
(* of itable.lock or of a buffer it may have to share to the next.  A      *)
(* directory's content is a function from its names to inode numbers, the  *)
(* size of a file is counted in blocks and so is the offset of a file.     *)
(* itable is indexed by inode number; that it has NINODE entries is seen   *)
(* when iget() needs one more.                                             *)
(***************************************************************************)
EXTENDS Integers, Sequences, FiniteSets, FiniteSetsExt, Functions

CONSTANTS Procs,
          NInodes, NBlocks,   \* sb.ninodes - 1, and the data blocks
          PerBlock,           \* directory entries in a block
          NDIRECT, MAXFILE,   \* fs.h: blocks in the inode, and of the largest file
          NINODE,             \* param.h: inodes in use
          NFILE, NOFILE,      \* param.h: open files, and per process
          Image,              \* the disk at the first boot
          Calls,              \* the path name calls a process may make
          MaxCalls, MaxCrashes  \* bounds for TLC

ASSUME SizesAssumption ==
  /\ NInodes \in Nat \ {0} /\ NBlocks \in Nat /\ PerBlock \in Nat \ {0, 1}
  /\ NDIRECT \in Nat \ {0} /\ MAXFILE \in Nat
  /\ NINODE \in Nat /\ NFILE \in Nat /\ NOFILE \in Nat
  /\ MaxCalls \in Nat /\ MaxCrashes \in Nat

Inums   == 1 .. NInodes
Blocks  == 1 .. NBlocks
Files   == 1 .. NFILE
Fds     == 0 .. NOFILE - 1
ROOTINO == 1
None    == 0            \* no inode, no file
Nobody  == "nobody"
NotRead == [type |-> "not read"]  \* ip->valid == 0

NoEntry == [n \in {} |-> 0]
Fresh(type) == [type |-> type, nlink |-> 0, size |-> 0, addrs |-> <<>>, ents |-> NoEntry]
NoFile == [ref |-> 0, ip |-> None, off |-> 0, readable |-> FALSE, writable |-> FALSE]
NoCall == [op |-> "none"]

ASSUME ProcsAssumption == IsFiniteSet(Procs) /\ Nobody \notin Procs

\* What argstr() and argint() can give the calls.
Paths == [abs : BOOLEAN, names : Seq(STRING)]
Modes == SUBSET {"read", "write", "create", "trunc"}
ASSUME CallsAssumption ==
  Calls \subseteq [op : {"mkdir", "mknod", "unlink", "chdir"}, path : Paths]
                 \cup [op : {"open"}, path : Paths, mode : Modes]
                 \cup [op : {"link"}, path : Paths, new : Paths]
                 \cup [op : {"write"}, n : Nat] \cup [op : {"read", "close", "dup"}]

-----------------------------------------------------------------------------
(***************************************************************************)
(* The structure of a file system, `ino' being its inodes                  *)
(***************************************************************************)
\* The directory entries, as <<directory, name>>.
Entries(ino) == UNION {{i} \X DOMAIN ino[i].ents : i \in Inums}
Target(ino, e) == ino[e[1]].ents[e[2]]
Dots == {".", ".."}

\* So it is for any string; the provers have to be told.
ASSUME DotsAssumption == Dots \subseteq STRING

\* Directory i is the root or has a name: its ".." is a link to its parent only
\* as long, for sys_unlink() takes that link back together with the name.
Named(ino, i) ==
  i = ROOTINO \/ \E e \in Entries(ino) : e[2] \notin Dots /\ Target(ino, e) = i

\* The entries that count as links to i.
LinksTo(ino, i) ==
  {e \in Entries(ino) : /\ Target(ino, e) = i /\ e[2] # "."
                        /\ e[2] = ".." => Named(ino, e[1])}
LinksCounted(ino) == \A i \in Inums : ino[i].nlink >= Cardinality(LinksTo(ino, i))

\* Every block that is addressed is marked used and no other is, and none is in two
\* inodes.
BlocksOwned(ino, used) ==
  /\ used = UNION {Range(ino[i].addrs) : i \in Inums}
  /\ \A i, j \in Inums : i # j => Range(ino[i].addrs) \cap Range(ino[j].addrs) = {}

\* Entries are in directories; a directory has "." and "..", the latter to where its
\* name is, and one name; only one that is just created or gone has none of them.
DirOK(ino, i) ==
  /\ ino[i].type # "dir" => DOMAIN ino[i].ents = {}
  /\ ino[i].type = "dir" /\ DOMAIN ino[i].ents # {} =>
       Dots \subseteq DOMAIN ino[i].ents /\ ino[i].ents["."] = i
NameOK(ino, e) ==
  LET i == Target(ino, e) IN
  /\ i # ROOTINO
  /\ ino[i].type = "dir" =>
       /\ DOMAIN ino[i].ents # {} /\ ino[i].ents[".."] = e[1]
       /\ \A o \in Entries(ino) : o[2] \notin Dots /\ Target(ino, o) = i => o = e
Tree(ino) ==
  /\ ino[ROOTINO].type = "dir" /\ DOMAIN ino[ROOTINO].ents # {}
  /\ ino[ROOTINO].ents[".."] = ROOTINO
  /\ \A i \in Inums : DirOK(ino, i)
  /\ \A e \in Entries(ino) : e[2] \notin Dots => NameOK(ino, e)

\* From a directory to one that has a name in it, the rank falls.
Descends(ino, rank) ==
  \A i \in Inums : \A n \in DOMAIN ino[i].ents \ Dots :
    ino[i].type = "dir" /\ ino[ino[i].ents[n]].type = "dir" => rank[ino[i].ents[n]] < rank[i]

IsInode(x) ==
  /\ x = [type |-> x.type, nlink |-> x.nlink, size |-> x.size, addrs |-> x.addrs, ents |-> x.ents]
  /\ x.type \in {"free", "file", "dir", "dev"} /\ x.nlink \in Int /\ x.size \in Nat
  /\ x.addrs \in Seq(Blocks)
  /\ x.ents = [n \in DOMAIN x.ents |-> x.ents[n]] /\ Range(x.ents) \subseteq Inums
  /\ DOMAIN x.ents \subseteq STRING /\ IsFiniteSet(DOMAIN x.ents)
  /\ x.type = "free" => x = Fresh("free")
IsDisk(d) ==
  /\ d = [ino |-> d.ino, used |-> d.used] /\ d.used \subseteq Blocks
  /\ d.ino = [i \in Inums |-> d.ino[i]] /\ \A i \in Inums : IsInode(d.ino[i])

\* mkfs, and the calls before the first boot that is modelled, left a sound disk, without
\* directories that are in one another.
ASSUME ImageAssumption ==
  /\ IsDisk(Image) /\ Tree(Image.ino) /\ LinksCounted(Image.ino)
  /\ BlocksOwned(Image.ino, Image.used)
  /\ \E rank \in [Inums -> Inums] : Descends(Image.ino, rank)

VARIABLES
  durable, disk, active,   \* AtomicDisk; a disk is its inodes and its bitmap
  ref, copy, lock,         \* struct inode: references, contents, sleep-lock
  ftable, ofile, cwd,      \* open files, descriptors, current directories
  pc, call,                \* where a process is, and in which call
  cur, rest,               \* namex(): inode reached, names left
  ip, dp,                  \* the locals of the system calls
  puts, put,               \* inodes to iput(), and how far the first has come
  panic,                   \* the message the kernel stopped with
  strayed,                 \* history: a path led through the ".." of a removed directory
  calls, crashes           \* the counters of the bounds

table  == <<ref, copy, lock>>
files  == <<ftable, ofile, cwd>>
walk   == <<cur, rest>>
locals == <<call, walk, ip, dp>>
bounds == <<calls, crashes>>
vars   == <<durable, disk, active, table, files, pc, locals, puts, put, panic, strayed,
            bounds>>

D == INSTANCE AtomicDisk WITH current <- disk, Blocks <- Inums, Values <- {}, Blank <- 0

\* userinit() and fork(): every process starts in the root directory.
Init ==
  /\ disk = Image /\ durable = Image /\ active = {}
  /\ ref = [i \in Inums |-> IF i = ROOTINO THEN Cardinality(Procs) ELSE 0]
  /\ copy = [i \in Inums |-> NotRead] /\ lock = [i \in Inums |-> Nobody]
  /\ ftable = [f \in Files |-> NoFile]
  /\ ofile = [p \in Procs |-> [d \in Fds |-> None]] /\ cwd = [p \in Procs |-> ROOTINO]
  /\ pc = [p \in Procs |-> "user"] /\ call = [p \in Procs |-> NoCall]
  /\ cur = [p \in Procs |-> None] /\ rest = [p \in Procs |-> <<>>]
  /\ ip = [p \in Procs |-> None] /\ dp = [p \in Procs |-> None]
  /\ puts = [p \in Procs |-> <<>>] /\ put = [p \in Procs |-> "no"]
  /\ panic = "none" /\ strayed = FALSE /\ calls = 0 /\ crashes = 0

-----------------------------------------------------------------------------
(***************************************************************************)
(* Inodes                                                                  *)
(***************************************************************************)
Goto(p, s) == pc' = [pc EXCEPT ![p] = s]

\* The call of p goes on at s; its iput()s, if any, are done.
At(p, s) == panic = "none" /\ puts[p] = <<>> /\ pc[p] = s

\* What ilock(i) finds: the copy in memory, or the inode read from disk.
Inode(i) == IF copy[i] = NotRead THEN disk.ino[i] ELSE copy[i]

View == [i \in Inums |-> Inode(i)]

\* ilock(i) can go through, and finds an allocated inode.
Ilock(i) == lock[i] = Nobody /\ ref[i] >= 1 /\ Inode(i).type # "free"

\* i is read from disk if necessary, and no longer locked.
Reads(i) == copy' = [copy EXCEPT ![i] = Inode(i)]

One(i, inode) == [k \in {i} |-> inode]
Two(i, inode, j, other) == [k \in {i, j} |-> IF k = i THEN inode ELSE other]

\* iupdate() of the inodes of `new', a function from inode numbers to contents.
Updates(new) ==
  /\ copy' = [i \in Inums |-> IF i \in DOMAIN new THEN new[i] ELSE copy[i]]
  /\ disk' = [disk EXCEPT !.ino = [i \in Inums |-> IF i \in DOMAIN new THEN new[i] ELSE @[i]]]

\* The same, with `used' as the new bitmap.
UpdatesWith(new, used) ==
  /\ copy' = [i \in Inums |-> IF i \in DOMAIN new THEN new[i] ELSE copy[i]]
  /\ disk' = [ino  |-> [i \in Inums |-> IF i \in DOMAIN new THEN new[i] ELSE disk.ino[i]],
              used |-> used]

\* iget(): a table entry nobody refers to is recycled, with valid == 0, if there is one.
InUse == {i \in Inums : ref[i] > 0}
Iget(i) ==
  /\ ref' = [ref EXCEPT ![i] = @ + 1]
  /\ panic' = IF ref[i] = 0 /\ Cardinality(InUse) >= NINODE THEN "iget: no inodes" ELSE panic
IgetCopy(i) == IF ref[i] = 0 THEN [copy EXCEPT ![i] = NotRead] ELSE copy

Iputs(p, s) == puts' = [puts EXCEPT ![p] = s]

FreeBlocks(used) == Blocks \ used

\* balloc() for the inode with the blocks m.addrs.
Balloc(m) ==
  LET b == Min(FreeBlocks(m.used)) IN
  IF FreeBlocks(m.used) = {} THEN m
  ELSE [addrs |-> Append(m.addrs, b), used |-> m.used \cup {b}]

\* bmap() of the first block that is not there.  addrs has the blocks in the order in which
\* they are allocated: the indirect one comes before the block that needs it, and may
\* be all that is left.
Bmap(addrs, used) ==
  LET m == Balloc([addrs |-> addrs, used |-> used]) IN
  IF Len(addrs) = NDIRECT THEN Balloc(m) ELSE m

\* The blocks of data among them.
DataBlocks(addrs) == IF Len(addrs) > NDIRECT THEN Len(addrs) - 1 ELSE Len(addrs)

\* writei() of an entry, the size being a multiple of that of one: a slot is free, or the
\* directory gets one more block.
Full(d) == Cardinality(DOMAIN d.ents) = DataBlocks(d.addrs) * PerBlock
Mapped(d, used) ==
  IF Full(d) /\ DataBlocks(d.addrs) < MAXFILE THEN Bmap(d.addrs, used)
  ELSE [addrs |-> d.addrs, used |-> used]
CanLink(d, used) == Full(d) => DataBlocks(Mapped(d, used).addrs) > DataBlocks(d.addrs)

\* dirlink() of i as `name' in the directory w.inode, the bitmap being w.used, after calls
\* that went well if w.ok.
Dirlink(w, name, i) ==
  LET d == w.inode
      m == Mapped(d, w.used)
      entered == [n \in DOMAIN d.ents \cup {name} |-> IF n = name THEN i ELSE d.ents[n]]
      size == IF Full(d) THEN d.size + 1 ELSE d.size
      ok == CanLink(d, w.used)
  IN IF w.ok /\ name \notin DOMAIN d.ents
       THEN [ok |-> ok, used |-> m.used,
             inode |-> [d EXCEPT !.addrs = m.addrs, !.size = IF ok THEN size ELSE @,
                                 !.ents = IF ok THEN entered ELSE @]]
       ELSE [w EXCEPT !.ok = FALSE]
Unlinked(d, name) == [d EXCEPT !.ents = [n \in DOMAIN @ \ {name} |-> @[n]]]
IsDirEmpty(d) == DOMAIN d.ents \subseteq Dots

\* Mutant: itrunc() leaves ip->addrs.
TruncatedSize(inode) == [inode EXCEPT !.size = 0, !.ents = NoEntry]

\* itrunc() without its iupdate().
Truncated(inode) == [inode EXCEPT !.addrs = <<>>, !.size = 0, !.ents = NoEntry]

-----------------------------------------------------------------------------
(***************************************************************************)
(* Transactions and iput()                                                 *)
(***************************************************************************)
\* end_op(), and the return of the call.
EndOp(p) ==
  /\ At(p, "end") /\ D!End(p)
  /\ Goto(p, IF call[p].op = "write" /\ call[p].left > 0 THEN "writing" ELSE "user")
  /\ call' = [call EXCEPT ![p] = IF call[p].op = "write" /\ @.left > 0 THEN @ ELSE NoCall]
  /\ rest' = [rest EXCEPT ![p] = <<>>]
  /\ UNCHANGED <<table, files, cur, ip, dp, puts, put, panic, strayed, bounds>>

Commit == panic = "none" /\ durable # disk /\ D!Commit
          /\ UNCHANGED <<table, files, pc, locals, puts, put, panic, strayed, bounds>>

\* A reboot, after a crash or a panic: recovery, and the state Init describes.
Crash ==
  /\ crashes < MaxCrashes /\ crashes' = crashes + 1 /\ calls' = calls
  /\ D!Crash
  /\ ref' = [i \in Inums |-> IF i = ROOTINO THEN Cardinality(Procs) ELSE 0]
  /\ copy' = [i \in Inums |-> NotRead] /\ lock' = [i \in Inums |-> Nobody]
  /\ ftable' = [f \in Files |-> NoFile]
  /\ ofile' = [p \in Procs |-> [d \in Fds |-> None]] /\ cwd' = [p \in Procs |-> ROOTINO]
  /\ pc' = [p \in Procs |-> "user"] /\ call' = [p \in Procs |-> NoCall]
  /\ cur' = [p \in Procs |-> None] /\ rest' = [p \in Procs |-> <<>>]
  /\ ip' = [p \in Procs |-> None] /\ dp' = [p \in Procs |-> None]
  /\ puts' = [p \in Procs |-> <<>>] /\ put' = [p \in Procs |-> "no"]
  /\ panic' = "none" /\ strayed' = strayed

Putting(p, s) == panic = "none" /\ puts[p] # <<>> /\ put[p] = s

\* Nobody else refers to i and no directory does.
LastRef(i) == ref[i] = 1 /\ copy[i] # NotRead /\ copy[i].nlink = 0

\* iput() of an inode to be freed: the lock, and the bfree() calls of itrunc().
IputLast(p) ==
  /\ Putting(p, "no")
  /\ LET i == Head(puts[p]) IN
     /\ LastRef(i) /\ lock[i] = Nobody
     /\ lock' = [lock EXCEPT ![i] = p]
     /\ disk' = [disk EXCEPT !.used = @ \ Range(copy[i].addrs)]
     /\ panic' = IF Range(copy[i].addrs) \subseteq disk.used THEN panic ELSE "freeing free block"
     /\ copy' = [copy EXCEPT ![i] = Truncated(@)]
  /\ put' = [put EXCEPT ![p] = "freeing"]
  /\ UNCHANGED <<durable, active, ref, files, pc, locals, puts, strayed, bounds>>

\* The two iupdate() calls, the second with type 0; valid = 0; releasesleep().
IputFree(p) ==
  /\ Putting(p, "freeing")
  /\ LET i == Head(puts[p]) IN
     /\ disk' = [disk EXCEPT !.ino[i] = Fresh("free")]
     /\ copy' = [copy EXCEPT ![i] = NotRead]
     /\ lock' = [lock EXCEPT ![i] = Nobody]
  /\ put' = [put EXCEPT ![p] = "freed"]
  /\ UNCHANGED <<durable, active, ref, files, pc, locals, puts, panic, strayed, bounds>>

\* ip->ref--, with itable.lock held since the test or taken again.
IputDrop(p) ==
  /\ \/ Putting(p, "freed")
     \/ Putting(p, "no") /\ ~ LastRef(Head(puts[p]))
  /\ ref' = [ref EXCEPT ![Head(puts[p])] = @ - 1]
  /\ puts' = [puts EXCEPT ![p] = Tail(@)] /\ put' = [put EXCEPT ![p] = "no"]
  /\ UNCHANGED <<durable, disk, active, copy, lock, files, pc, locals, panic, strayed, bounds>>

-----------------------------------------------------------------------------
(***************************************************************************)
(* namex()                                                                 *)
(***************************************************************************)
Start(p, path) == IF path.abs THEN ROOTINO ELSE cwd[p]

Creates(p) ==
  \/ call[p].op \in {"mkdir", "mknod"}
  \/ call[p].op = "open" /\ "create" \in call[p].mode

\* The walk is nameiparent(); in sys_link() the second one is.
WantsParent(p) ==
  \/ Creates(p) \/ call[p].op = "unlink"
  \/ call[p].op = "link" /\ ip[p] # None

\* begin_op(), and the start of the walk.
SysPath(p, c) ==
  /\ At(p, "user") /\ calls < MaxCalls /\ calls' = calls + 1
  /\ D!Begin(p)
  /\ LET i == Start(p, c.path) IN
     /\ Iget(i) /\ copy' = IgetCopy(i)
     /\ cur' = [cur EXCEPT ![p] = i]
  /\ rest' = [rest EXCEPT ![p] = c.path.names] /\ call' = [call EXCEPT ![p] = c]
  /\ Goto(p, "walk")
  /\ UNCHANGED <<lock, files, ip, dp, puts, put, strayed, crashes>>

\* Where a call goes on without the inode it looked for.
Failed(p) == IF call[p].op = "link" /\ ip[p] # None THEN "linkBad" ELSE "end"

\* No name is left: namei() has its inode, nameiparent() no parent to return.
WalkEnd(p) ==
  /\ At(p, "walk") /\ rest[p] = <<>>
  /\ IF WantsParent(p)
       THEN /\ Iputs(p, <<cur[p]>>) /\ cur' = [cur EXCEPT ![p] = None]
            /\ Goto(p, Failed(p))
       ELSE Goto(p, "found") /\ UNCHANGED <<cur, puts>>
  /\ UNCHANGED <<durable, disk, active, table, files, call, rest, ip, dp, put, panic, strayed, bounds>>

\* dirlookup() finds the name in directory i: the history of it.
Looks(i, name) == strayed' = (strayed \/ (name = ".." /\ ~ Named(View, i)))

\* One name of the path, with the inode reached locked meanwhile.
Walk(p) ==
  LET i == cur[p]
      name == Head(rest[p])
      parent == WantsParent(p) /\ Len(rest[p]) = 1
      there == Inode(i).type = "dir" /\ name \in DOMAIN Inode(i).ents
  IN
  /\ At(p, "walk") /\ rest[p] # <<>> /\ Ilock(i)
  /\ \/ /\ Inode(i).type = "dir" /\ parent
        /\ dp' = [dp EXCEPT ![p] = i] /\ cur' = [cur EXCEPT ![p] = None]
        /\ Goto(p, "parent") /\ Reads(i) /\ UNCHANGED <<ref, puts, rest, panic, strayed>>
     \/ /\ Inode(i).type # "dir" \/ (~ parent /\ ~ there)
        /\ Iputs(p, <<i>>) /\ cur' = [cur EXCEPT ![p] = None]
        /\ Goto(p, Failed(p)) /\ Reads(i) /\ UNCHANGED <<ref, dp, rest, panic, strayed>>
     \/ /\ there /\ ~ parent
        /\ LET next == Inode(i).ents[name] IN
           /\ Iget(next) /\ cur' = [cur EXCEPT ![p] = next]
           /\ copy' = [IgetCopy(next) EXCEPT ![i] = Inode(i)]
        /\ Iputs(p, <<i>>)
        /\ rest' = [rest EXCEPT ![p] = Tail(@)] /\ Looks(i, name) /\ UNCHANGED <<pc, dp>>
  /\ UNCHANGED <<durable, disk, active, lock, files, call, ip, put, bounds>>

-----------------------------------------------------------------------------
(***************************************************************************)
(* sysfile.c: calls that take a path name                                  *)
(***************************************************************************)
Type(p) == CASE call[p].op = "mkdir" -> "dir" [] call[p].op = "mknod" -> "dev" [] OTHER -> "file"
Name(p) == Head(rest[p])

\* iunlockput(dp), and on to s.
DropDp(p, s) ==
  /\ Iputs(p, <<dp[p]>>) /\ dp' = [dp EXCEPT ![p] = None]
  /\ Goto(p, s)

\* create(), with the parent directory locked: the name exists, or an inode is
\* taken from the disk, the lock kept, and the inode looked up in the table.
Create(p) ==
  LET d == Inode(dp[p])
      free == {i \in Inums : disk.ino[i].type = "free"}
  IN
  /\ At(p, "parent") /\ Creates(p) /\ Ilock(dp[p])
  /\ \/ /\ Name(p) \in DOMAIN d.ents
        /\ LET i == d.ents[Name(p)] IN
           /\ Iget(i) /\ ip' = [ip EXCEPT ![p] = i]
           /\ copy' = [IgetCopy(i) EXCEPT ![dp[p]] = d]
        /\ Looks(dp[p], Name(p)) /\ DropDp(p, "exists") /\ UNCHANGED <<disk, lock>>
     \/ /\ Name(p) \notin DOMAIN d.ents /\ free = {}
        /\ Reads(dp[p]) /\ DropDp(p, "end") /\ UNCHANGED <<disk, ref, lock, ip, panic, strayed>>
     \/ /\ Name(p) \notin DOMAIN d.ents /\ free # {}
        /\ LET i == Min(free) IN
           /\ disk' = [disk EXCEPT !.ino[i] = Fresh(Type(p))]
           /\ Iget(i) /\ ip' = [ip EXCEPT ![p] = i]
           /\ copy' = [IgetCopy(i) EXCEPT ![dp[p]] = d]
        /\ lock' = [lock EXCEPT ![dp[p]] = p]
        /\ Goto(p, "new") /\ UNCHANGED <<dp, puts, strayed>>
  /\ UNCHANGED <<durable, active, files, call, walk, put, bounds>>

\* The name exists: open() takes a file or a device, mkdir() and mknod() nothing.
CreateExists(p) ==
  /\ At(p, "exists") /\ Ilock(ip[p]) /\ Reads(ip[p])
  /\ IF Type(p) = "file" /\ Inode(ip[p]).type # "dir"
       THEN /\ lock' = [lock EXCEPT ![ip[p]] = p]
            /\ Goto(p, "opening") /\ UNCHANGED <<ip, puts>>
       ELSE /\ Iputs(p, <<ip[p]>>) /\ ip' = [ip EXCEPT ![p] = None]
            /\ Goto(p, "end") /\ UNCHANGED lock
  /\ UNCHANGED <<durable, disk, active, ref, files, call, walk, dp, put, panic, strayed, bounds>>

\* create() in the new inode, as far as dirlink() gets: nlink, and "." and ".." in a
\* directory.
NewInode(p) ==
  LET i == ip[p]
      new == [ok |-> TRUE, inode |-> [Inode(i) EXCEPT !.nlink = 1], used |-> disk.used]
  IN IF Type(p) = "dir" THEN Dirlink(Dirlink(new, ".", i), "..", dp[p]) ELSE new

\* The entry in the parent, if create() gets there.
NewEntry(p) == Dirlink([NewInode(p) EXCEPT !.inode = Inode(dp[p])], Name(p), ip[p])

\* Without a block for the entries nlink goes back to 0.
CreateFails(p) ==
  /\ UpdatesWith(Two(dp[p], NewEntry(p).inode, ip[p], [NewInode(p).inode EXCEPT !.nlink = 0]),
                 NewEntry(p).used)
  /\ Iputs(p, <<ip[p]>>) /\ ip' = [ip EXCEPT ![p] = None]
  /\ Goto(p, "giveUp") /\ UNCHANGED <<lock, dp>>

CreateDone(p) ==
  /\ lock' = [lock EXCEPT ![dp[p]] = Nobody, ![ip[p]] = p]
  /\ DropDp(p, IF call[p].op = "open" THEN "opening" ELSE "made") /\ UNCHANGED ip

\* Mutant: ".." is not counted as a link to the parent.
CreateNewUnlinked(p) ==
  /\ At(p, "new") /\ Ilock(ip[p])
  /\ \/ /\ NewEntry(p).ok /\ CreateDone(p)
        /\ UpdatesWith(Two(dp[p], NewEntry(p).inode, ip[p], NewInode(p).inode), NewEntry(p).used)
     \/ ~ NewEntry(p).ok /\ CreateFails(p)
  /\ UNCHANGED <<durable, active, ref, files, call, walk, put, panic, strayed, bounds>>

\* The rest of create() with both inodes locked: the new inode, its entry, and with a
\* directory the parent's link count.
CreateNew(p) ==
  LET linked == NewEntry(p).inode IN
  /\ At(p, "new") /\ Ilock(ip[p])
  /\ \/ /\ NewEntry(p).ok /\ CreateDone(p)
        /\ UpdatesWith(Two(dp[p], [linked EXCEPT !.nlink = IF Type(p) = "dir" THEN @ + 1 ELSE @],
                           ip[p], NewInode(p).inode),
                       NewEntry(p).used)
     \/ ~ NewEntry(p).ok /\ CreateFails(p)
  /\ UNCHANGED <<durable, active, ref, files, call, walk, put, panic, strayed, bounds>>

\* Mutant: iput(dp) without iunlock(dp).
GiveUpLocked(p) ==
  /\ At(p, "giveUp")
  /\ DropDp(p, Failed(p))
  /\ UNCHANGED <<durable, disk, active, table, files, call, walk, ip, put, panic, strayed, bounds>>

\* Mutant: iunlock(dp) without iput(dp).
GiveUpReferenced(p) ==
  /\ At(p, "giveUp")
  /\ lock' = [lock EXCEPT ![dp[p]] = Nobody] /\ dp' = [dp EXCEPT ![p] = None]
  /\ Goto(p, Failed(p))
  /\ UNCHANGED <<durable, disk, active, ref, copy, files, call, walk, ip, puts, put, panic, strayed, bounds>>

\* iunlockput(dp) at the end of a call that fails.
GiveUp(p) ==
  /\ At(p, "giveUp")
  /\ lock' = [lock EXCEPT ![dp[p]] = Nobody] /\ DropDp(p, Failed(p))
  /\ UNCHANGED <<durable, disk, active, ref, copy, files, call, walk, ip, put, panic, strayed, bounds>>

\* The end of sys_mkdir() and sys_mknod().
Made(p) ==
  /\ At(p, "made")
  /\ lock' = [lock EXCEPT ![ip[p]] = Nobody]
  /\ Iputs(p, <<ip[p]>>) /\ ip' = [ip EXCEPT ![p] = None] /\ Goto(p, "end")
  /\ UNCHANGED <<durable, disk, active, ref, copy, files, call, walk, dp, put, panic, strayed, bounds>>

\* sys_open() of an existing file: a directory only for reading.
OpenFound(p) ==
  LET i == cur[p] IN
  /\ At(p, "found") /\ call[p].op = "open" /\ Ilock(i) /\ Reads(i)
  /\ cur' = [cur EXCEPT ![p] = None]
  /\ IF Inode(i).type = "dir" /\ call[p].mode # {"read"}
       THEN Iputs(p, <<i>>) /\ Goto(p, "end") /\ UNCHANGED <<ip, lock>>
       ELSE /\ ip' = [ip EXCEPT ![p] = i] /\ lock' = [lock EXCEPT ![i] = p]
            /\ Goto(p, "opening") /\ UNCHANGED puts
  /\ UNCHANGED <<durable, disk, active, ref, files, call, rest, dp, put, panic, strayed, bounds>>

FreeFiles == {f \in Files : ftable[f].ref = 0}
FreeFds(p) == {d \in Fds : ofile[p][d] = None}

\* filealloc() and fdalloc(), unless the major number of a device is none (numbers are
\* left out: any device may be refused); the blocks of a file to be truncated are freed.
Open(p) ==
  LET i == ip[p]
      mode == call[p].mode
      truncates == "trunc" \in mode /\ Inode(i).type = "file"
  IN
  /\ At(p, "opening")
  /\ \/ /\ FreeFiles # {} /\ FreeFds(p) # {}
        /\ ftable' = [ftable EXCEPT ![Min(FreeFiles)] =
             [ref |-> 1, ip |-> i, off |-> 0,
              readable |-> "read" \in mode, writable |-> "write" \in mode]]
        /\ ofile' = [ofile EXCEPT ![p][Min(FreeFds(p))] = Min(FreeFiles)]
        /\ IF truncates
             THEN /\ disk' = [disk EXCEPT !.used = @ \ Range(Inode(i).addrs)]
                  /\ copy' = [copy EXCEPT ![i] = Truncated(@)]
                  /\ Goto(p, "truncating") /\ UNCHANGED <<lock, ip>>
             ELSE /\ lock' = [lock EXCEPT ![i] = Nobody] /\ ip' = [ip EXCEPT ![p] = None]
                  /\ Goto(p, "end") /\ UNCHANGED <<disk, copy>>
        /\ UNCHANGED puts
     \/ /\ FreeFiles = {} \/ FreeFds(p) = {} \/ Inode(i).type = "dev"
        /\ lock' = [lock EXCEPT ![i] = Nobody] /\ ip' = [ip EXCEPT ![p] = None]
        /\ Iputs(p, <<i>>) /\ Goto(p, "end")
        /\ UNCHANGED <<disk, copy, ftable, ofile>>
  /\ UNCHANGED <<durable, active, ref, cwd, call, walk, dp, put, panic, strayed, bounds>>

\* The iupdate() of itrunc() in sys_open().
OpenTruncated(p) ==
  /\ At(p, "truncating")
  /\ disk' = [disk EXCEPT !.ino[ip[p]] = copy[ip[p]]]
  /\ lock' = [lock EXCEPT ![ip[p]] = Nobody] /\ ip' = [ip EXCEPT ![p] = None]
  /\ Goto(p, "end")
  /\ UNCHANGED <<durable, active, ref, copy, files, call, walk, dp, puts, put, panic, strayed, bounds>>

\* sys_unlink(), with the directory locked: the name, but not "." or "..".
Unlink(p) ==
  LET d == Inode(dp[p])
      found == Name(p) \in DOMAIN d.ents \ Dots
  IN
  /\ At(p, "parent") /\ call[p].op = "unlink" /\ Ilock(dp[p])
  /\ IF found
       THEN LET i == d.ents[Name(p)] IN
            /\ Iget(i) /\ ip' = [ip EXCEPT ![p] = i]
            /\ copy' = [IgetCopy(i) EXCEPT ![dp[p]] = d]
            /\ lock' = [lock EXCEPT ![dp[p]] = p]
            /\ Goto(p, "unlinking") /\ UNCHANGED <<dp, puts>>
       ELSE Reads(dp[p]) /\ DropDp(p, "end") /\ UNCHANGED <<ref, lock, ip, panic>>
  /\ UNCHANGED <<durable, disk, active, files, call, walk, put, strayed, bounds>>

\* With both locked: a directory must be empty; the entry goes, and with a
\* directory its ".." as a link to dp.
UnlinkEntry(p) ==
  LET i == ip[p]
      isDir == Inode(i).type = "dir"
      d == Unlinked(Inode(dp[p]), Name(p))
  IN
  /\ At(p, "unlinking") /\ Ilock(i)
  /\ panic' = IF Inode(i).nlink < 1 THEN "unlink: nlink < 1" ELSE panic
  /\ \/ /\ isDir /\ ~ IsDirEmpty(Inode(i))
        /\ Iputs(p, <<i>>) /\ ip' = [ip EXCEPT ![p] = None]
        /\ Reads(i) /\ Goto(p, "giveUp") /\ UNCHANGED <<disk, lock, dp>>
     \/ /\ isDir => IsDirEmpty(Inode(i))
        /\ Updates(Two(dp[p], [d EXCEPT !.nlink = IF isDir THEN @ - 1 ELSE @], i, Inode(i)))
        /\ lock' = [lock EXCEPT ![dp[p]] = Nobody, ![i] = p]
        /\ DropDp(p, "unlinked") /\ UNCHANGED ip
  /\ UNCHANGED <<durable, active, ref, files, call, walk, put, strayed, bounds>>

\* ip->nlink--, and the last iunlockput().
UnlinkInode(p) ==
  LET i == ip[p] IN
  /\ At(p, "unlinked")
  /\ Updates(One(i, [copy[i] EXCEPT !.nlink = @ - 1]))
  /\ lock' = [lock EXCEPT ![i] = Nobody]
  /\ Iputs(p, <<i>>) /\ ip' = [ip EXCEPT ![p] = None] /\ Goto(p, "end")
  /\ UNCHANGED <<durable, active, ref, files, call, walk, dp, put, panic, strayed, bounds>>

\* sys_link(): the link is counted first, then the second path is walked.
Link(p) ==
  LET i == cur[p]
      start == Start(p, call[p].new)
  IN
  /\ At(p, "found") /\ call[p].op = "link" /\ Ilock(i)
  /\ \/ /\ Inode(i).type = "dir"
        /\ Iputs(p, <<i>>) /\ cur' = [cur EXCEPT ![p] = None]
        /\ Goto(p, "end") /\ Reads(i) /\ UNCHANGED <<disk, ref, ip, rest, panic>>
     \/ /\ Inode(i).type # "dir"
        /\ Updates(One(i, [Inode(i) EXCEPT !.nlink = @ + 1]))
        /\ ip' = [ip EXCEPT ![p] = i]
        /\ Iget(start) /\ cur' = [cur EXCEPT ![p] = start]
        /\ rest' = [rest EXCEPT ![p] = call[p].new.names]
        /\ Goto(p, "walk") /\ UNCHANGED puts
  /\ UNCHANGED <<durable, active, lock, files, call, dp, put, strayed, bounds>>

\* dirlink() of the new name: it may exist, and a block may be missing.
LinkEntry(p) ==
  LET d == Inode(dp[p])
      i == ip[p]
      linked == Dirlink([ok |-> TRUE, inode |-> d, used |-> disk.used], Name(p), i)
  IN
  /\ At(p, "parent") /\ call[p].op = "link" /\ Ilock(dp[p])
  /\ \/ /\ Name(p) \in DOMAIN d.ents
        /\ LET e == d.ents[Name(p)] IN
           /\ Iget(e) /\ Iputs(p, <<e>>)
           /\ copy' = [IgetCopy(e) EXCEPT ![dp[p]] = d]
        /\ lock' = [lock EXCEPT ![dp[p]] = p]
        /\ Looks(dp[p], Name(p)) /\ Goto(p, "giveUp") /\ UNCHANGED <<disk, ip, dp>>
     \/ /\ Name(p) \notin DOMAIN d.ents /\ ~ linked.ok
        /\ UpdatesWith(One(dp[p], linked.inode), linked.used)
        /\ DropDp(p, "linkBad") /\ UNCHANGED <<ref, lock, ip, panic, strayed>>
     \/ /\ linked.ok
        /\ UpdatesWith(One(dp[p], linked.inode), linked.used)
        /\ Iputs(p, <<dp[p], i>>)
        /\ dp' = [dp EXCEPT ![p] = None] /\ ip' = [ip EXCEPT ![p] = None]
        /\ Goto(p, "end") /\ UNCHANGED <<ref, lock, panic, strayed>>
  /\ UNCHANGED <<durable, active, files, call, walk, put, bounds>>

\* bad: the link is not made after all.
LinkBad(p) ==
  LET i == ip[p] IN
  /\ At(p, "linkBad") /\ Ilock(i)
  /\ Updates(One(i, [Inode(i) EXCEPT !.nlink = @ - 1]))
  /\ Iputs(p, <<i>>) /\ ip' = [ip EXCEPT ![p] = None] /\ Goto(p, "end")
  /\ UNCHANGED <<durable, active, ref, lock, files, call, walk, dp, put, panic, strayed, bounds>>

\* sys_chdir(): the reference to the old directory is dropped in the transaction.
Chdir(p) ==
  LET i == cur[p] IN
  /\ At(p, "found") /\ call[p].op = "chdir" /\ Ilock(i) /\ Reads(i)
  /\ cur' = [cur EXCEPT ![p] = None]
  /\ IF Inode(i).type # "dir"
       THEN Iputs(p, <<i>>) /\ Goto(p, "end") /\ UNCHANGED ip
       ELSE Iputs(p, <<cwd[p]>>) /\ ip' = [ip EXCEPT ![p] = i] /\ Goto(p, "chdir")
  /\ UNCHANGED <<durable, disk, active, ref, lock, files, call, rest, dp, put, panic, strayed, bounds>>

\* end_op(), then p->cwd = ip.
ChdirEnd(p) ==
  /\ At(p, "chdir") /\ D!End(p)
  /\ cwd' = [cwd EXCEPT ![p] = ip[p]] /\ ip' = [ip EXCEPT ![p] = None]
  /\ call' = [call EXCEPT ![p] = NoCall] /\ Goto(p, "user")
  /\ UNCHANGED <<table, ftable, ofile, walk, dp, puts, put, panic, strayed, bounds>>

-----------------------------------------------------------------------------
(***************************************************************************)
(* Calls on descriptors                                                    *)
(***************************************************************************)
\* argfd() finds an open file, the call is one of those TLC tries.
OnFile(p, d, op) ==
  /\ At(p, "user") /\ calls < MaxCalls /\ calls' = calls + 1
  /\ \E c \in Calls : c.op = op
  /\ ofile[p][d] # None

Dup(p, d) ==
  /\ OnFile(p, d, "dup") /\ FreeFds(p) # {}
  /\ ofile' = [ofile EXCEPT ![p][Min(FreeFds(p))] = ofile[p][d]]
  /\ ftable' = [ftable EXCEPT ![ofile[p][d]].ref = @ + 1]
  /\ UNCHANGED <<durable, disk, active, table, cwd, pc, locals, puts, put, panic, strayed, crashes>>

\* sys_close() and fileclose(): the last one drops the inode in a transaction.
Close(p, d) ==
  LET f == ofile[p][d] IN
  /\ OnFile(p, d, "close")
  /\ ofile' = [ofile EXCEPT ![p][d] = None]
  /\ IF ftable[f].ref > 1
       THEN /\ ftable' = [ftable EXCEPT ![f].ref = @ - 1]
            /\ UNCHANGED <<pc, ip>>
       ELSE /\ ftable' = [ftable EXCEPT ![f] = NoFile]
            /\ ip' = [ip EXCEPT ![p] = ftable[f].ip] /\ Goto(p, "closing")
  /\ UNCHANGED <<durable, disk, active, table, cwd, call, walk, dp, puts, put, panic, strayed, crashes>>

CloseInode(p) ==
  /\ At(p, "closing") /\ D!Begin(p)
  /\ Iputs(p, <<ip[p]>>) /\ ip' = [ip EXCEPT ![p] = None] /\ Goto(p, "end")
  /\ UNCHANGED <<table, files, call, walk, dp, put, panic, strayed, bounds>>

IsData(f) == Inode(ftable[f].ip).type # "dev"

\* fileread(): one block at f->off, which moves under the lock of the inode.
Read(p, d) ==
  LET f == ofile[p][d]
      i == ftable[f].ip
  IN
  /\ OnFile(p, d, "read") /\ ftable[f].readable /\ IsData(f) /\ Ilock(i) /\ Reads(i)
  /\ ftable' = [ftable EXCEPT ![f].off = IF @ < Inode(i).size THEN @ + 1 ELSE @]
  /\ UNCHANGED <<durable, disk, active, ref, lock, ofile, cwd, pc, locals, puts, put, panic, strayed, crashes>>

\* filewrite(): as many transactions as there are chunks, here of one block.
Write(p, d) ==
  /\ OnFile(p, d, "write") /\ ftable[ofile[p][d]].writable /\ IsData(ofile[p][d])
  /\ \E c \in Calls : c.op = "write"
       /\ call' = [call EXCEPT ![p] = [op |-> "write", f |-> ofile[p][d], left |-> c.n]]
  /\ Goto(p, "writing")
  /\ UNCHANGED <<durable, disk, active, table, files, walk, ip, dp, puts, put, panic, strayed, crashes>>

WriteBegin(p) ==
  /\ At(p, "writing") /\ D!Begin(p) /\ Goto(p, "chunk")
  /\ UNCHANGED <<table, files, locals, puts, put, panic, strayed, bounds>>

\* writei() of a chunk: bmap() may need a block and get none, or the copy from user space
\* fails after it; what remains of the call is given up when it writes nothing.
WriteChunk(p) ==
  LET f == call[p].f
      i == ftable[f].ip
      inode == Inode(i)
      off == ftable[f].off
      inRange == off <= inode.size /\ off < MAXFILE
      m == IF off < DataBlocks(inode.addrs) THEN [addrs |-> inode.addrs, used |-> disk.used]
                                            ELSE Bmap(inode.addrs, disk.used)
      size == IF off >= inode.size THEN off + 1 ELSE inode.size
  IN
  /\ At(p, "chunk") /\ Ilock(i) /\ Goto(p, "end")
  /\ \/ /\ inRange /\ off < DataBlocks(m.addrs)
        /\ UpdatesWith(One(i, [inode EXCEPT !.addrs = m.addrs, !.size = size]), m.used)
        /\ ftable' = [ftable EXCEPT ![f].off = off + 1]
        /\ call' = [call EXCEPT ![p].left = @ - 1]
     \/ /\ inRange
        /\ UpdatesWith(One(i, [inode EXCEPT !.addrs = m.addrs]), m.used)
        /\ call' = [call EXCEPT ![p].left = 0] /\ UNCHANGED ftable
     \/ /\ ~ inRange
        /\ Reads(i)
        /\ call' = [call EXCEPT ![p].left = 0] /\ UNCHANGED <<disk, ftable>>
  /\ UNCHANGED <<durable, active, ref, lock, ofile, cwd, walk, ip, dp, puts, put, panic, strayed, bounds>>

-----------------------------------------------------------------------------
\* The inode p is about to lock.
Wants(p) ==
  IF puts[p] # <<>>
    THEN IF put[p] = "no" /\ LastRef(Head(puts[p])) THEN Head(puts[p]) ELSE None
    ELSE CASE (pc[p] = "walk" /\ rest[p] # <<>>) \/ pc[p] = "found" -> cur[p]
           [] pc[p] = "parent" -> dp[p]
           [] pc[p] \in {"exists", "new", "unlinking", "linkBad"} -> ip[p]
           [] pc[p] = "chunk" -> ftable[call[p].f].ip
           [] OTHER -> None

\* The panics of ilock(): nobody refers to the inode, or it is not allocated.
IlockPanics(p) ==
  LET i == Wants(p) IN
  /\ panic = "none" /\ puts[p] = <<>> /\ i # None /\ lock[i] = Nobody
  /\ ref[i] < 1 \/ Inode(i).type = "free"
  /\ panic' = IF ref[i] < 1 THEN "ilock" ELSE "ilock: no type"
  /\ UNCHANGED <<durable, disk, active, table, files, pc, locals, puts, put, strayed, bounds>>

Path(p) ==
  \/ \E c \in Calls : "path" \in DOMAIN c /\ SysPath(p, c)
  \/ WalkEnd(p) \/ Walk(p)
  \/ Create(p) \/ CreateExists(p) \/ CreateNew(p) \/ GiveUp(p) \/ Made(p)
  \/ OpenFound(p) \/ Open(p) \/ OpenTruncated(p)
  \/ Unlink(p) \/ UnlinkEntry(p) \/ UnlinkInode(p)
  \/ Link(p) \/ LinkEntry(p) \/ LinkBad(p)
  \/ Chdir(p) \/ ChdirEnd(p)

Descriptor(p) ==
  \/ \E d \in Fds : Dup(p, d) \/ Close(p, d) \/ Read(p, d) \/ Write(p, d)
  \/ CloseInode(p) \/ WriteBegin(p) \/ WriteChunk(p)

Step(p) == Path(p) \/ Descriptor(p) \/ EndOp(p) \/ IputLast(p) \/ IputFree(p) \/ IputDrop(p)
           \/ IlockPanics(p)

\* Every call has returned and no other is made, or the kernel has stopped.
Quiet ==
  /\ panic # "none" \/ \A p \in Procs : pc[p] = "user"
  /\ UNCHANGED vars

Next == (\E p \in Procs : Step(p)) \/ Commit \/ Crash \/ Quiet

Spec == Init /\ [][Next]_vars

-----------------------------------------------------------------------------
(***************************************************************************)
(* Properties                                                              *)
(***************************************************************************)
\* The variables hold what their declarations say, and the counts of references of
\* an inode and of a file never go below zero.
TypeOK ==
  /\ IsDisk(disk) /\ IsDisk(durable) /\ active \subseteq Procs
  /\ \A i \in Inums :
       /\ copy[i] # NotRead => IsInode(copy[i])
       /\ ref[i] \in Nat /\ lock[i] \in Procs \cup {Nobody}
  /\ \A f \in Files : ftable[f].ref \in Nat /\ ftable[f].ip \in Inums \cup {None}
  /\ \A p \in Procs :
       /\ cwd[p] \in Inums /\ {cur[p], ip[p], dp[p]} \subseteq Inums \cup {None}
       /\ ofile[p] \in [Fds -> Files \cup {None}]
       /\ rest[p] \in Seq(STRING) /\ puts[p] \in Seq(Inums)

\* What a crash leaves is a file system: no block is lost, in two inodes or in one and
\* free, and no inode has more links than it counts.  The latter unless a path has led
\* through the ".." of a removed directory: create() has no lock on its new inode between
\* ialloc() and ilock(), and somebody who comes to its number that way may be there first.
DurableSound ==
  /\ BlocksOwned(durable.ino, durable.used)
  /\ strayed \/ LinksCounted(durable.ino)

\* Nor do two inodes share a block while the system runs, or have a block the
\* bitmap calls free; what counts is the copy in memory.
BlocksExclusive == BlocksOwned(View, disk.used)

\* The references to i that somebody holds; sys_open() has passed its own to the
\* file when it truncates.
Holders(i) ==
  {<<"cwd", p>> : p \in {q \in Procs : cwd[q] = i /\ pc[q] # "chdir"}}
  \cup {<<"file", f>> : f \in {g \in Files : ftable[g].ref > 0 /\ ftable[g].ip = i}}
  \cup {<<"cur", p>> : p \in {q \in Procs : cur[q] = i}}
  \cup {<<"ip", p>> : p \in {q \in Procs : ip[q] = i /\ pc[q] # "truncating"}}
  \cup {<<"dp", p>> : p \in {q \in Procs : dp[q] = i}}
  \cup UNION {{<<"put", p, k>> : k \in {m \in DOMAIN puts[p] : puts[p][m] = i}} : p \in Procs}

\* ip->ref counts them: no reference is leaked on any path through a call, none
\* is dropped twice; and so does f->ref with the descriptors.  An inode that a process
\* refers to stays allocated, even when it is unlinked.
RefsCounted ==
  /\ \A i \in Inums : ref[i] = Cardinality(Holders(i))
  /\ \A f \in Files : ftable[f].ref = Cardinality({x \in Procs \X Fds : ofile[x[1]][x[2]] = f})
  /\ strayed \/ \A i \in Inums :
                  (\E h \in Holders(i) : h[1] # "put") => disk.ino[i].type # "free"

\* The calls bring the kernel to a stop only where iget() finds NINODE inodes in use besides
\* the one it looks for, or after a path has led through the ".." of a removed directory;
\* never in bfree() or for want of a reference.
PanicsRare ==
  /\ panic \in {"none", "iget: no inodes"}
               \cup IF strayed THEN {"ilock: no type", "unlink: nlink < 1"} ELSE {}
  /\ panic = "iget: no inodes" => Cardinality(InUse) > NINODE

\* As long as they do not, there is a process inside a call that nobody keeps waiting
\* for a lock.
Blocked(p) == Wants(p) # None /\ lock[Wants(p)] # Nobody
SomebodyRuns ==
  LET busy == {p \in Procs : pc[p] # "user"} IN
  panic = "none" /\ busy # {} => \E p \in busy : ~ Blocked(p)

CallsGoOn == PanicsRare /\ SomebodyRuns
=============================================================================
