----------------------------- MODULE XvFs_proofs -----------------------------
(***************************************************************************)
(* Proofs about the file system of xv6: whatever the number of processes,  *)
(* inodes, blocks, open files and descriptors, the calls that are made and *)
(* the disk that mkfs left, no block has two owners, reference counts are  *)
(* exact, and the sleep-locks of inodes never close a cycle of processes   *)
(* that wait for each other.  Up to the first path that leads through the  *)
(* ".." of a removed directory (strayed), a crash finds links that are     *)
(* counted, nobody has an inode that is freed, and no call panics.         *)
(*                                                                         *)
(* XvFsLemmas has the inductive invariant, Good, and the steps that write  *)
(* no inode.  Here are those that write one, the theorems that follow from *)
(* Good, and Ordered, the order in which the locks of inodes are taken.    *)
(***************************************************************************)
EXTENDS XvFsLemmas

-----
\* The steps that write inodes keep Good: create() and open().
\* create() looks the name up and takes a free inode.
LEMMA CreateMakes ==
  ASSUME Good, NEW p \in Procs, Create(p), pc'[p] = "new"
  PROVE  Good'
<1>1. Typed /\ Shape(p) /\ Locks /\ Coherent /\ RefsOK /\ FilesOK /\ OwnLocks(p) /\ Shaped
        /\ UnlinkOK
  BY DEF Good, Core, Shaped, Locks, OwnLocks
<1>2. /\ pc[p] = "parent" /\ puts[p] = <<>> /\ put[p] = "no" /\ cur[p] = None /\ ip[p] = None
      /\ dp[p] \in Inums /\ p \in active /\ cwd[p] \in Inums /\ Creates(p) /\ Ilock(dp[p])
      /\ rest[p] # <<>>
  BY <1>1 DEF Create, At, Typed, ProcsTyped, Shape, WithCur, WithDp, WithIp, NoPuts, FilesTyped,
    Creates
<1>3. PICK d \in Inums : d = dp[p] /\ lock[d] = Nobody /\ Inode(d).type # "free"
  BY <1>2 DEF Ilock
<1>4. PICK i \in Inums : i = Min({k \in Inums : disk.ino[k].type = "free"})
        /\ disk.ino[i].type = "free"
  <2> DEFINE F == {k \in Inums : disk.ino[k].type = "free"}
  <2>1. F # {} BY <1>1, <1>2 DEF Create, DropDp, Goto, Typed, ProcsTyped
  <2>2. F \in SUBSET Nat BY SizesAssumption DEF Inums
  <2>3. Min(F) \in F BY <2>1, <2>2, MinIs
  <2> QED BY <2>3
<1>5. UNCHANGED <<durable, active, ftable, ofile, cwd, call, cur, rest, dp, puts, put, strayed>>
  BY <1>1, <1>2 DEF Create, DropDp, Goto, Typed, ProcsTyped, files, walk
<1>6. /\ pc' = [pc EXCEPT ![p] = "new"] /\ ip' = [ip EXCEPT ![p] = i]
      /\ lock' = [lock EXCEPT ![d] = p] /\ disk' = [disk EXCEPT !.ino[i] = Fresh(Type(p))]
      /\ ref' = [ref EXCEPT ![i] = @ + 1] /\ copy' = [IgetCopy(i) EXCEPT ![d] = Inode(d)]
      /\ Name(p) \notin DOMAIN Inode(d).ents
  BY <1>1, <1>2, <1>3, <1>4 DEF Create, DropDp, Goto, Iget, Typed, ProcsTyped
<1>7. /\ IsInode(disk.ino[i]) /\ disk.ino[i] = Fresh("free") /\ copy[i] = NotRead
      /\ View[i] = Fresh("free")
      /\ lock[i] = Nobody /\ i # d /\ View[d] = Inode(d) /\ IsInode(Inode(d)) /\ Inode(d) # NotRead
      /\ disk.used \in SUBSET Blocks
  <2>1. IsInode(disk.ino[i]) /\ disk.ino[i] = Fresh("free") /\ disk.used \in SUBSET Blocks
    BY <1>1, <1>4, Zenon DEF Typed, DiskTyped, IsDisk, IsInode
  <2>2. copy[i] = NotRead BY <1>1, <1>4 DEF Coherent
  <2>3. lock[i] = Nobody BY <1>1, <2>2 DEF Locks
  <2>4. Inode(i) = disk.ino[i] /\ i # d BY <1>3, <1>4, <2>2 DEF Inode
  <2> QED BY <1>1, <2>1, <2>2, <2>3, <2>4, InodeIs, Zenon
<1>8. PICK x : /\ x = Fresh(Type(p)) /\ IsInode(x) /\ x.type # "free" /\ x.nlink = 0
               /\ x.addrs = <<>>
               /\ x.ents = NoEntry
  <2>1. PICK t \in {"dir", "dev", "file"} : t = Type(p) BY DEF Type
  <2> QED BY <2>1, FreshIs
<1>9. /\ copy' = [k \in Inums |-> copy'[k]] /\ copy'[i] = NotRead /\ copy'[d] = Inode(d)
      /\ \A k \in Inums \ {i, d} : copy'[k] = copy[k]
  <2>1. /\ IgetCopy(i) = [k \in Inums |-> IgetCopy(i)[k]]
        /\ IgetCopy(i)[i] = IF ref[i] = 0 THEN NotRead ELSE copy[i]
        /\ \A k \in Inums \ {i} : IgetCopy(i)[k] = copy[k]
    BY <1>1, IgetIs
  <2> QED BY <1>6, <1>7, <2>1
<1>10. /\ disk'.used = disk.used /\ disk'.ino[i] = x /\ IsDisk(disk')
       /\ \A k \in Inums \ {i} : disk'.ino[k] = disk.ino[k]
  <2>1. /\ disk' = [ino |-> disk'.ino, used |-> disk'.used] /\ disk'.used = disk.used
        /\ disk'.ino = [disk.ino EXCEPT ![i] = x]
    BY <1>1, <1>6, <1>8 DEF Typed, DiskTyped, IsDisk
  <2>2. /\ disk'.ino = [k \in Inums |-> disk'.ino[k]] /\ disk'.ino[i] = x
        /\ \A k \in Inums \ {i} : disk'.ino[k] = disk.ino[k]
    BY <1>1, <2>1 DEF Typed, DiskTyped, IsDisk
  <2>3. \A k \in Inums : IsInode(disk'.ino[k]) BY <1>1, <1>8, <2>2 DEF Typed, DiskTyped, IsDisk
  <2> QED BY <1>7, <2>1, <2>2, <2>3 DEF IsDisk
<1>11. View'[i] = x /\ \A k \in Inums \ {i} : View'[k] = View[k]
  <2>1. \A k \in Inums : View'[k] = IF copy'[k] = NotRead THEN disk'.ino[k] ELSE copy'[k]
    BY DEF View, Inode
  <2>2. \A k \in Inums : View[k] = IF copy[k] = NotRead THEN disk.ino[k] ELSE copy[k]
    BY DEF View, Inode
  <2>3. View'[d] = View[d] BY <1>7, <1>9, <2>1
  <2> QED BY <1>9, <1>10, <2>1, <2>2, <2>3
<1>12. /\ pc'[p] = "new" /\ cur'[p] = None /\ ip'[p] = i /\ dp'[p] = d
       /\ puts'[p] = <<>> /\ put'[p] = "no" /\ rest'[p] = rest[p]
       /\ call'[p] = call[p] /\ cwd'[p] = cwd[p]
  BY <1>1, <1>2, <1>3, <1>5, <1>6 DEF Typed, ProcsTyped
<1>13. Others(p) BY <1>1, <1>5, <1>6 DEF Typed, ProcsTyped, Others
<1>14. ProcsTyped' BY <1>1, <1>5, <1>6 DEF Typed, ProcsTyped, Labels
<1>15. Typed'
  <2>1. DiskTyped' BY <1>1, <1>5, <1>10 DEF Typed, DiskTyped
  <2>2. ref' \in [Inums -> Int] /\ lock' \in [Inums -> Procs \cup {Nobody}]
    BY <1>1, <1>6 DEF Typed, TableTyped
  <2>3. \A k \in Inums : copy'[k] # NotRead => IsInode(copy'[k])
    BY <1>1, <1>7, <1>9 DEF Typed, TableTyped
  <2>4. TableTyped' BY <1>9, <2>2, <2>3 DEF TableTyped
  <2>5. FilesTyped' BY <1>1, <1>5 DEF Typed, FilesTyped
  <2> QED BY <1>14, <2>1, <2>4, <2>5 DEF Typed
<1>16. Shape(p)'
  BY <1>1, <1>2, <1>5, <1>12, SeqsAre, NoneIs DEF Shape, WithCur, WithDp, WithIp, NoPuts,
    Creates
<1>17. LocksMove(p)
  <2>1. lock'[d] = p /\ \A k \in Inums \ {d} : lock'[k] = lock[k]
    BY <1>1, <1>6 DEF Typed, TableTyped
  <2> QED BY <1>3, <1>7, <1>9, <2>1 DEF LocksMove
<1>18. \A k \in Inums : Apart(p, k)' BY <1>12 DEF Apart, Freeing
<1>19. OwnLocks(p)'
  <2>1. lock'[d] = p /\ \A k \in Inums \ {d} : lock'[k] = lock[k]
    BY <1>1, <1>6 DEF Typed, TableTyped
  <2> QED BY <1>1, <1>2, <1>12, <2>1 DEF OwnLocks, HoldsLock, Freeing, LocksIp, LocksDp
<1>20. Coherent'
  <2>1. \A k \in Inums \ {i} : /\ disk'.ino[k] = disk.ino[k]
                               /\ copy'[k] = copy[k]
                                    \/ (copy'[k] = Inode(k) /\ lock[k] = Nobody /\ Inode(k).type # "free")
                               /\ ~ Freeing(p, k) /\ ~ Freeing(p, k)' /\ ~ Truncates(p, k)
    BY <1>2, <1>3, <1>9, <1>10, <1>12 DEF Freeing, Truncates
  <2>2. ~ Freeing(p, i)' /\ copy'[i] = NotRead BY <1>9, <1>12 DEF Freeing
  <2>3. Typed /\ Shaped /\ Locks /\ Coherent /\ Others(p) /\ lock[i] \in {p, Nobody}
    BY <1>1, <1>7, <1>13
  <2> QED BY <2>1, <2>2, <2>3, CoherentOne
<1>21. \A k \in Inums : lock[k] \in Procs \ {p} => View'[k] = View[k]
  BY <1>7, <1>11, ProcsAssumption
<1>22. UnlinksOwn(p)' /\ SameFiles(p) BY <1>5, <1>12 DEF UnlinksOwn, SameFiles
<1>23. FilesOK' /\ \A k \in Inums : InFile(k)' <=> InFile(k) BY <1>1, <1>13, <1>22, FilesStay
<1>24. RefsOK'
  <2>1. ASSUME NEW k \in Inums PROVE ref'[k] + Mine(p, k) = ref[k] + Mine(p, k)'
    <3>1. ref'[k] = ref[k] + Is(i, k) /\ ref[k] \in Int BY <1>1, <1>6 DEF Is, Typed, TableTyped
    <3>2. Mine(p, k) = Is(cwd[p], k) + Is(d, k)
      BY <1>1, <1>2, <1>3, IsAre, PutsAre DEF Mine, CwdOf, IpOf
    <3>3. Mine(p, k)' = Is(cwd[p], k) + Is(i, k) + Is(d, k)
      BY <1>12, IsAre, PutsAre DEF Mine, CwdOf, IpOf
    <3>4. \A v : Is(v, k) \in Int BY IsAre
    <3> QED BY <3>1, <3>2, <3>3, <3>4
  <2> QED BY <1>1, <1>13, <1>15, <1>22, <2>1, RefsStay
<1>25. BlocksOwned(View, disk.used)'
  <2>1. BlocksOwned(View, disk.used) BY DEF Good, Core
  <2>2. \A k \in Inums : Range(View'[k].addrs) = Range(View[k].addrs)
    <3>1. View[i].addrs = <<>> BY <1>7, FreshIs
    <3> QED BY <1>8, <1>11, <3>1
  <2>3. BlocksOwned(View', disk.used) BY <2>1, <2>2, BlocksStay
  <2> QED BY <1>10, <2>3
<1>26. Sound => Goes(p) /\ Changes(p) /\ Counted' /\ Tree(View') /\ NewAlone(p)'
  <2> SUFFICES ASSUME Sound PROVE Goes(p) /\ Changes(p) /\ Counted' /\ Tree(View') /\ NewAlone(p)'
    OBVIOUS
  <2>1. View[i].nlink = 0 /\ View[i].type = "free" /\ View[i].ents = NoEntry BY <1>7, FreshIs
  <2>2. ~ Held(i) /\ \A q \in Procs : ~ Freeing(q, i)
    BY <1>1, <1>7, <2>1, ProcsAssumption DEF Sound, Alive, Locks, HoldsLock
  <2>3. ~ InFile(i) /\ (\A q \in Procs : ~ Holds(q, i)) /\ cwd[p] # i
    <3>1. cwd[p] = i => Holds(p, i) BY <1>2 DEF Holds
    <3> QED BY <2>2, <3>1 DEF Held
  <2>4. Makes(p, i) BY <1>2, <1>7, <1>8, <1>11, <1>12, <2>2, <2>3, NoneIs DEF Makes, Reached
  <2>5. \A k \in Inums : /\ Holds(p, k)' => Holds(p, k) \/ k = i
                         /\ Reached(p, k)' => Reached(p, k)
                         /\ copy'[k] = copy[k] \/ Holds(p, k)
    BY <1>2, <1>3, <1>7, <1>9, <1>12, PutsAre, NoneIs DEF Holds, Reached
  <2>6. View[d].type = "dir" BY <1>2, <1>3, NoneIs DEF Sound, Reaching
  <2>7. Goes(p) BY <1>12, <1>23, <2>4, <2>5, <2>6 DEF Goes
  <2>8. Changes(p)
    <3>1. ASSUME NEW k \in Inums \ {i} PROVE View'[k] = View[k] /\ (HasEntries(k) => HasEntries(k)')
      BY <1>11 DEF HasEntries
    <3>2. \A k \in Inums : ~ Freeing(p, k)' BY <1>12 DEF Freeing
    <3> QED BY <1>21, <2>4, <3>1, <3>2 DEF Changes
  <2>9. LinksTo(View, i) = {} /\ Inos(View) BY <1>1, <2>1, Unlinkedness, InodeIs DEF Sound
  <2>10. Tree(View') /\ NoMore(View, View') BY <1>8, <1>11, <2>9, Emptied DEF Sound
  <2>11. \A k \in Inums : Pends(p, k)' <=> Pends(p, k) BY <1>2, <1>12, NoneIs DEF Pends
  <2>12. ASSUME NEW k \in Inums
         PROVE  View'[k].nlink - Links(k)' - Pend(p, k)' >= View[k].nlink - Links(k) - Pend(p, k)
    <3>1. LinksTo(View', k) \subseteq LinksTo(View, k) /\ View'[k].nlink = View[k].nlink
      BY <1>8, <1>11, <2>1, <2>10 DEF NoMore
    <3> QED BY <1>1, <1>15, <2>11, <3>1, LinksFall
  <2>13. Counted' BY <1>1, <1>13, <1>15, <2>12, CountedKept DEF Sound, Pend
  <2>14. NewAlone(p)'
    <3>1. /\ Type(p)' = Type(p) /\ Name(p)' = Name(p) /\ View'[ip'[p]] = Fresh(Type(p))
          /\ copy'[ip'[p]] = NotRead
      BY <1>5, <1>8, <1>9, <1>11, <1>12 DEF Type, Name
    <3>2. Name(p) \notin DOMAIN View'[dp'[p]].ents BY <1>6, <1>7, <1>11, <1>12
    <3>3. ~ InFile(i)' /\ \A q \in Procs \ {p} : ~ Holds(q, i)'
      BY <1>13, <1>23, <2>3, OthersHold
    <3>4. cwd'[p] # ip'[p] /\ dp'[p] # ip'[p] BY <1>7, <1>12, <2>3
    <3>5. /\ Fresh(Type(p))' = Fresh(Type(p)) /\ ~ InFile(ip[p])'
               /\ \A q \in Procs \ {p} : ~ Holds(q, ip[p])'
      BY <1>12, <3>1, <3>3 DEF Fresh, InFile, Holds
    <3> QED BY <3>1, <3>2, <3>4, <3>5 DEF NewAlone
  <2> QED BY <2>7, <2>8, <2>10, <2>13, <2>14
<1> QED BY <1>5, <1>13, <1>15, <1>16, <1>17, <1>18, <1>19, <1>20, <1>21, <1>22, <1>23, <1>24,
  <1>25, <1>26, MovesGood

\* create() fills and links the inode.
LEMMA CreateNewFails ==
  ASSUME Good, NEW p \in Procs, CreateNew(p), pc'[p] = "giveUp"
  PROVE  Good'
<1>1. Typed /\ Shape(p) /\ Locks /\ Coherent /\ RefsOK /\ FilesOK /\ OwnLocks(p) /\ Shaped
        /\ UnlinkOK
  BY DEF Good, Core, Shaped, Locks, OwnLocks
<1>2. /\ pc[p] = "new" /\ puts[p] = <<>> /\ put[p] = "no" /\ cur[p] = None
      /\ dp[p] \in Inums /\ ip[p] \in Inums /\ p \in active /\ cwd[p] \in Inums
  BY <1>1 DEF CreateNew, CreateFails, CreateDone, At, Goto, Iputs, D!Begin, D!End, Typed,
    ProcsTyped, Shape, WithCur, WithDp, WithIp, NoPuts, FilesTyped
<1>3. lock[dp[p]] = p /\ lock[ip[p]] = Nobody /\ ip[p] # dp[p] /\ Inode(ip[p]).type # "free"
  BY <1>1, <1>2, ProcsAssumption DEF CreateNew, Ilock, OwnLocks, HoldsLock, LocksDp
<1>4. /\ IsInode(Inode(dp[p])) /\ IsInode(Inode(ip[p])) /\ Inode(dp[p]).type # "free"
      /\ disk.used \in SUBSET Blocks /\ call[p].op # "link"
  BY <1>1, <1>2, <1>3, InodeIs, ProcsAssumption DEF Typed, DiskTyped, IsDisk, Locks, Coherent,
    Inode, Shape, Creates
<1>5. rest[p] # <<>> /\ rest[p] \in Seq(STRING) BY <1>1, <1>2 DEF Shape, Typed, ProcsTyped
<1>6. Name(p) \in STRING BY <1>5 DEF Name
<1>7. PICK z, u : IsNew(p, Inode(ip[p]), z, u) BY <1>2, <1>3, <1>4, NewIs
<1>8. /\ NewInode(p).inode = z /\ NewInode(p).used = u /\ u \in SUBSET Blocks /\ IsInode(z)
      /\ z.type # "free" /\ z.type = Inode(ip[p]).type /\ z.nlink = 1
      /\ Takes(Inode(ip[p]).addrs, disk.used, z.addrs, u)
  BY <1>7 DEF IsNew
<1>9. PICK n \in Int : n = 0 OBVIOUS
<1>10. PICK y : /\ y = [z EXCEPT !.nlink = n] /\ IsInode(y) /\ y.type # "free" /\ y.type = z.type
                /\ y.nlink = n /\ y.addrs = z.addrs /\ y.ents = z.ents
  BY <1>8, NlinkIs
<1>11. [NewInode(p).inode EXCEPT !.nlink = 0] = y /\ y.nlink = 0 BY <1>8, <1>9, <1>10
<1>32. PICK g, m : /\ g = NewEntry(p).inode /\ m = NewEntry(p).used
                   /\ NewEntry(p).ok \in BOOLEAN /\ m \in SUBSET Blocks
                   /\ IsInode(g) /\ g.type # "free" /\ g.type = Inode(dp[p]).type
                   /\ g.nlink = Inode(dp[p]).nlink /\ Takes(Inode(dp[p]).addrs, u, g.addrs, m)
                   /\ g.ents = IF NewEntry(p).ok THEN Entered(Inode(dp[p]).ents, Name(p), ip[p])
                                                 ELSE Inode(dp[p]).ents
  BY <1>2, <1>4, <1>6, <1>7, NewEntryIs
<1>33. ~ NewEntry(p).ok BY <1>1 DEF CreateNew, CreateDone, DropDp, Goto, Typed, ProcsTyped
<1>34. g.ents = Inode(dp[p]).ents BY <1>32, <1>33
<1>12. UNCHANGED <<durable, active, ref, lock, ftable, ofile, cwd, call, cur, rest, dp, put,
         strayed>>
  BY <1>1 DEF CreateNew, CreateFails, CreateDone, At, Goto, Iputs, DropDp, Iget, table, files,
    walk, locals, D!End, Typed, ProcsTyped
<1>13. /\ pc' = [pc EXCEPT ![p] = "giveUp"] /\ ip' = [ip EXCEPT ![p] = None]
      /\ puts' = [puts EXCEPT ![p] = <<ip[p]>>] /\ UpdatesWith(Two(dp[p], g, ip[p], y), m)
  BY <1>1, <1>11, <1>32, <1>33 DEF CreateNew, CreateFails, CreateDone, At, Goto, Iputs, DropDp,
    Iget, Typed, ProcsTyped
<1>14. /\ pc'[p] = "giveUp" /\ cur'[p] = cur[p] /\ ip'[p] = None /\ dp'[p] = dp[p]
      /\ puts'[p] = <<ip[p]>> /\ put'[p] = put[p] /\ rest'[p] = rest[p]
      /\ call'[p] = call[p] /\ cwd'[p] = cwd[p]
  BY <1>1, <1>12, <1>13 DEF Typed, ProcsTyped
<1>15. Others(p) BY <1>12, <1>13 DEF Others
<1>16. ProcsTyped' BY <1>1, <1>2, <1>12, <1>13 DEF Typed, ProcsTyped, Labels
<1>17. ref' \in [Inums -> Int] /\ lock' \in [Inums -> Procs \cup {Nobody}]
  BY <1>1, <1>12 DEF Typed, TableTyped
<1>18. /\ Writes(p, Two(dp[p], g, ip[p], y), m)
       /\ DOMAIN Two(dp[p], g, ip[p], y) = {dp[p], ip[p]}
       /\ View'[dp[p]] = g
       /\ copy'[dp[p]] = g
       /\ View'[ip[p]] = y
       /\ copy'[ip[p]] = y
       /\ \A k \in Inums \ {dp[p], ip[p]} : View'[k] = View[k] /\ copy'[k] = copy[k]
       /\ IsDisk(disk')
       /\ copy' = [k \in Inums |-> copy'[k]]
       /\ \A k \in Inums : copy'[k] # NotRead => IsInode(copy'[k])
  <2>1. /\ dp[p] \in Inums /\ IsInode(g) /\ g.type # "free" /\ lock[dp[p]] \in {p, Nobody}
        /\ ip[p] \in Inums /\ IsInode(y) /\ y.type # "free" /\ lock[ip[p]] \in {p, Nobody}
        /\ ip[p] # dp[p] /\ m \in SUBSET Blocks /\ UpdatesWith(Two(dp[p], g, ip[p], y), m)
    BY <1>2, <1>3, <1>10, <1>13, <1>32
  <2>2. Typed BY <1>1
  <2> QED BY <2>1, <2>2, WritesTwo, Zenon
<1>19. Shape(p)' BY <1>2, <1>4, <1>12, <1>14, NoneIs DEF Shape, WithCur, WithDp, WithIp, NoPuts
<1>20. \A i \in Inums : \/ lock'[i] = lock[i]
                        \/ lock'[i] = p /\ i \in {dp[p], ip[p]}
                        \/ lock'[i] = Nobody /\ lock[i] = p
  BY <1>12
<1>21. OwnLocks(p)' BY <1>1, <1>2, <1>12 DEF OwnLocks, HoldsLock, Freeing, LocksIp, LocksDp
<1>22. Idle(p) /\ Idle(p)' BY <1>2, <1>14 DEF Idle, Freeing, Truncates
<1>23. UnlinksOwn(p)' BY DEF UnlinksOwn
<1>24. SameFiles(p) BY <1>12 DEF SameFiles
<1>25. \A i \in Inums : InFile(i)' <=> InFile(i) BY <1>1, <1>15, <1>24, FilesStay
<1>26. ASSUME NEW k \in Inums PROVE ref'[k] + Mine(p, k) = ref[k] + Mine(p, k)'
  <2>1. ref'[k] = ref[k] /\ ref[k] \in Int BY <1>1, <1>12 DEF Typed, TableTyped
  <2>2. Mine(p, k) = Is(cwd[p], k) + Is(ip[p], k) + Is(dp[p], k)
    BY <1>1, <1>2, <1>3, <1>5, <1>6, <1>7, <1>8, <1>9, <1>10, <1>11, IsAre, PutsAre DEF Mine,
      CwdOf, IpOf
  <2>5. Put1(puts'[p]) = ip[p] /\ Put2(puts'[p]) = None BY <1>14, PutsAre
  <2>6. pc'[p] = "giveUp" /\ cwd'[p] = cwd[p] /\ cur'[p] = None /\ ip'[p] = None /\ dp'[p] = dp[p]
    BY <1>2, <1>14
  <2>3. Mine(p, k)' = Is(cwd[p], k) + Is(dp[p], k) + Is(ip[p], k)
    BY <2>6, <2>5, IsAre DEF Mine, CwdOf, IpOf
  <2>4. \A v : Is(v, k) \in Int BY IsAre
  <2> QED BY <2>1, <2>2, <2>3, <2>4
<1>27. Typed'
  <2>1. DiskTyped' BY <1>1, <1>12, <1>18 DEF Typed, DiskTyped
  <2>2. TableTyped' BY <1>17, <1>18 DEF TableTyped
  <2>3. FilesTyped' BY <1>1, <1>12 DEF Typed, FilesTyped
  <2> QED BY <1>16, <2>1, <2>2, <2>3 DEF Typed
<1>28. RefsOK' /\ FilesOK' BY <1>1, <1>27, <1>15, <1>24, <1>26, RefsStay, FilesStay
<1>30. Sound => Goes(p) /\ Changes(p) /\ Counted' /\ Tree(View') /\ NewAlone(p)'
  <2> SUFFICES ASSUME Sound PROVE Goes(p) /\ Changes(p) /\ Counted' /\ Tree(View') /\ NewAlone(p)'
    OBVIOUS
  <2>1. \A i \in Inums : Holds(p, i)' => Holds(p, i) \/ InFile(i) \/ View[i].nlink >= 1
    BY <1>2, <1>14, PutsAre DEF Holds
  <2>2. \A i \in Inums : Reached(p, i)' => Reached(p, i) \/ HasEntries(i)
    BY <1>2, <1>14 DEF Reached
  <2>3. \A i \in Inums : copy'[i] = copy[i] \/ copy'[i] = NotRead \/ Holds(p, i) \/ InFile(i)
    BY <1>18 DEF Holds
  <2>4. /\ dp'[p] # None => dp'[p] \in Inums /\ View[dp'[p]].type = "dir"
        /\ pc'[p] \in {"walk", "parent", "giveUp", "linkBad"} /\ ip'[p] # None =>
             ip'[p] \in Inums /\ View[ip'[p]].type # "dir"
    BY <1>2, <1>14 DEF Sound, Reaching
  <2>5. Goes(p) BY <2>1, <2>2, <2>3, <2>4, <1>25 DEF Goes
  <2>6. Changes(p) /\ Counted' /\ Tree(View') /\ NewAlone(p)'
    <3>1. PICK d \in Inums, i \in Inums : d = dp[p] /\ i = ip[p] BY <1>2
    <3>2. /\ View[i] = Fresh(Type(p)) /\ cwd[p] # i /\ d # i /\ View[i].nlink = 0
          /\ View[i].ents = NoEntry /\ View[i].addrs = <<>> /\ View[i].type = Type(p)
          /\ View[i] = Inode(i)
      BY <1>1, <1>2, <3>1, InodeIs, FreshIs DEF Sound, NewAlone, Type
    <3>3. /\ View'[i].type = View[i].type /\ View'[i].nlink = 0 /\ View'[i].ents = z.ents
          /\ View'[d].type = View[d].type /\ View'[d].nlink = View[d].nlink
          /\ View'[d].ents = View[d].ents
          /\ \A k \in Inums \ {d, i} : View'[k] = View[k]
      <4>1. View'[i] = y /\ View'[d] = g /\ \A k \in Inums \ {d, i} : View'[k] = View[k]
        BY <1>18, <3>1
      <4>2. y.type = View[i].type /\ y.nlink = 0 /\ y.ents = z.ents
        BY <1>8, <1>10, <1>11, <3>1, <3>2
      <4>3. View[d] = Inode(d) BY <1>1, InodeIs
      <4>4. g.type = View[d].type /\ g.nlink = View[d].nlink /\ g.ents = View[d].ents
        BY <1>32, <1>34, <3>1, <4>3
      <4> QED BY <4>1, <4>2, <4>4
    <3>4. Inos(View) /\ Tree(View) /\ View[i].nlink < 1 /\ Counted
      BY <1>1, <3>2, InodeIs DEF Sound
    <3>5. /\ Holds(p, i) /\ lock[i] \in {p, Nobody} /\ Holds(p, d) /\ lock[d] \in {p, Nobody}
          /\ pc'[p] # "new"
      BY <1>3, <1>14, <3>1 DEF Holds
    <3>6. \A k \in Inums : Pend(p, k) = 0 /\ Pend(p, k)' = 0 /\ ~ Pends(p, k)'
      BY <1>2, <1>14, NoneIs DEF Pend, Pends
    <3>7. Mends(p, i) /\ Mends(p, d)
      <4>1. DOMAIN View[i].ents = {} BY <3>2, NoEntryIs
      <4> QED BY <3>3, <3>5, <4>1 DEF Mends
    <3>8. Changes(p) BY <1>22, <3>3, <3>7, ChangesAre
    <3>9. Tree(View') /\ \A k \in Inums : LinksTo(View', k) \subseteq LinksTo(View, k)
      <4>1. CASE z.ents = NoEntry
        <5>1. \A k \in Inums : View'[k].ents = View[k].ents /\ View'[k].type = View[k].type
          BY <3>2, <3>3, <4>1
        <5> QED BY <3>4, <5>1, TreeStays
      <4>2. CASE z.ents # NoEntry
        <5>1. NewInode(p).ok /\ Type(p) = "dir"
                /\ z.ents = Entered(Entered(View[i].ents, ".", i), "..", d)
          BY <1>7, <3>1, <3>2, <4>2 DEF IsNew
        <5>2. DOMAIN z.ents = Dots /\ z.ents["."] = i /\ z.ents[".."] = d
          BY <3>2, <5>1 DEF Entered, NoEntry, Dots
        <5>3. LinksTo(View, i) = {} BY <1>1, <3>4, Unlinkedness
        <5>4. \A k \in Inums \ {i} : View'[k].type = View[k].type /\ View'[k].ents = View[k].ents
          BY <3>3
        <5>5. Tree(View') /\ NoMore(View, View')
          BY <3>2, <3>3, <3>4, <5>1, <5>2, <5>3, <5>4, Dotted
        <5> QED BY <5>5 DEF NoMore
      <4> QED BY <4>1, <4>2
    <3>10. ASSUME NEW k \in Inums
           PROVE  View'[k].nlink - Links(k)' - Pend(p, k)' >= View[k].nlink - Links(k) - Pend(p, k)
      <4>1. View'[k].nlink = View[k].nlink BY <3>2, <3>3
      <4> QED BY <1>1, <1>27, <3>6, <3>9, <4>1, LinksRise
    <3>11. Counted' BY <1>1, <1>15, <1>27, <3>10, CountedKept DEF Sound, Pend
    <3>12. NewAlone(p)' BY <3>5 DEF NewAlone
    <3> QED BY <3>8, <3>9, <3>11, <3>12
  <2> QED BY <2>5, <2>6
<1>31. BlocksOwned(View', m)
  <2>1. PICK d \in Inums, i \in Inums : d = dp[p] /\ i = ip[p] /\ i # d BY <1>2, <1>3
  <2>2. /\ View[i].addrs = Inode(i).addrs
        /\ View'[i].addrs = z.addrs
        /\ View[d].addrs = Inode(d).addrs
        /\ View'[d].addrs = g.addrs
        /\ \A k \in Inums \ {i, d} : View'[k].addrs = View[k].addrs
    BY <1>1, <1>10, <1>18, <2>1, InodeIs
  <2>3. BlocksOwned(View, disk.used) BY DEF Good, Core
  <2>4. Takes(View[i].addrs, disk.used, View'[i].addrs, u) BY <1>8, <2>1, <2>2
  <2>5. Takes(View[d].addrs, u, View'[d].addrs, m) BY <1>32, <2>1, <2>2
  <2>6. /\ d \in Inums /\ i \in Inums /\ i # d
        /\ \A k \in Inums \ {i, d} : View'[k].addrs = View[k].addrs
    BY <2>1, <2>2
  <2>7. PICK old, more, most : old = disk.used /\ more = u /\ most = m OBVIOUS
  <2>8. /\ BlocksOwned(View, old) /\ Takes(View[i].addrs, old, View'[i].addrs, more)
        /\ Takes(View[d].addrs, more, View'[d].addrs, most)
    BY <2>3, <2>4, <2>5, <2>7
  <2>9. BlocksOwned(View', most) BY <2>6, <2>8, TakesOwned
  <2> QED BY <2>7, <2>9
<1>35. PICK new : /\ new = Two(dp[p], g, ip[p], y) /\ Writes(p, new, m)
                  /\ DOMAIN new = {dp[p], ip[p]}
  BY <1>18
<1> QED BY <1>12, <1>15, <1>35, <1>19, <1>20, <1>21, <1>22, <1>23, <1>30, <1>27, <1>28, <1>31,
  ChangeGood

\* create() fills and links the inode.
LEMMA CreateNewMakes ==
  ASSUME Good, NEW p \in Procs, CreateNew(p), pc'[p] # "giveUp"
  PROVE  Good'
<1>1. Typed /\ Shape(p) /\ Locks /\ Coherent /\ RefsOK /\ FilesOK /\ OwnLocks(p) /\ Shaped
        /\ UnlinkOK
  BY DEF Good, Core, Shaped, Locks, OwnLocks
<1>2. /\ pc[p] = "new" /\ puts[p] = <<>> /\ put[p] = "no" /\ cur[p] = None
      /\ dp[p] \in Inums /\ ip[p] \in Inums /\ p \in active /\ cwd[p] \in Inums
  BY <1>1 DEF CreateNew, CreateFails, CreateDone, At, Goto, Iputs, D!Begin, D!End, Typed,
    ProcsTyped, Shape, WithCur, WithDp, WithIp, NoPuts, FilesTyped
<1>3. lock[dp[p]] = p /\ lock[ip[p]] = Nobody /\ ip[p] # dp[p] /\ Inode(ip[p]).type # "free"
  BY <1>1, <1>2, ProcsAssumption DEF CreateNew, Ilock, OwnLocks, HoldsLock, LocksDp
<1>4. /\ IsInode(Inode(dp[p])) /\ IsInode(Inode(ip[p])) /\ Inode(dp[p]).type # "free"
      /\ disk.used \in SUBSET Blocks /\ call[p].op # "link"
  BY <1>1, <1>2, <1>3, InodeIs, ProcsAssumption DEF Typed, DiskTyped, IsDisk, Locks, Coherent,
    Inode, Shape, Creates
<1>5. rest[p] # <<>> /\ rest[p] \in Seq(STRING) BY <1>1, <1>2 DEF Shape, Typed, ProcsTyped
<1>6. Name(p) \in STRING BY <1>5 DEF Name
<1>7. PICK z, u : IsNew(p, Inode(ip[p]), z, u) BY <1>2, <1>3, <1>4, NewIs
<1>8. /\ NewInode(p).inode = z /\ NewInode(p).used = u /\ u \in SUBSET Blocks /\ IsInode(z)
      /\ z.type # "free" /\ z.type = Inode(ip[p]).type /\ z.nlink = 1
      /\ Takes(Inode(ip[p]).addrs, disk.used, z.addrs, u)
  BY <1>7 DEF IsNew
<1>9. NewEntry(p).ok BY <1>1, <1>8 DEF CreateNew, CreateFails, Goto, Typed, ProcsTyped
<1>10. PICK w, m : /\ w = NewEntry(p).inode /\ m = NewEntry(p).used
                   /\ NewEntry(p).ok \in BOOLEAN /\ (NewEntry(p).ok => NewInode(p).ok)
                   /\ m \in SUBSET Blocks /\ IsInode(w) /\ w.type # "free"
                   /\ w.type = Inode(dp[p]).type
                   /\ w.nlink = Inode(dp[p]).nlink /\ Takes(Inode(dp[p]).addrs, u, w.addrs, m)
                   /\ w.ents = IF NewEntry(p).ok THEN Entered(Inode(dp[p]).ents, Name(p), ip[p])
                                                 ELSE Inode(dp[p]).ents
  BY <1>2, <1>4, <1>6, <1>7, NewEntryIs
<1>11. w.ents = Entered(Inode(dp[p]).ents, Name(p), ip[p]) /\ NewInode(p).ok BY <1>9, <1>10
<1>12. PICK n \in Int : n = IF Type(p) = "dir" THEN w.nlink + 1 ELSE w.nlink
  BY <1>10 DEF IsInode
<1>13. PICK y : /\ y = [w EXCEPT !.nlink = n] /\ IsInode(y) /\ y.type # "free" /\ y.type = w.type
                /\ y.nlink = n /\ y.addrs = w.addrs /\ y.ents = w.ents
                /\ n = IF Type(p) = "dir" THEN w.nlink + 1 ELSE w.nlink
  BY <1>10, <1>12, NlinkIs
<1>14. y = [NewEntry(p).inode EXCEPT !.nlink = IF Type(p) = "dir" THEN @ + 1 ELSE @]
  BY <1>10, <1>13
<1>50. PICK s : s = (IF call[p].op = "open" THEN "opening" ELSE "made") /\ s \in {"opening", "made"}
  OBVIOUS
<1>15. UNCHANGED <<durable, active, ref, ftable, ofile, cwd, call, cur, rest, ip, put, strayed>>
  BY <1>1 DEF CreateNew, CreateFails, CreateDone, At, Goto, table, files, walk, Typed,
    ProcsTyped
<1>16. /\ lock' = [lock EXCEPT ![dp[p]] = Nobody, ![ip[p]] = p]
      /\ pc' = [pc EXCEPT ![p] = s]
      /\ dp' = [dp EXCEPT ![p] = None] /\ puts' = [puts EXCEPT ![p] = <<dp[p]>>]
      /\ UpdatesWith(Two(dp[p], y, ip[p], z), m)
  BY <1>8, <1>9, <1>10, <1>14, <1>50 DEF CreateNew, CreateDone, Goto, Iputs, DropDp, Iget
<1>17. /\ pc'[p] = s /\ cur'[p] = cur[p]
      /\ ip'[p] = ip[p] /\ dp'[p] = None /\ puts'[p] = <<dp[p]>> /\ put'[p] = put[p]
      /\ rest'[p] = rest[p] /\ call'[p] = call[p] /\ cwd'[p] = cwd[p]
  BY <1>1, <1>15, <1>16 DEF Typed, ProcsTyped
<1>18. Others(p) BY <1>15, <1>16 DEF Others
<1>19. ProcsTyped' BY <1>1, <1>2, <1>15, <1>50, <1>16 DEF Typed, ProcsTyped, Labels
<1>20. ref' \in [Inums -> Int] /\ lock' \in [Inums -> Procs \cup {Nobody}]
  BY <1>1, <1>15, <1>16 DEF Typed, TableTyped
<1>21. /\ Writes(p, Two(dp[p], y, ip[p], z), m)
       /\ DOMAIN Two(dp[p], y, ip[p], z) = {dp[p], ip[p]}
       /\ View'[dp[p]] = y
       /\ copy'[dp[p]] = y
       /\ View'[ip[p]] = z
       /\ copy'[ip[p]] = z
       /\ \A k \in Inums \ {dp[p], ip[p]} : View'[k] = View[k] /\ copy'[k] = copy[k]
       /\ IsDisk(disk')
       /\ copy' = [k \in Inums |-> copy'[k]]
       /\ \A k \in Inums : copy'[k] # NotRead => IsInode(copy'[k])
  <2>1. /\ dp[p] \in Inums /\ IsInode(y) /\ y.type # "free" /\ lock[dp[p]] \in {p, Nobody}
        /\ ip[p] \in Inums /\ IsInode(z) /\ z.type # "free" /\ lock[ip[p]] \in {p, Nobody}
        /\ ip[p] # dp[p] /\ m \in SUBSET Blocks
        /\ UpdatesWith(Two(dp[p], y, ip[p], z), m)
    BY <1>2, <1>3, <1>8, <1>10, <1>13, <1>16
  <2>2. Typed BY <1>1
  <2> QED BY <2>1, <2>2, WritesTwo, Zenon
<1>22. Shape(p)' BY <1>2, <1>15, <1>50, <1>17, NoneIs DEF Shape, WithCur, WithDp, WithIp, NoPuts
<1>23. \A i \in Inums : \/ lock'[i] = lock[i]
                        \/ lock'[i] = p /\ i \in {dp[p], ip[p]}
                        \/ lock'[i] = Nobody /\ lock[i] = p
  BY <1>1, <1>2, <1>16 DEF Typed, TableTyped, OwnLocks, HoldsLock, LocksDp
<1>24. OwnLocks(p)'
  BY <1>1, <1>2, <1>3, <1>50, <1>16, <1>17 DEF Typed, TableTyped, OwnLocks, HoldsLock, Freeing,
    LocksIp, LocksDp
<1>25. Idle(p) /\ Idle(p)' BY <1>2, <1>50, <1>17 DEF Idle, Freeing, Truncates
<1>26. UnlinksOwn(p)' BY <1>50, <1>17 DEF UnlinksOwn
<1>27. SameFiles(p) BY <1>15, <1>50, <1>16 DEF SameFiles
<1>28. \A i \in Inums : InFile(i)' <=> InFile(i) BY <1>1, <1>18, <1>27, FilesStay
<1>29. ASSUME NEW k \in Inums PROVE ref'[k] + Mine(p, k) = ref[k] + Mine(p, k)'
  <2>1. ref'[k] = ref[k] /\ ref[k] \in Int BY <1>1, <1>15 DEF Typed, TableTyped
  <2>2. Mine(p, k) = Is(cwd[p], k) + Is(ip[p], k) + Is(dp[p], k)
    BY <1>2, IsAre, PutsAre DEF Mine, CwdOf, IpOf
  <2>5. Put1(puts'[p]) = dp[p] /\ Put2(puts'[p]) = None BY <1>17, PutsAre
  <2>6. pc'[p] = s /\ cwd'[p] = cwd[p] /\ cur'[p] = None /\ ip'[p] = ip[p] /\ dp'[p] = None
    BY <1>2, <1>17
  <2>3. Mine(p, k)' = Is(cwd[p], k) + Is(ip[p], k) + Is(dp[p], k)
    BY <2>6, <2>5, <1>50, IsAre DEF Mine, CwdOf, IpOf
  <2>4. \A v : Is(v, k) \in Int BY IsAre
  <2> QED BY <2>1, <2>2, <2>3
<1>30. Typed'
  <2>1. DiskTyped' BY <1>1, <1>15, <1>21 DEF Typed, DiskTyped
  <2>2. TableTyped' BY <1>20, <1>21 DEF TableTyped
  <2>3. FilesTyped' BY <1>1, <1>15 DEF Typed, FilesTyped
  <2> QED BY <1>19, <2>1, <2>2, <2>3 DEF Typed
<1>31. RefsOK' /\ FilesOK' BY <1>1, <1>30, <1>18, <1>27, <1>29, RefsStay, FilesStay
<1>33. Sound => Goes(p) /\ Changes(p) /\ Counted' /\ Tree(View') /\ NewAlone(p)'
  <2> SUFFICES ASSUME Sound PROVE Goes(p) /\ Changes(p) /\ Counted' /\ Tree(View') /\ NewAlone(p)'
    OBVIOUS
  <2>1. \A i \in Inums : Holds(p, i)' => Holds(p, i) \/ InFile(i) \/ View[i].nlink >= 1
    BY <1>2, <1>17, PutsAre DEF Holds
  <2>2. \A i \in Inums : Reached(p, i)' => Reached(p, i) \/ HasEntries(i)
    BY <1>2, <1>50, <1>17 DEF Reached
  <2>3. \A i \in Inums : copy'[i] = copy[i] \/ copy'[i] = NotRead \/ Holds(p, i) \/ InFile(i)
    BY <1>21 DEF Holds
  <2>4. /\ dp'[p] # None => dp'[p] \in Inums /\ View[dp'[p]].type = "dir"
        /\ pc'[p] \in {"walk", "parent", "giveUp", "linkBad"} /\ ip'[p] # None =>
             ip'[p] \in Inums /\ View[ip'[p]].type # "dir"
    BY <1>50, <1>17
  <2>5. Goes(p) BY <2>1, <2>2, <2>3, <2>4, <1>28 DEF Goes
  <2>6. Changes(p) /\ Counted' /\ Tree(View') /\ NewAlone(p)'
    <3>1. PICK d \in Inums, i \in Inums, nm \in STRING : d = dp[p] /\ i = ip[p] /\ nm = Name(p)
      BY <1>2, <1>6
    <3>2. /\ View[i] = Fresh(Type(p)) /\ cwd[p] # i /\ d # i /\ View[i].nlink = 0
          /\ nm \notin DOMAIN View[d].ents
          /\ View[i].ents = NoEntry /\ View[i].type = Type(p) /\ View[i] = Inode(i)
          /\ View[d] = Inode(d)
      BY <1>1, <1>2, <3>1, InodeIs, FreshIs DEF Sound, NewAlone, Type
    <3>3. View[d].type = "dir" /\ DOMAIN View[d].ents # {}
      BY <3>1, NoneIs DEF Sound, Reaching, Reached, HasEntries
    <3>4. /\ View'[i].type = View[i].type
          /\ View'[i].nlink = 1
          /\ View'[i].ents = z.ents
          /\ View'[d].type = View[d].type
          /\ View'[d].ents = Entered(View[d].ents, nm, i)
          /\ View'[d].nlink = IF Type(p) = "dir" THEN View[d].nlink + 1 ELSE View[d].nlink
          /\ \A k \in Inums \ {i, d} : View'[k] = View[k]
      <4>1. View'[i] = z /\ View'[d] = y /\ \A k \in Inums \ {i, d} : View'[k] = View[k]
        BY <1>21, <3>1
      <4>2. z.type = View[i].type /\ z.nlink = 1 BY <1>8, <3>1, <3>2
      <4>3. y.type = View[d].type /\ y.ents = Entered(View[d].ents, nm, i)
        BY <1>10, <1>11, <1>13, <3>1, <3>2
      <4>4. y.nlink = IF Type(p) = "dir" THEN View[d].nlink + 1 ELSE View[d].nlink
        BY <1>10, <1>11, <1>13, <3>1, <3>2
      <4> QED BY <4>1, <4>2, <4>3, <4>4
    <3>5. Inos(View) /\ Tree(View) /\ View[i].nlink < 1 /\ Counted
      BY <1>1, <3>2, InodeIs DEF Sound
    <3>6. LinksTo(View, i) = {} BY <1>1, <3>5, Unlinkedness
    <3>7. \A k \in Inums : Pend(p, k) = 0 /\ Pend(p, k)' = 0
      BY <1>2, <1>17, <1>50 DEF Pend, Pends
    <3>8. /\ Tree(View') /\ \A k \in Inums \ {i, d} : LinksTo(View', k) \subseteq LinksTo(View, k)
          /\ MoreBy(View, View', i, <<d, nm>>)
          /\ IF Type(p) = "dir" THEN MoreBy(View, View', d, <<i, "..">>)
                                ELSE LinksTo(View', d) \subseteq LinksTo(View, d)
      <4>1. CASE Type(p) # "dir"
        <5>1. View'[i].ents = View[i].ents /\ View[i].type # "dir"
          BY <1>7, <1>11, <3>1, <3>2, <3>4, <4>1 DEF IsNew
        <5>2. \A k \in Inums \ {d} : View'[k].type = View[k].type /\ View'[k].ents = View[k].ents
          BY <3>4, <5>1
        <5>3. NameMade(View, View', d, nm, i) BY <3>2, <3>3, <3>4, <5>2 DEF NameMade
        <5>4. Tree(View') /\ SameBut(View, View', {i}) /\ OneMore(View, View', i, <<d, nm>>)
          BY <3>5, <5>1, <5>3, NamedFile
        <5> QED BY <3>2, <5>4 DEF SameBut, OneMore, MoreBy
      <4>2. CASE Type(p) = "dir"
        <5>1. z.ents = Entered(Entered(View[i].ents, ".", i), "..", d)
          BY <1>7, <1>11, <3>1, <3>2, <4>2 DEF IsNew
        <5>2. DOMAIN z.ents = Dots /\ z.ents["."] = i /\ z.ents[".."] = d
          BY <3>2, <5>1 DEF Entered, NoEntry, Dots
        <5>3. PICK mid : Inos(mid) /\ mid[i] = z /\ \A k \in Inums \ {i} : mid[k] = View[k]
          <6> DEFINE mid == [k \in Inums |-> IF k = i THEN z ELSE View[k]]
          <6>1. mid[i] = z /\ (\A k \in Inums \ {i} : mid[k] = View[k])
                  /\ mid = [k \in Inums |-> mid[k]]
            OBVIOUS
          <6> HIDE DEF mid
          <6>2. \A k \in Inums : IsInode(mid[k]) BY <1>8, <3>5, <6>1 DEF Inos
          <6> QED BY <6>1, <6>2 DEF Inos
        <5>4. Tree(mid) /\ NoMore(View, mid)
          BY <1>8, <3>1, <3>2, <3>5, <3>6, <4>2, <5>2, <5>3, Dotted
        <5>5. mid[d] = View[d] /\ mid[i] = z /\ z.type = "dir" /\ LinksTo(mid, i) = {}
          BY <1>8, <3>1, <3>2, <3>6, <4>2, <5>3, <5>4 DEF NoMore
        <5>6. \A k \in Inums \ {d} : View'[k].type = mid[k].type /\ View'[k].ents = mid[k].ents
          BY <1>8, <3>1, <3>2, <3>4, <5>3
        <5>7. NameMade(mid, View', d, nm, i) BY <3>2, <3>3, <3>4, <5>5, <5>6 DEF NameMade
        <5>8. /\ Tree(View') /\ SameBut(mid, View', {i, d}) /\ OneMore(mid, View', i, <<d, nm>>)
              /\ OneMore(mid, View', d, <<i, "..">>)
          BY <3>2, <5>2, <5>3, <5>4, <5>5, <5>7, NamedDir
        <5> QED BY <4>2, <5>4, <5>8 DEF SameBut, OneMore, MoreBy, NoMore
      <4> QED BY <4>1, <4>2
    <3>9. Mends(p, d) /\ Mends(p, i)
      <4>1. Holds(p, d) /\ Holds(p, i) /\ lock[d] \in {p, Nobody} /\ lock[i] \in {p, Nobody}
        BY <1>3, <3>1 DEF Holds
      <4>2. DOMAIN View[i].ents = {} /\ DOMAIN View'[d].ents # {}
        BY <3>2, <3>4 DEF NoEntry, Entered
      <4> QED BY <3>4, <4>1, <4>2 DEF Mends
    <3>10. Changes(p) BY <1>25, <3>4, <3>9, ChangesAre
    <3>11. ASSUME NEW k \in Inums
           PROVE  View'[k].nlink - Links(k)' - Pend(p, k)' >= View[k].nlink - Links(k) - Pend(p, k)
      <4>1. \/ LinksTo(View', k) \subseteq LinksTo(View, k) /\ View'[k].nlink = View[k].nlink
            \/ \E e : MoreBy(View, View', k, e) /\ View'[k].nlink = View[k].nlink + 1
        BY <3>2, <3>4, <3>8
      <4> QED BY <1>1, <1>30, <3>7, <4>1, LinksRise
    <3>12. Counted' BY <1>1, <1>18, <1>30, <3>11, CountedKept DEF Sound, Pend
    <3>13. pc'[p] # "new" BY <1>17, <1>50
    <3> QED BY <3>8, <3>10, <3>12, <3>13 DEF NewAlone
  <2> QED BY <2>5, <2>6
<1>34. BlocksOwned(View', m)
  <2>1. PICK d \in Inums, i \in Inums : d = dp[p] /\ i = ip[p] /\ i # d BY <1>2, <1>3
  <2>2. /\ View[i].addrs = Inode(i).addrs
        /\ View'[i].addrs = z.addrs
        /\ View[d].addrs = Inode(d).addrs
        /\ View'[d].addrs = y.addrs
        /\ \A k \in Inums \ {i, d} : View'[k].addrs = View[k].addrs
    BY <1>1, <1>21, <2>1, InodeIs
  <2>3. BlocksOwned(View, disk.used) BY DEF Good, Core
  <2>4. Takes(View[i].addrs, disk.used, View'[i].addrs, u) BY <1>8, <2>1, <2>2
  <2>5. Takes(View[d].addrs, u, View'[d].addrs, m) BY <1>10, <1>13, <2>1, <2>2
  <2>6. /\ d \in Inums /\ i \in Inums /\ i # d
        /\ \A k \in Inums \ {i, d} : View'[k].addrs = View[k].addrs
    BY <2>1, <2>2
  <2> QED BY <2>3, <2>4, <2>5, <2>6, TakesOwned
<1>35. PICK new : /\ new = Two(dp[p], y, ip[p], z) /\ Writes(p, new, m)
                  /\ DOMAIN new = {dp[p], ip[p]}
  BY <1>21
<1> QED BY <1>15, <1>18, <1>34, <1>35, <1>22, <1>23, <1>24, <1>25, <1>26, <1>33, <1>30, <1>31,
  ChangeGood

\* open(O_TRUNC) makes a file and a descriptor, and empties its inode in memory.
LEMMA OpenTruncates ==
  ASSUME Good, NEW p \in Procs, Open(p), pc'[p] = "truncating"
  PROVE  Good'
<1>1. Typed /\ Shape(p) /\ Locks /\ Coherent /\ RefsOK /\ FilesOK /\ OwnLocks(p) /\ Shaped
        /\ UnlinkOK
  BY DEF Good, Core, Shaped, Locks, OwnLocks
<1>2. /\ pc[p] = "opening" /\ puts[p] = <<>> /\ put[p] = "no" /\ cur[p] = None /\ dp[p] = None
      /\ ip[p] \in Inums /\ p \in active /\ cwd[p] \in Inums
  BY <1>1 DEF Open, At, Typed, ProcsTyped, Shape, WithCur, WithDp, WithIp, NoPuts, FilesTyped
<1>3. PICK i \in Inums : i = ip[p] BY <1>2
<1>4. lock[i] = p /\ copy[i] # NotRead /\ disk.used \in SUBSET Blocks /\ IsInode(disk.ino[i])
  BY <1>1, <1>2, <1>3, ProcsAssumption DEF OwnLocks, HoldsLock, LocksIp, Locks, Typed,
    DiskTyped, IsDisk
<1>5. /\ View[i] = copy[i] /\ Inode(i) = copy[i] /\ IsInode(copy[i]) /\ copy[i].type # "free"
      /\ copy[i].type = disk.ino[i].type
  BY <1>1, <1>4, InodeIs DEF Coherent, Inode
<1>6. UNCHANGED <<durable, active, ref, cwd, call, cur, rest, dp, put, strayed>>
  BY DEF Open, walk
<1>7. /\ FreeFiles # {} /\ FreeFds(p) # {}
      /\ ftable' = [ftable EXCEPT ![Min(FreeFiles)] = [ref |-> 1, ip |-> ip[p], off |-> 0,
           readable |-> "read" \in call[p].mode, writable |-> "write" \in call[p].mode]]
      /\ ofile' = [ofile EXCEPT ![p][Min(FreeFds(p))] = Min(FreeFiles)]
      /\ pc' = [pc EXCEPT ![p] = "truncating"] /\ UNCHANGED <<lock, ip, puts>>
      /\ disk' = [disk EXCEPT !.used = disk.used \ Range(copy[i].addrs)]
      /\ copy' = [copy EXCEPT ![i] = Truncated(copy[i])] /\ copy[i].type = "file"
  BY <1>1, <1>2, <1>3, <1>5 DEF Open, Goto, Typed, ProcsTyped
<1>9. PICK y : /\ y = Truncated(copy[i]) /\ IsInode(y) /\ y.type = copy[i].type
               /\ y.nlink = copy[i].nlink
               /\ y.addrs = <<>> /\ y.ents = NoEntry
  BY <1>5, TruncatedIs
<1>27. PICK u \in SUBSET Blocks : u = disk.used \ Range(View[i].addrs) BY <1>4
<1>10. SetsOne(i, disk.ino[i], y, u)
  <2>1. disk' = [ino |-> [k \in Inums |-> IF k = i THEN disk.ino[i] ELSE disk.ino[k]], used |-> u]
    BY <1>1, <1>5, <1>7, <1>27 DEF Typed, DiskTyped, IsDisk
  <2>2. copy' = [k \in Inums |-> IF k = i THEN y ELSE copy[k]]
    BY <1>1, <1>7, <1>9 DEF Typed, TableTyped
  <2> QED BY <2>1, <2>2 DEF SetsOne
<1>11. /\ IsDisk(disk') /\ copy' = [k \in Inums |-> copy'[k]] /\ disk'.used = u
       /\ \A k \in Inums : copy'[k] # NotRead => IsInode(copy'[k])
       /\ disk'.ino[i] = disk.ino[i] /\ copy'[i] = y /\ View'[i] = y
       /\ \A k \in Inums \ {i} : disk'.ino[k] = disk.ino[k] /\ copy'[k] = copy[k]
            /\ View'[k] = View[k]
  <2>1. PICK x : x = disk.ino[i] OBVIOUS
  <2>2. IsInode(x) /\ SetsOne(i, x, y, u) /\ IsInode(y) /\ y # NotRead
    BY <1>4, <1>9, <1>10, <2>1, NotReadIs
  <2>3. Typed BY <1>1
  <2>4. /\ IsDisk(disk') /\ copy' = [k \in Inums |-> copy'[k]] /\ disk'.used = u
        /\ \A k \in Inums : copy'[k] # NotRead => IsInode(copy'[k])
        /\ disk'.ino[i] = x /\ copy'[i] = y /\ View'[i] = IF y = NotRead THEN x ELSE y
        /\ \A k \in Inums \ {i} : disk'.ino[k] = disk.ino[k] /\ copy'[k] = copy[k]
             /\ View'[k] = View[k]
    BY <2>2, <2>3, SetsOneIs
  <2> QED BY <2>1, <2>2, <2>4
<1>12. /\ pc'[p] = "truncating" /\ cur'[p] = None /\ ip'[p] = i /\ dp'[p] = None
       /\ puts'[p] = <<>> /\ put'[p] = "no" /\ rest'[p] = rest[p]
       /\ call'[p] = call[p] /\ cwd'[p] = cwd[p]
  BY <1>1, <1>2, <1>3, <1>6, <1>7 DEF Typed, ProcsTyped
<1>13. Others(p) BY <1>1, <1>6, <1>7 DEF Typed, ProcsTyped, FilesTyped, Others
<1>14. ProcsTyped' BY <1>1, <1>6, <1>7 DEF Typed, ProcsTyped, Labels
<1>22. /\ FilesOK' /\ FilesTyped'
       /\ \A k \in Inums : Count(FileRef, k)' = Count(FileRef, k) - Is(None, k) + Is(i, k)
       /\ \A k \in Inums : InFile(k)' => InFile(k) \/ k = i
  <2>1. /\ FreeFiles # {} /\ FreeFds(p) # {} /\ ("read" \in call[p].mode) \in BOOLEAN
        /\ ("write" \in call[p].mode) \in BOOLEAN
        /\ ftable' = [ftable EXCEPT ![Min(FreeFiles)] =
             [ref |-> 1, ip |-> i, off |-> 0, readable |-> "read" \in call[p].mode,
               writable |-> "write" \in call[p].mode]]
        /\ ofile' = [ofile EXCEPT ![p][Min(FreeFds(p))] = Min(FreeFiles)]
        /\ cwd' = cwd /\ call' = call /\ (pc'[p] = "truncating" => ip'[p] = i)
    BY <1>3, <1>6, <1>7, <1>12
  <2> QED BY <1>1, <1>13, <2>1, OpenFiles
<1>15. Typed'
  <2>1. DiskTyped' BY <1>1, <1>6, <1>11 DEF Typed, DiskTyped
  <2>2. TableTyped' BY <1>1, <1>6, <1>7, <1>11 DEF Typed, TableTyped
  <2> QED BY <1>14, <1>22, <2>1, <2>2 DEF Typed
<1>16. Shape(p)'
  BY <1>1, <1>2, <1>3, <1>6, <1>12, SeqsAre, NoneIs DEF Shape, WithCur, WithDp, WithIp, NoPuts,
    Creates
<1>17. LocksMove(p) BY <1>1, <1>4, <1>7, <1>9, <1>11, NotReadIs DEF LocksMove, Typed, TableTyped
<1>18. \A k \in Inums : Apart(p, k)' BY <1>12 DEF Apart, Freeing
<1>19. OwnLocks(p)'
  BY <1>1, <1>2, <1>3, <1>7, <1>12 DEF OwnLocks, HoldsLock, Freeing, LocksIp, LocksDp
<1>20. Coherent'
  <2>1. \A k \in Inums \ {i} : /\ disk'.ino[k] = disk.ino[k] /\ copy'[k] = copy[k]
                               /\ ~ Freeing(p, k) /\ ~ Freeing(p, k)' /\ ~ Truncates(p, k)
    BY <1>2, <1>11, <1>12 DEF Freeing, Truncates
  <2>2. Truncates(p, i)' /\ ~ Freeing(p, i)' BY <1>12 DEF Truncates, Freeing
  <2>3. Typed /\ Shaped /\ Locks /\ Coherent /\ Others(p) /\ lock[i] \in {p, Nobody}
    BY <1>1, <1>4, <1>13
  <2>4. copy'[i].type = disk'.ino[i].type /\ copy'[i].type # "free" BY <1>5, <1>9, <1>11
  <2> QED BY <2>1, <2>2, <2>3, <2>4, CoherentOne
<1>21. \A k \in Inums : lock[k] \in Procs \ {p} => View'[k] = View[k] BY <1>4, <1>11
<1>23. UnlinksOwn(p)' BY <1>12 DEF UnlinksOwn
<1>24. RefsOK'
  <2>1. ASSUME NEW k \in Inums
        PROVE ref'[k] + Mine(p, k) + Is(None, k) = ref[k] + Mine(p, k)' + Is(i, k)
    <3>1. ref'[k] = ref[k] /\ ref[k] \in Int BY <1>1, <1>6 DEF Typed, TableTyped
    <3>2. Mine(p, k) = Is(cwd[p], k) + Is(i, k)
      BY <1>1, <1>2, <1>3, IsAre, PutsAre DEF Mine, CwdOf, IpOf
    <3>3. Mine(p, k)' = Is(cwd[p], k) BY <1>12, IsAre, PutsAre DEF Mine, CwdOf, IpOf
    <3>4. (\A x : Is(x, k) \in Int) /\ Is(None, k) = 0 BY IsAre
    <3> QED BY <3>1, <3>2, <3>3, <3>4
  <2> QED BY <1>1, <1>13, <1>15, <1>22, <2>1, RefsKept
<1>25. BlocksOwned(View, disk.used)'
  <2>1. BlocksOwned(View, disk.used) BY DEF Good, Core
  <2>2. Range(View'[i].addrs) = {}
          /\ \A k \in Inums \ {i} : Range(View'[k].addrs) = Range(View[k].addrs)
    BY <1>9, <1>11, RangeEmpty
  <2>3. BlocksOwned(View', disk.used \ Range(View[i].addrs)) BY <2>1, <2>2, BlocksDrop
  <2> QED BY <1>11, <1>27, <2>3
<1>26. Sound => Goes(p) /\ Changes(p) /\ Counted' /\ Tree(View') /\ NewAlone(p)'
  <2> SUFFICES ASSUME Sound PROVE Goes(p) /\ Changes(p) /\ Counted' /\ Tree(View') /\ NewAlone(p)'
    OBVIOUS
  <2>1. \A k \in Inums : /\ Holds(p, k)' => Holds(p, k)
                         /\ Reached(p, k)' => Reached(p, k)
                         /\ copy'[k] = copy[k] \/ Holds(p, k)
    BY <1>2, <1>3, <1>11, <1>12, PutsAre DEF Holds, Reached
  <2>2. Holds(p, i) BY <1>3 DEF Holds
  <2>3. Goes(p) BY <1>12, <1>22, <2>1, <2>2 DEF Goes
  <2>4. View[i].ents = NoEntry
    <3>1. DirOK(View, i) /\ View[i].type = "file" /\ IsInode(View[i])
      BY <1>5, <1>7 DEF Sound, Tree
    <3> QED BY <3>1 DEF DirOK, IsInode, NoEntry
  <2>6. \A k \in Inums : View'[k].ents = View[k].ents /\ View'[k].type = View[k].type
          /\ View'[k].nlink = View[k].nlink
    BY <1>5, <1>9, <1>11, <2>4
  <2>7. Tree(View') /\ \A k \in Inums : LinksTo(View, k)' = LinksTo(View, k)
          /\ (HasEntries(k) => HasEntries(k)')
    BY <1>1, <2>6, SameTree DEF Sound
  <2>8. Changes(p)
    <3>1. \A k \in Inums : ~ Freeing(p, k)' BY <1>12 DEF Freeing
    <3> QED BY <1>11, <1>21, <2>2, <2>6, <2>7, <3>1 DEF Changes
  <2>9. \A k \in Inums : Pends(p, k)' <=> Pends(p, k) BY <1>2, <1>12 DEF Pends
  <2>10. ASSUME NEW k \in Inums
         PROVE  View'[k].nlink - Links(k)' - Pend(p, k)' >= View[k].nlink - Links(k) - Pend(p, k)
    BY <1>1, <1>15, <2>6, <2>7, <2>9, LinksFall
  <2>11. Counted' BY <1>1, <1>13, <1>15, <2>10, CountedKept DEF Sound, Pend
  <2>12. pc'[p] # "new" BY <1>12
  <2> QED BY <2>3, <2>7, <2>8, <2>11, <2>12 DEF NewAlone
<1> QED BY <1>6, <1>13, <1>15, <1>16, <1>17, <1>18, <1>19, <1>20, <1>21, <1>22, <1>23, <1>24,
  <1>25, <1>26, MovesGood

\* open(O_TRUNC) has emptied the inode.
LEMMA OpenTruncatedGood ==
  ASSUME Good, NEW p \in Procs, OpenTruncated(p)
  PROVE  Good'
<1>1. Typed /\ Shape(p) /\ Locks /\ Coherent /\ RefsOK /\ FilesOK /\ OwnLocks(p) /\ Shaped
        /\ UnlinkOK
  BY DEF Good, Core, Shaped, Locks, OwnLocks
<1>2. /\ pc[p] = "truncating" /\ puts[p] = <<>> /\ put[p] = "no" /\ cur[p] = None /\ dp[p] = None
      /\ ip[p] \in Inums /\ p \in active /\ cwd[p] \in Inums
  BY <1>1 DEF OpenTruncated, At, Typed, ProcsTyped, Shape, WithCur, WithDp, WithIp, NoPuts,
    FilesTyped
<1>3. PICK i \in Inums : i = ip[p] BY <1>2
<1>4. lock[i] = p /\ copy[i] # NotRead /\ disk.used \in SUBSET Blocks
  BY <1>1, <1>2, <1>3, ProcsAssumption DEF OwnLocks, HoldsLock, LocksIp, Locks, Typed,
    DiskTyped, IsDisk
<1>5. IsInode(copy[i]) /\ copy[i].type # "free" /\ View[i] = copy[i]
  BY <1>1, <1>4, InodeIs DEF Typed, TableTyped, Coherent, Inode
<1>6. UNCHANGED <<durable, active, ref, copy, ftable, ofile, cwd, call, cur, rest, dp, puts,
        put, strayed>>
  BY DEF OpenTruncated, files, walk
<1>7. /\ pc' = [pc EXCEPT ![p] = "end"] /\ ip' = [ip EXCEPT ![p] = None]
      /\ lock' = [lock EXCEPT ![i] = Nobody] /\ disk' = [disk EXCEPT !.ino[i] = copy[i]]
  BY <1>1, <1>3 DEF OpenTruncated, Goto
<1>8. SetsOne(i, copy[i], copy[i], disk.used)
  <2>1. disk' = [ino |-> [k \in Inums |-> IF k = i THEN copy[i] ELSE disk.ino[k]],
          used |-> disk.used]
    BY <1>1, <1>7 DEF Typed, DiskTyped, IsDisk
  <2>2. copy' = [k \in Inums |-> IF k = i THEN copy[i] ELSE copy[k]]
    BY <1>1, <1>6 DEF Typed, TableTyped
  <2> QED BY <2>1, <2>2 DEF SetsOne
<1>9. /\ IsDisk(disk') /\ copy' = [k \in Inums |-> copy'[k]] /\ disk'.used = disk.used
      /\ \A k \in Inums : copy'[k] # NotRead => IsInode(copy'[k])
      /\ disk'.ino[i] = copy[i] /\ copy'[i] = copy[i] /\ View'[i] = copy[i]
      /\ \A k \in Inums \ {i} : disk'.ino[k] = disk.ino[k] /\ copy'[k] = copy[k]
           /\ View'[k] = View[k]
  <2>1. PICK x : x = copy[i] OBVIOUS
  <2>2. IsInode(x) /\ SetsOne(i, x, x, disk.used) /\ x # NotRead BY <1>4, <1>5, <1>8, <2>1
  <2>3. Typed BY <1>1
  <2>4. /\ IsDisk(disk') /\ copy' = [k \in Inums |-> copy'[k]] /\ disk'.used = disk.used
        /\ \A k \in Inums : copy'[k] # NotRead => IsInode(copy'[k])
        /\ disk'.ino[i] = x /\ copy'[i] = x /\ View'[i] = IF x = NotRead THEN x ELSE x
        /\ \A k \in Inums \ {i} : disk'.ino[k] = disk.ino[k] /\ copy'[k] = copy[k]
             /\ View'[k] = View[k]
    BY <1>4, <2>2, <2>3, SetsOneIs
  <2> QED BY <2>1, <2>4
<1>10. /\ pc'[p] = "end" /\ cur'[p] = None /\ ip'[p] = None /\ dp'[p] = None
       /\ puts'[p] = <<>> /\ put'[p] = "no" /\ rest'[p] = rest[p]
       /\ call'[p] = call[p] /\ cwd'[p] = cwd[p]
  BY <1>1, <1>2, <1>6, <1>7 DEF Typed, ProcsTyped
<1>11. Others(p) BY <1>1, <1>6, <1>7 DEF Typed, ProcsTyped, Others
<1>12. ProcsTyped' BY <1>1, <1>2, <1>6, <1>7 DEF Typed, ProcsTyped, Labels
<1>13. Typed'
  <2>1. DiskTyped' BY <1>1, <1>6, <1>9 DEF Typed, DiskTyped
  <2>2. lock' \in [Inums -> Procs \cup {Nobody}] BY <1>1, <1>7 DEF Typed, TableTyped
  <2>3. TableTyped' BY <1>1, <1>6, <1>9, <2>2 DEF Typed, TableTyped
  <2>4. FilesTyped' BY <1>1, <1>6 DEF Typed, FilesTyped
  <2> QED BY <1>12, <2>1, <2>3, <2>4 DEF Typed
<1>14. Shape(p)'
  BY <1>1, <1>2, <1>6, <1>10, SeqsAre DEF Shape, WithCur, WithDp, WithIp, NoPuts, Creates
<1>15. LocksMove(p) BY <1>1, <1>4, <1>6, <1>7 DEF LocksMove, Typed, TableTyped
<1>16. OwnLocks(p)' /\ \A k \in Inums : Apart(p, k)'
  BY <1>1, <1>2, <1>3, <1>7, <1>10, ProcsAssumption DEF Typed, TableTyped, OwnLocks, HoldsLock,
    Freeing, LocksIp, LocksDp, Apart
<1>17. Coherent'
  <2>1. \A k \in Inums \ {i} : /\ disk'.ino[k] = disk.ino[k] /\ copy'[k] = copy[k]
                               /\ ~ Freeing(p, k) /\ ~ Freeing(p, k)' /\ ~ Truncates(p, k)
    BY <1>2, <1>3, <1>9, <1>10 DEF Freeing, Truncates
  <2>2. ~ Freeing(p, i)' BY <1>10 DEF Freeing
  <2>3. Typed /\ Shaped /\ Locks /\ Coherent /\ Others(p) /\ lock[i] \in {p, Nobody}
    BY <1>1, <1>4, <1>11
  <2>4. copy'[i].type = disk'.ino[i].type /\ copy'[i].type # "free" /\ copy'[i] = disk'.ino[i]
    BY <1>5, <1>9
  <2> QED BY <2>1, <2>2, <2>3, <2>4, CoherentOne
<1>18. \A k \in Inums : View'[k] = View[k] BY <1>5, <1>9
<1>19. UnlinksOwn(p)' /\ SameFiles(p) BY <1>2, <1>6, <1>10 DEF UnlinksOwn, SameFiles
<1>20. FilesOK' /\ \A k \in Inums : InFile(k)' <=> InFile(k) BY <1>1, <1>11, <1>19, FilesStay
<1>21. RefsOK'
  <2>1. ASSUME NEW k \in Inums PROVE ref'[k] + Mine(p, k) = ref[k] + Mine(p, k)'
    <3>1. Mine(p, k)' = Mine(p, k) BY <1>2, <1>10 DEF Mine, CwdOf, IpOf
    <3>2. ref'[k] = ref[k] BY <1>6
    <3> QED BY <3>1, <3>2
  <2> QED BY <1>1, <1>11, <1>13, <1>19, <2>1, RefsStay
<1>22. BlocksOwned(View, disk.used)'
  <2>1. BlocksOwned(View, disk.used) BY DEF Good, Core
  <2>2. BlocksOwned(View', disk.used) BY <1>18, <2>1, BlocksStay
  <2> QED BY <1>9, <2>2
<1>23. Sound => Goes(p) /\ Changes(p) /\ Counted' /\ Tree(View') /\ NewAlone(p)'
  <2> SUFFICES ASSUME Sound PROVE Goes(p) /\ Changes(p) /\ Counted' /\ Tree(View') /\ NewAlone(p)'
    OBVIOUS
  <2>1. \A k \in Inums : /\ Holds(p, k)' => Holds(p, k)
                         /\ Reached(p, k)' => Reached(p, k)
                         /\ copy'[k] = copy[k]
    BY <1>2, <1>6, <1>10, PutsAre, NoneIs DEF Holds, Reached
  <2>2. Goes(p) BY <1>10, <1>20, <2>1 DEF Goes
  <2>3. Idle(p)' /\ pc'[p] # "new" /\ Holds(p, i) /\ \A k \in Inums : ~ Pends(p, k)
          /\ ~ Pends(p, k)'
    BY <1>2, <1>3, <1>10, NoneIs DEF Idle, Freeing, Truncates, Holds, Pends
  <2>4. Touches(p, i) BY <1>4, <1>18, <2>3, <1>5 DEF Touches, Pend, IsInode
  <2> QED BY <1>1, <1>11, <1>13, <2>2, <2>3, <2>4, SameLinks
<1> QED BY <1>6, <1>11, <1>13, <1>14, <1>15, <1>16, <1>17, <1>18, <1>19, <1>20, <1>21, <1>22,
  <1>23, MovesGood

-----
\* link() and unlink().
\* link() counts the link.
LEMMA LinkCounts ==
  ASSUME Good, NEW p \in Procs, Link(p), pc'[p] = "walk"
  PROVE  Good'
<1>1. Typed /\ Shape(p) /\ Locks /\ Coherent /\ RefsOK /\ FilesOK /\ OwnLocks(p) /\ Shaped
        /\ UnlinkOK
  BY DEF Good, Core, Shaped, Locks, OwnLocks
<1>2. /\ pc[p] = "found" /\ puts[p] = <<>> /\ put[p] = "no" /\ cur[p] \in Inums
      /\ dp[p] = None /\ ip[p] = None /\ p \in active /\ cwd[p] \in Inums
  BY <1>1 DEF Link, At, Goto, Iputs, DropDp, Iget, Reads, Ilock, table, files, walk, locals,
    bounds, D!Begin, D!End, Typed, ProcsTyped, Shape, WithCur, WithDp, WithIp, NoPuts, Typed,
    ProcsTyped, FilesTyped
<1>3. call[p].op = "link" /\ Inode(cur[p]).type # "free" BY <1>1, <1>2 DEF Link, Ilock
<1>4. call[p].new.names \in Seq(STRING) /\ Start(p, call[p].new) \in {ROOTINO, cwd[p]}
        /\ Start(p, call[p].new) \in Inums
  BY <1>1, <1>2, <1>3, RootIs DEF Typed, ProcsTyped, IsCall, Start
<1>5. IsInode(Inode(cur[p])) /\ Inode(cur[p]).nlink \in Int /\ Inode(cur[p]).nlink + 1 \in Int
        /\ disk.used \in SUBSET Blocks
  BY <1>1, <1>2, InodeIs DEF IsInode, Typed, DiskTyped, IsDisk
<1>6. PICK y : /\ y = [Inode(cur[p]) EXCEPT !.nlink = Inode(cur[p]).nlink + 1] /\ IsInode(y)
               /\ y.type # "free"
              /\ y.type = Inode(cur[p]).type /\ y.nlink = Inode(cur[p]).nlink + 1
              /\ y.addrs = Inode(cur[p]).addrs /\ y.ents = Inode(cur[p]).ents
  BY <1>3, <1>5, NlinkIs
<1>7. UNCHANGED <<durable, active, lock, ftable, ofile, cwd, call, dp, puts, put, strayed>>
  BY <1>1, <1>2 DEF Link, At, Goto, Iputs, DropDp, Iget, Reads, Ilock, table, files, walk,
    locals, bounds, D!Begin, D!End, Typed, ProcsTyped
<1>8. /\ lock[cur[p]] = Nobody /\ Inode(cur[p]).type # "dir"
      /\ ref' = [ref EXCEPT ![Start(p, call[p].new)] = @ + 1]
      /\ pc' = [pc EXCEPT ![p] = "walk"] /\ cur' = [cur EXCEPT ![p] = Start(p, call[p].new)]
      /\ rest' = [rest EXCEPT ![p] = call[p].new.names] /\ ip' = [ip EXCEPT ![p] = cur[p]]
      /\ Updates(One(cur[p], y))
  BY <1>1, <1>2, <1>3, <1>4, <1>5, <1>6 DEF Link, At, Goto, Iputs, DropDp, Iget, Reads, Ilock,
    table, files, walk, locals, bounds, D!Begin, D!End, Typed, ProcsTyped
<1>9. /\ pc'[p] = "walk" /\ cur'[p] = Start(p, call[p].new) /\ ip'[p] = cur[p]
      /\ dp'[p] = dp[p] /\ puts'[p] = puts[p] /\ put'[p] = put[p]
      /\ rest'[p] = call[p].new.names /\ call'[p] = call[p] /\ cwd'[p] = cwd[p]
      /\ lock[cur[p]] = Nobody /\ Inode(cur[p]).type # "dir"
  BY <1>1, <1>7, <1>8 DEF Typed, ProcsTyped, FilesTyped
<1>10. Others(p) BY <1>1, <1>2, <1>7, <1>8 DEF Typed, ProcsTyped, FilesTyped, Others
<1>11. ProcsTyped'
  BY <1>1, <1>2, <1>3, <1>4, <1>5, <1>6, <1>7, <1>8, <1>9, SeqsAre DEF Typed, ProcsTyped, Labels
<1>12. ref' \in [Inums -> Int] /\ lock' \in [Inums -> Procs \cup {Nobody}]
  BY <1>1, <1>2, <1>3, <1>4, <1>5, <1>6, <1>7, <1>8 DEF Typed, TableTyped
<1>13. /\ Writes(p, One(cur[p], y), disk.used)
       /\ DOMAIN One(cur[p], y) = {cur[p]}
       /\ View'[cur[p]] = y
       /\ copy'[cur[p]] = y
       /\ \A k \in Inums \ {cur[p]} : View'[k] = View[k] /\ copy'[k] = copy[k]
       /\ IsDisk(disk')
       /\ copy' = [k \in Inums |-> copy'[k]]
       /\ \A k \in Inums : copy'[k] # NotRead => IsInode(copy'[k])
  <2>1. /\ cur[p] \in Inums /\ IsInode(y) /\ y.type # "free" /\ lock[cur[p]] \in {p, Nobody}
        /\ disk.used \in SUBSET Blocks /\ UpdatesWith(One(cur[p], y), disk.used)
    BY <1>1, <1>2, <1>3, <1>4, <1>5, <1>6, <1>7, <1>8, UpdatesAre
  <2>2. Typed BY <1>1
  <2> QED BY <2>1, <2>2, WritesOne, Zenon
<1>14. Shape(p)'
  BY <1>2, <1>3, <1>4, <1>5, <1>6, <1>7, <1>9, SeqsAre, NoneIs DEF Shape, WithCur, WithDp,
    WithIp, NoPuts, Creates, WithPath
<1>15. \A i \in Inums : \/ lock'[i] = lock[i]
                        \/ lock'[i] = p /\ i \in {cur[p]}
                        \/ lock'[i] = Nobody /\ lock[i] = p
  BY <1>1, <1>2, <1>3, <1>4, <1>5, <1>6, <1>7, <1>8 DEF Typed, TableTyped, OwnLocks, HoldsLock,
    LocksIp, LocksDp
<1>16. OwnLocks(p)'
  BY <1>1, <1>2, <1>3, <1>4, <1>5, <1>6, <1>7, <1>8, <1>9, ProcsAssumption, SeqsAre DEF Typed,
    TableTyped, OwnLocks, HoldsLock, Freeing, LocksIp, LocksDp
<1>17. Idle(p) /\ Idle(p)'
  BY <1>1, <1>2, <1>3, <1>4, <1>5, <1>6, <1>7, <1>8, <1>9, SeqsAre DEF Idle, Freeing, Truncates
<1>18. UnlinksOwn(p)'
  BY <1>1, <1>2, <1>3, <1>4, <1>5, <1>6, <1>7, <1>8, <1>9, NoneIs DEF UnlinksOwn
<1>19. SameFiles(p) BY <1>1, <1>2, <1>3, <1>4, <1>5, <1>6, <1>7, <1>8, <1>9 DEF SameFiles
<1>20. \A i \in Inums : InFile(i)' <=> InFile(i) BY <1>1, <1>10, <1>19, FilesStay
<1>21. ASSUME NEW k \in Inums PROVE ref'[k] + Mine(p, k) = ref[k] + Mine(p, k)'
  <2>1. ref'[k] = ref[k] + Is(Start(p, call[p].new), k) /\ ref[k] \in Int
    BY <1>1, <1>2, <1>3, <1>4, <1>5, <1>6, <1>7, <1>8 DEF Is, Typed, TableTyped
  <2>2. Mine(p, k) = Is(cwd[p], k) + Is(cur[p], k)
    BY <1>1, <1>2, <1>3, <1>4, <1>5, <1>6, IsAre, PutsAre DEF Mine, CwdOf, IpOf
  <2>6. pc'[p] = "walk" /\ cwd'[p] = cwd[p] /\ cur'[p] = Start(p, call[p].new)
          /\ ip'[p] = cur[p] /\ dp'[p] = None
    BY <1>2, <1>3, <1>4, <1>5, <1>6, <1>7, <1>8, <1>9
  <2>5. Put1(puts'[p]) = None /\ Put2(puts'[p]) = None BY <1>2, <1>9, PutsAre
  <2>3. Mine(p, k)' = Is(cwd[p], k) + Is(Start(p, call[p].new), k) + Is(cur[p], k)
    BY <2>6, <2>5, IsAre, PutsAre DEF Mine, CwdOf, IpOf
  <2>4. \A x : Is(x, k) \in Int BY IsAre
  <2> QED BY <2>1, <2>2, <2>3, <2>4
<1>22. Typed'
  <2>1. DiskTyped' BY <1>1, <1>7, <1>8, <1>13 DEF Typed, DiskTyped
  <2>2. TableTyped' BY <1>12, <1>13 DEF TableTyped
  <2>3. FilesTyped' BY <1>1, <1>7, <1>8 DEF Typed, FilesTyped
  <2> QED BY <1>11, <2>1, <2>2, <2>3 DEF Typed
<1>23. RefsOK' /\ FilesOK' BY <1>1, <1>22, <1>10, <1>19, <1>21, RefsStay, FilesStay
<1>25. Sound => Goes(p) /\ Changes(p) /\ Counted' /\ Tree(View') /\ NewAlone(p)'
  <2> SUFFICES ASSUME Sound PROVE Goes(p) /\ Changes(p) /\ Counted' /\ Tree(View') /\ NewAlone(p)'
    OBVIOUS
  <2>1. HasEntries(ROOTINO) /\ View[ROOTINO].nlink >= 1 BY <1>1, RootReached DEF Sound
  <2>2. \A i \in Inums : Holds(p, i)' => Holds(p, i) \/ InFile(i) \/ View[i].nlink >= 1
    BY <1>2, <1>3, <1>4, <1>5, <1>6, <1>7, <1>9, <2>1, PutsAre, NoneIs DEF Holds
  <2>3. \A i \in Inums : Reached(p, i)' => Reached(p, i) \/ HasEntries(i)
    BY <1>2, <1>3, <1>4, <1>5, <1>6, <1>7, <1>9, <2>1 DEF Reached
  <2>4. \A i \in Inums : copy'[i] = copy[i] \/ copy'[i] = NotRead \/ Holds(p, i) \/ InFile(i)
    BY <1>2, <1>3, <1>4, <1>5, <1>6, <2>1, <1>13 DEF Holds
  <2>5. /\ dp'[p] # None => dp'[p] \in Inums /\ View[dp'[p]].type = "dir"
        /\ pc'[p] \in {"walk", "parent", "giveUp", "linkBad"} /\ ip'[p] # None =>
             ip'[p] \in Inums /\ View[ip'[p]].type # "dir"
    BY <1>2, <1>3, <1>4, <1>5, <1>6, <1>7, <1>9, <2>1, <1>1, InodeIs DEF Sound, Reaching,
      LinkedFile
  <2>6. Goes(p) BY <2>2, <2>3, <2>4, <2>5, <1>20 DEF Goes
  <2>7. Changes(p) /\ Counted' /\ Tree(View') /\ NewAlone(p)'
    <3>1. PICK i \in Inums : i = cur[p] BY <1>2
    <3>2. /\ View'[i].type = View[i].type
          /\ View'[i].ents = View[i].ents
        /\ Holds(p, i) /\ lock[i] \in {p, Nobody}
      BY <1>1, <1>2, <1>3, <1>4, <1>5, <1>6, <1>7, <1>8, <1>13, <3>1, InodeIs DEF Holds
    <3>3. View'[i].nlink = View[i].nlink + 1 /\ View[i].nlink \in Int
      BY <1>1, <1>2, <1>3, <1>4, <1>5, <1>6, <1>7, <1>8, <1>13, <3>1, InodeIs DEF IsInode
    <3>4. Pend(p, i) = 0 /\ Pend(p, i)' = 1 /\ pc'[p] # "new"
      BY <1>2, <1>9, <3>1, NoneIs DEF Pend, Pends
    <3>5. View'[i].nlink - Pend(p, i)' >= View[i].nlink - Pend(p, i) BY <3>3, <3>4
    <3>6. \A k \in Inums \ {i} : Pends(p, k)' => Pends(p, k)
      BY <1>2, <1>9, <3>1, NoneIs DEF Pends
    <3>7. \A k \in Inums \ {i} : View'[k] = View[k] BY <1>13, <3>1
    <3>8. Touches(p, i) BY <3>2, <3>5, <3>6, <3>7 DEF Touches
    <3> QED BY <1>1, <1>10, <1>22, <1>17, <3>4, <3>8, SameLinks
  <2> QED BY <2>6, <2>7
<1>26. BlocksOwned(View', disk.used)
  <2>1. \A k \in Inums : Range(View'[k].addrs) = Range(View[k].addrs)
    BY <1>1, <1>2, <1>3, <1>4, <1>5, <1>6, <1>7, <1>8, <1>13, InodeIs
  <2>2. BlocksOwned(View, disk.used) BY DEF Good, Core
  <2> QED BY <2>1, <2>2, BlocksStay
<1> QED BY <1>7, <1>8, <1>10, <1>13, <1>14, <1>15, <1>16, <1>17, <1>18, <1>25, <1>22, <1>23,
  <1>26, ChangeGood

\* link() writes the entry.
LEMMA LinkEntryMakes ==
  ASSUME Good, NEW p \in Procs, LinkEntry(p), pc'[p] = "end"
  PROVE  Good'
<1>1. Typed /\ Shape(p) /\ Locks /\ Coherent /\ RefsOK /\ FilesOK /\ OwnLocks(p) /\ Shaped
        /\ UnlinkOK
  BY DEF Good, Core, Shaped, Locks, OwnLocks
<1>2. /\ pc[p] = "parent" /\ puts[p] = <<>> /\ put[p] = "no" /\ cur[p] = None
      /\ dp[p] \in Inums /\ ip[p] \in Inums \cup {None} /\ p \in active /\ cwd[p] \in Inums
      /\ call[p].op = "link"
  BY <1>1 DEF LinkEntry, At, Goto, Typed, ProcsTyped, Shape, WithCur, WithDp, WithIp, NoPuts,
    FilesTyped
<1>3. ip[p] \in Inums /\ rest[p] # <<>> /\ rest[p] \in Seq(STRING)
  BY <1>1, <1>2 DEF Shape, Typed, ProcsTyped
<1>4. Name(p) \in STRING BY <1>3 DEF Name
<1>5. IsInode(Inode(dp[p])) /\ Inode(dp[p]).type # "free" /\ disk.used \in SUBSET Blocks
  BY <1>1, <1>2, InodeIs DEF LinkEntry, Ilock, Typed, DiskTyped, IsDisk
<1>30. PICK w : w = [ok |-> TRUE, inode |-> Inode(dp[p]), used |-> disk.used] OBVIOUS
<1>31. /\ w = [ok |-> w.ok, inode |-> w.inode, used |-> w.used] /\ w.ok = TRUE
       /\ w.inode = Inode(dp[p]) /\ w.used = disk.used
  BY <1>30
<1>6. PICK v : IsEntered(w, Name(p), ip[p], v) BY <1>3, <1>4, <1>5, <1>31, DirlinkIs
<1>32. v = Dirlink([ok |-> TRUE, inode |-> Inode(dp[p]), used |-> disk.used], Name(p), ip[p])
         /\ v.ok \in BOOLEAN
  BY <1>6, <1>30 DEF IsEntered
<1>33. v.ok BY <1>1, <1>32 DEF LinkEntry, Goto, DropDp, Typed, ProcsTyped
<1>34. PICK y, m : y = v.inode /\ m = v.used OBVIOUS
<1>7. /\ IsInode(y) /\ y.type # "free"
      /\ y.type = Inode(dp[p]).type /\ y.nlink = Inode(dp[p]).nlink
      /\ y.ents = Entered(Inode(dp[p]).ents, Name(p), ip[p])
      /\ Takes(Inode(dp[p]).addrs, disk.used, y.addrs, m) /\ m \in SUBSET Blocks
      /\ Name(p) \notin DOMAIN Inode(dp[p]).ents
  BY <1>6, <1>31, <1>33, <1>34 DEF IsEntered
<1>8. UNCHANGED <<durable, active, ref, lock, ftable, ofile, cwd, call, cur, rest, put, strayed>>
  BY <1>1 DEF LinkEntry, At, Goto, Iputs, DropDp, table, files, walk, locals, D!End, Typed,
    ProcsTyped
<1>9. /\ lock[dp[p]] = Nobody /\ Name(p) \notin DOMAIN Inode(dp[p]).ents
      /\ pc' = [pc EXCEPT ![p] = "end"] /\ ip' = [ip EXCEPT ![p] = None]
      /\ dp' = [dp EXCEPT ![p] = None] /\ puts' = [puts EXCEPT ![p] = <<dp[p], ip[p]>>]
      /\ UpdatesWith(One(dp[p], y), m)
  BY <1>1, <1>7, <1>32, <1>33, <1>34 DEF LinkEntry, At, Goto, Iputs, DropDp, Iget, Reads, Ilock,
    Typed, ProcsTyped
<1>10. /\ pc'[p] = "end" /\ cur'[p] = cur[p] /\ ip'[p] = None /\ dp'[p] = None
      /\ puts'[p] = <<dp[p], ip[p]>> /\ put'[p] = put[p] /\ rest'[p] = rest[p]
      /\ call'[p] = call[p] /\ cwd'[p] = cwd[p] /\ lock[dp[p]] = Nobody
      /\ Name(p) \notin DOMAIN Inode(dp[p]).ents
  BY <1>1, <1>8, <1>9 DEF Typed, ProcsTyped
<1>11. Others(p) BY <1>8, <1>9 DEF Others
<1>12. ProcsTyped' BY <1>1, <1>2, <1>3, <1>8, <1>9 DEF Typed, ProcsTyped, Labels
<1>13. ref' \in [Inums -> Int] /\ lock' \in [Inums -> Procs \cup {Nobody}]
  BY <1>1, <1>8 DEF Typed, TableTyped
<1>14. /\ Writes(p, One(dp[p], y), m)
       /\ DOMAIN One(dp[p], y) = {dp[p]}
       /\ View'[dp[p]] = y
       /\ copy'[dp[p]] = y
       /\ \A k \in Inums \ {dp[p]} : View'[k] = View[k] /\ copy'[k] = copy[k]
       /\ IsDisk(disk')
       /\ copy' = [k \in Inums |-> copy'[k]]
       /\ \A k \in Inums : copy'[k] # NotRead => IsInode(copy'[k])
  <2>1. /\ dp[p] \in Inums /\ IsInode(y) /\ y.type # "free" /\ lock[dp[p]] \in {p, Nobody}
        /\ m \in SUBSET Blocks
        /\ UpdatesWith(One(dp[p], y), m)
    BY <1>2, <1>7, <1>9
  <2>2. Typed BY <1>1
  <2> QED BY <2>1, <2>2, WritesOne, Zenon
<1>15. Shape(p)' BY <1>2, <1>8, <1>10 DEF Shape, WithCur, WithDp, WithIp, NoPuts
<1>16. \A i \in Inums : \/ lock'[i] = lock[i]
                        \/ lock'[i] = p /\ i \in {dp[p]}
                        \/ lock'[i] = Nobody /\ lock[i] = p
  BY <1>8
<1>17. OwnLocks(p)' BY <1>1, <1>2, <1>8 DEF OwnLocks, HoldsLock, Freeing, LocksIp, LocksDp
<1>18. Idle(p) /\ Idle(p)' BY <1>2, <1>10 DEF Idle, Freeing, Truncates
<1>19. UnlinksOwn(p)' BY DEF UnlinksOwn
<1>20. SameFiles(p) BY <1>8 DEF SameFiles
<1>21. \A i \in Inums : InFile(i)' <=> InFile(i) BY <1>1, <1>11, <1>20, FilesStay
<1>22. ASSUME NEW k \in Inums PROVE ref'[k] + Mine(p, k) = ref[k] + Mine(p, k)'
  <2>1. ref'[k] = ref[k] /\ ref[k] \in Int BY <1>1, <1>8 DEF Typed, TableTyped
  <2>2. Mine(p, k) = Is(cwd[p], k) + Is(ip[p], k) + Is(dp[p], k)
    BY <1>2, IsAre, PutsAre DEF Mine, CwdOf, IpOf
  <2>5. Put1(puts'[p]) = dp[p] /\ Put2(puts'[p]) = ip[p] BY <1>10, PutsAre
  <2>6. pc'[p] = "end" /\ cwd'[p] = cwd[p] /\ cur'[p] = None /\ ip'[p] = None /\ dp'[p] = None
    BY <1>2, <1>10
  <2>3. Mine(p, k)' = Is(cwd[p], k) + Is(dp[p], k) + Is(ip[p], k)
    BY <2>6, <2>5, IsAre DEF Mine, CwdOf, IpOf
  <2>4. \A x : Is(x, k) \in Int BY IsAre
  <2> QED BY <2>1, <2>2, <2>3, <2>4
<1>23. Typed'
  <2>1. DiskTyped' BY <1>1, <1>8, <1>14 DEF Typed, DiskTyped
  <2>2. TableTyped' BY <1>13, <1>14 DEF TableTyped
  <2>3. FilesTyped' BY <1>1, <1>8 DEF Typed, FilesTyped
  <2> QED BY <1>12, <2>1, <2>2, <2>3 DEF Typed
<1>24. RefsOK' /\ FilesOK' BY <1>1, <1>23, <1>11, <1>20, <1>22, RefsStay, FilesStay
<1>26. Sound => Goes(p) /\ Changes(p) /\ Counted' /\ Tree(View') /\ NewAlone(p)'
  <2> SUFFICES ASSUME Sound PROVE Goes(p) /\ Changes(p) /\ Counted' /\ Tree(View') /\ NewAlone(p)'
    OBVIOUS
  <2>1. \A i \in Inums : Holds(p, i)' => Holds(p, i) \/ InFile(i) \/ View[i].nlink >= 1
    BY <1>2, <1>10, PutsAre DEF Holds
  <2>2. \A i \in Inums : Reached(p, i)' => Reached(p, i) \/ HasEntries(i)
    BY <1>2, <1>10 DEF Reached
  <2>3. \A i \in Inums : copy'[i] = copy[i] \/ copy'[i] = NotRead \/ Holds(p, i) \/ InFile(i)
    BY <1>14 DEF Holds
  <2>4. /\ dp'[p] # None => dp'[p] \in Inums /\ View[dp'[p]].type = "dir"
        /\ pc'[p] \in {"walk", "parent", "giveUp", "linkBad"} /\ ip'[p] # None =>
             ip'[p] \in Inums /\ View[ip'[p]].type # "dir"
    BY <1>10
  <2>5. Goes(p) BY <2>1, <2>2, <2>3, <2>4, <1>21 DEF Goes
  <2>6. Changes(p) /\ Counted' /\ Tree(View') /\ NewAlone(p)'
    <3>1. PICK d \in Inums, i \in Inums, n \in STRING : d = dp[p] /\ i = ip[p] /\ n = Name(p)
      BY <1>2, <1>3, <1>4
    <3>2. /\ View[d] = Inode(d) /\ View[d].type = "dir" /\ DOMAIN View[d].ents # {}
          /\ View[i].type # "dir"
        /\ n \notin DOMAIN View[d].ents
      BY <1>1, <1>2, <1>9, <3>1, InodeIs, NoneIs DEF Sound, Reaching, Reached, HasEntries,
        LinkedFile
    <3>3. /\ View'[d].type = View[d].type
          /\ View'[d].nlink = View[d].nlink
        /\ View'[d].ents = Entered(View[d].ents, n, i)
        /\ \A k \in Inums \ {d} : View'[k] = View[k]
      BY <1>7, <1>14, <3>1, <3>2
    <3>4. Inos(View) /\ Tree(View) BY <1>1, InodeIs DEF Sound
    <3>11. \A k \in Inums \ {d} : View'[k].type = View[k].type /\ View'[k].ents = View[k].ents
      BY <3>3
    <3>12. NameMade(View, View', d, n, i) BY <3>2, <3>3 DEF NameMade
    <3>5. Tree(View') /\ SameBut(View, View', {i}) /\ OneMore(View, View', i, <<d, n>>)
      BY <3>2, <3>4, <3>12, NamedFile
    <3>6. Pend(p, i) = 1 /\ pc'[p] = "end" /\ \A k \in Inums : Pend(p, k)' = 0
            /\ Pend(p, k) \in {0, 1}
      BY <1>2, <3>1 DEF Pend, Pends
    <3>7. Mends(p, d) BY <1>9, <3>1, <3>3 DEF Mends, Holds, Entered
    <3>8. Changes(p) BY <1>18, <3>3, <3>7, ChangesAre
    <3>9. ASSUME NEW k \in Inums
          PROVE  View'[k].nlink - Links(k)' - Pend(p, k)' >= View[k].nlink - Links(k) - Pend(p, k)
      BY <1>1, <1>23, <3>3, <3>5, <3>6, LinksGrow
    <3>10. Counted' BY <1>1, <1>11, <1>23, <3>9, CountedKept DEF Sound, Pend
    <3> QED BY <3>5, <3>8, <3>10 DEF NewAlone
  <2> QED BY <2>5, <2>6
<1>27. BlocksOwned(View', m)
  <2>1. PICK i \in Inums : i = dp[p] BY <1>2
  <2>2. View[i].addrs = Inode(i).addrs /\ View'[i].addrs = y.addrs
          /\ \A k \in Inums \ {i} : View'[k].addrs = View[k].addrs
    BY <1>1, <1>14, <2>1, InodeIs
  <2>3. BlocksOwned(View, disk.used) BY DEF Good, Core
  <2>4. Takes(View[i].addrs, disk.used, View'[i].addrs, m) BY <1>7, <2>1, <2>2
  <2> QED BY <2>2, <2>3, <2>4, TakesOneOwned
<1> QED BY <1>8, <1>11, <1>14, <1>15, <1>17, <1>18, <1>19, <1>26, <1>23, <1>24, <1>27,
  ChangeGood

\* link() finds no block for the entry, or none but the indirect one.
LEMMA LinkEntryShort ==
  ASSUME Good, NEW p \in Procs, LinkEntry(p), pc'[p] = "linkBad"
  PROVE  Good'
<1>1. Typed /\ Shape(p) /\ Locks /\ Coherent /\ RefsOK /\ FilesOK /\ OwnLocks(p) /\ Shaped
        /\ UnlinkOK
  BY DEF Good, Core, Shaped, Locks, OwnLocks
<1>2. /\ pc[p] = "parent" /\ puts[p] = <<>> /\ put[p] = "no" /\ cur[p] = None
      /\ dp[p] \in Inums /\ ip[p] \in Inums \cup {None} /\ p \in active /\ cwd[p] \in Inums
      /\ call[p].op = "link"
  BY <1>1 DEF LinkEntry, At, Goto, Typed, ProcsTyped, Shape, WithCur, WithDp, WithIp, NoPuts,
    FilesTyped
<1>3. ip[p] \in Inums /\ rest[p] # <<>> /\ rest[p] \in Seq(STRING)
  BY <1>1, <1>2 DEF Shape, Typed, ProcsTyped
<1>4. Name(p) \in STRING BY <1>3 DEF Name
<1>5. IsInode(Inode(dp[p])) /\ Inode(dp[p]).type # "free" /\ disk.used \in SUBSET Blocks
  BY <1>1, <1>2, InodeIs DEF LinkEntry, Ilock, Typed, DiskTyped, IsDisk
<1>30. PICK w : w = [ok |-> TRUE, inode |-> Inode(dp[p]), used |-> disk.used] OBVIOUS
<1>31. /\ w = [ok |-> w.ok, inode |-> w.inode, used |-> w.used] /\ w.ok = TRUE
       /\ w.inode = Inode(dp[p]) /\ w.used = disk.used
  BY <1>30
<1>6. PICK v : IsEntered(w, Name(p), ip[p], v) BY <1>3, <1>4, <1>5, <1>31, DirlinkIs
<1>32. v = Dirlink([ok |-> TRUE, inode |-> Inode(dp[p]), used |-> disk.used], Name(p), ip[p])
         /\ v.ok \in BOOLEAN
  BY <1>6, <1>30 DEF IsEntered
<1>33. ~ v.ok /\ Name(p) \notin DOMAIN Inode(dp[p]).ents
  BY <1>1, <1>32 DEF LinkEntry, Goto, DropDp, Typed, ProcsTyped
<1>34. PICK y, m : y = v.inode /\ m = v.used OBVIOUS
<1>7. /\ IsInode(y) /\ y.type # "free"
      /\ y.type = Inode(dp[p]).type /\ y.nlink = Inode(dp[p]).nlink
      /\ y.ents = Inode(dp[p]).ents
      /\ Takes(Inode(dp[p]).addrs, disk.used, y.addrs, m) /\ m \in SUBSET Blocks
  BY <1>6, <1>31, <1>33, <1>34 DEF IsEntered
<1>8. UNCHANGED <<durable, active, ref, lock, ftable, ofile, cwd, call, cur, rest, ip, put, strayed>>
  BY <1>1 DEF LinkEntry, At, Goto, Iputs, DropDp, table, files, walk, locals, D!End, Typed,
    ProcsTyped
<1>9. /\ lock[dp[p]] = Nobody /\ pc' = [pc EXCEPT ![p] = "linkBad"]
      /\ dp' = [dp EXCEPT ![p] = None] /\ puts' = [puts EXCEPT ![p] = <<dp[p]>>]
      /\ UpdatesWith(One(dp[p], y), m)
  BY <1>1, <1>7, <1>32, <1>33, <1>34 DEF LinkEntry, At, Goto, Iputs, DropDp, Iget, Reads, Ilock,
    Typed, ProcsTyped
<1>10. /\ pc'[p] = "linkBad" /\ cur'[p] = cur[p] /\ ip'[p] = ip[p] /\ dp'[p] = None
      /\ puts'[p] = <<dp[p]>> /\ put'[p] = put[p] /\ rest'[p] = rest[p]
      /\ call'[p] = call[p] /\ cwd'[p] = cwd[p] /\ lock[dp[p]] = Nobody
  BY <1>1, <1>8, <1>9 DEF Typed, ProcsTyped
<1>11. Others(p) BY <1>8, <1>9 DEF Others
<1>12. ProcsTyped' BY <1>1, <1>2, <1>3, <1>8, <1>9 DEF Typed, ProcsTyped, Labels
<1>13. ref' \in [Inums -> Int] /\ lock' \in [Inums -> Procs \cup {Nobody}]
  BY <1>1, <1>8 DEF Typed, TableTyped
<1>14. /\ Writes(p, One(dp[p], y), m)
       /\ DOMAIN One(dp[p], y) = {dp[p]}
       /\ View'[dp[p]] = y
       /\ copy'[dp[p]] = y
       /\ \A k \in Inums \ {dp[p]} : View'[k] = View[k] /\ copy'[k] = copy[k]
       /\ IsDisk(disk')
       /\ copy' = [k \in Inums |-> copy'[k]]
       /\ \A k \in Inums : copy'[k] # NotRead => IsInode(copy'[k])
  <2>1. /\ dp[p] \in Inums /\ IsInode(y) /\ y.type # "free" /\ lock[dp[p]] \in {p, Nobody}
        /\ m \in SUBSET Blocks
        /\ UpdatesWith(One(dp[p], y), m)
    BY <1>2, <1>7, <1>9
  <2>2. Typed BY <1>1
  <2> QED BY <2>1, <2>2, WritesOne, Zenon
<1>15. Shape(p)' BY <1>2, <1>3, <1>8, <1>10, NoneIs DEF Shape, WithCur, WithDp, WithIp, NoPuts
<1>16. \A i \in Inums : \/ lock'[i] = lock[i]
                        \/ lock'[i] = p /\ i \in {dp[p]}
                        \/ lock'[i] = Nobody /\ lock[i] = p
  BY <1>8
<1>17. OwnLocks(p)' BY <1>1, <1>2, <1>8 DEF OwnLocks, HoldsLock, Freeing, LocksIp, LocksDp
<1>18. Idle(p) /\ Idle(p)' BY <1>2, <1>10 DEF Idle, Freeing, Truncates
<1>19. UnlinksOwn(p)' BY DEF UnlinksOwn
<1>20. SameFiles(p) BY <1>8 DEF SameFiles
<1>21. \A i \in Inums : InFile(i)' <=> InFile(i) BY <1>1, <1>11, <1>20, FilesStay
<1>22. ASSUME NEW k \in Inums PROVE ref'[k] + Mine(p, k) = ref[k] + Mine(p, k)'
  <2>1. ref'[k] = ref[k] /\ ref[k] \in Int BY <1>1, <1>8 DEF Typed, TableTyped
  <2>2. Mine(p, k) = Is(cwd[p], k) + Is(ip[p], k) + Is(dp[p], k)
    BY <1>2, IsAre, PutsAre DEF Mine, CwdOf, IpOf
  <2>5. Put1(puts'[p]) = dp[p] /\ Put2(puts'[p]) = None BY <1>10, PutsAre
  <2>6. pc'[p] = "linkBad" /\ cwd'[p] = cwd[p] /\ cur'[p] = None /\ ip'[p] = ip[p] /\ dp'[p] = None
    BY <1>2, <1>10
  <2>3. Mine(p, k)' = Is(cwd[p], k) + Is(dp[p], k) + Is(ip[p], k)
    BY <2>6, <2>5, IsAre DEF Mine, CwdOf, IpOf
  <2>4. \A x : Is(x, k) \in Int BY IsAre
  <2> QED BY <2>1, <2>2, <2>3, <2>4
<1>23. Typed'
  <2>1. DiskTyped' BY <1>1, <1>8, <1>14 DEF Typed, DiskTyped
  <2>2. TableTyped' BY <1>13, <1>14 DEF TableTyped
  <2>3. FilesTyped' BY <1>1, <1>8 DEF Typed, FilesTyped
  <2> QED BY <1>12, <2>1, <2>2, <2>3 DEF Typed
<1>24. RefsOK' /\ FilesOK' BY <1>1, <1>23, <1>11, <1>20, <1>22, RefsStay, FilesStay
<1>26. Sound => Goes(p) /\ Changes(p) /\ Counted' /\ Tree(View') /\ NewAlone(p)'
  <2> SUFFICES ASSUME Sound PROVE Goes(p) /\ Changes(p) /\ Counted' /\ Tree(View') /\ NewAlone(p)'
    OBVIOUS
  <2>1. \A i \in Inums : Holds(p, i)' => Holds(p, i) \/ InFile(i) \/ View[i].nlink >= 1
    BY <1>2, <1>10, PutsAre DEF Holds
  <2>2. \A i \in Inums : Reached(p, i)' => Reached(p, i) \/ HasEntries(i)
    BY <1>2, <1>10 DEF Reached
  <2>3. \A i \in Inums : copy'[i] = copy[i] \/ copy'[i] = NotRead \/ Holds(p, i) \/ InFile(i)
    BY <1>14 DEF Holds
  <2>4. /\ dp'[p] # None => dp'[p] \in Inums /\ View[dp'[p]].type = "dir"
        /\ pc'[p] \in {"walk", "parent", "giveUp", "linkBad"} /\ ip'[p] # None =>
             ip'[p] \in Inums /\ View[ip'[p]].type # "dir"
    BY <1>2, <1>3, <1>10 DEF Sound, Reaching, LinkedFile
  <2>5. Goes(p) BY <2>1, <2>2, <2>3, <2>4, <1>21 DEF Goes
  <2>6. Changes(p) /\ Counted' /\ Tree(View') /\ NewAlone(p)'
    <3>1. PICK d \in Inums : d = dp[p] BY <1>2
    <3>2. View[d] = Inode(d) /\ Holds(p, d) /\ lock[d] = Nobody
      BY <1>1, <1>10, <3>1, InodeIs DEF Holds
    <3>3. /\ View'[d].type = View[d].type /\ View'[d].nlink = View[d].nlink
          /\ View'[d].ents = View[d].ents /\ \A k \in Inums \ {d} : View'[k] = View[k]
      BY <1>7, <1>14, <3>1, <3>2
    <3>4. \A k \in Inums : Pends(p, k)' <=> Pends(p, k)
      BY <1>2, <1>3, <1>8, <1>10, NoneIs DEF Pends
    <3>5. View[d].nlink \in Int /\ \A k \in Inums : Pend(p, k)' = Pend(p, k) /\ Pend(p, k) \in Int
      BY <1>5, <3>1, <3>2, <3>4 DEF Pend, IsInode
    <3>6. Touches(p, d) BY <3>2, <3>3, <3>4, <3>5 DEF Touches
    <3>7. pc'[p] # "new" BY <1>10
    <3> QED BY <1>1, <1>11, <1>18, <1>23, <3>6, <3>7, SameLinks
  <2> QED BY <2>5, <2>6
<1>27. BlocksOwned(View', m)
  <2>1. PICK i \in Inums : i = dp[p] BY <1>2
  <2>2. View[i].addrs = Inode(i).addrs /\ View'[i].addrs = y.addrs
          /\ \A k \in Inums \ {i} : View'[k].addrs = View[k].addrs
    BY <1>1, <1>14, <2>1, InodeIs
  <2>3. BlocksOwned(View, disk.used) BY DEF Good, Core
  <2>4. Takes(View[i].addrs, disk.used, View'[i].addrs, m) BY <1>7, <2>1, <2>2
  <2> QED BY <2>2, <2>3, <2>4, TakesOneOwned
<1> QED BY <1>8, <1>11, <1>14, <1>15, <1>17, <1>18, <1>19, <1>26, <1>23, <1>24, <1>27,
  ChangeGood

\* link() takes its count back.
LEMMA LinkBadGood ==
  ASSUME Good, NEW p \in Procs, LinkBad(p)
  PROVE  Good'
<1>1. Typed /\ Shape(p) /\ Locks /\ Coherent /\ RefsOK /\ FilesOK /\ OwnLocks(p) /\ Shaped
        /\ UnlinkOK
  BY DEF Good, Core, Shaped, Locks, OwnLocks
<1>2. /\ pc[p] = "linkBad" /\ puts[p] = <<>> /\ put[p] = "no" /\ cur[p] = None
      /\ dp[p] = None /\ ip[p] \in Inums /\ p \in active /\ cwd[p] \in Inums
  BY <1>1 DEF LinkBad, At, Goto, Iputs, DropDp, Iget, Reads, Ilock, table, files, walk, locals,
    bounds, D!Begin, D!End, Shape, WithCur, WithDp, WithIp, NoPuts, Typed, ProcsTyped,
    FilesTyped
<1>3. lock[ip[p]] = Nobody /\ Inode(ip[p]).type # "free" BY <1>1, <1>2 DEF LinkBad, Ilock
<1>4. IsInode(Inode(ip[p])) /\ Inode(ip[p]).nlink \in Int /\ Inode(ip[p]).nlink - 1 \in Int
        /\ disk.used \in SUBSET Blocks
  BY <1>1, <1>2, InodeIs DEF IsInode, Typed, DiskTyped, IsDisk
<1>5. PICK y : /\ y = [Inode(ip[p]) EXCEPT !.nlink = Inode(ip[p]).nlink - 1] /\ IsInode(y)
               /\ y.type # "free"
              /\ y.type = Inode(ip[p]).type /\ y.nlink = Inode(ip[p]).nlink - 1
              /\ y.addrs = Inode(ip[p]).addrs /\ y.ents = Inode(ip[p]).ents
  BY <1>3, <1>4, NlinkIs
<1>6. UNCHANGED <<durable, active, ref, lock, ftable, ofile, cwd, call, cur, rest, dp, put,
        strayed>>
  BY DEF LinkBad, At, Goto, Iputs, DropDp, Iget, Reads, Ilock, table, files, walk, locals,
    bounds, D!Begin, D!End
<1>7. /\ pc' = [pc EXCEPT ![p] = "end"] /\ ip' = [ip EXCEPT ![p] = None]
      /\ puts' = [puts EXCEPT ![p] = <<ip[p]>>] /\ Updates(One(ip[p], y))
  BY <1>1, <1>2, <1>3, <1>4, <1>5 DEF LinkBad, At, Goto, Iputs, DropDp, Iget, Reads, Ilock,
    table, files, walk, locals, bounds, D!Begin, D!End
<1>8. /\ pc'[p] = "end" /\ cur'[p] = cur[p] /\ ip'[p] = None /\ dp'[p] = dp[p]
      /\ puts'[p] = <<ip[p]>> /\ put'[p] = put[p] /\ rest'[p] = rest[p]
      /\ call'[p] = call[p] /\ cwd'[p] = cwd[p]
  BY <1>1, <1>6, <1>7 DEF Typed, ProcsTyped, FilesTyped
<1>9. Others(p) BY <1>1, <1>2, <1>6, <1>7 DEF Typed, ProcsTyped, FilesTyped, Others
<1>10. ProcsTyped'
  BY <1>1, <1>2, <1>3, <1>4, <1>5, <1>6, <1>7, <1>8, SeqsAre DEF Typed, ProcsTyped, Labels
<1>11. ref' \in [Inums -> Int] /\ lock' \in [Inums -> Procs \cup {Nobody}]
  BY <1>1, <1>2, <1>3, <1>4, <1>5, <1>6, <1>7 DEF Typed, TableTyped
<1>12. /\ Writes(p, One(ip[p], y), disk.used)
       /\ DOMAIN One(ip[p], y) = {ip[p]}
       /\ View'[ip[p]] = y
       /\ copy'[ip[p]] = y
       /\ \A k \in Inums \ {ip[p]} : View'[k] = View[k] /\ copy'[k] = copy[k]
       /\ IsDisk(disk')
       /\ copy' = [k \in Inums |-> copy'[k]]
       /\ \A k \in Inums : copy'[k] # NotRead => IsInode(copy'[k])
  <2>1. /\ ip[p] \in Inums /\ IsInode(y) /\ y.type # "free" /\ lock[ip[p]] \in {p, Nobody}
        /\ disk.used \in SUBSET Blocks /\ UpdatesWith(One(ip[p], y), disk.used)
    BY <1>1, <1>2, <1>3, <1>4, <1>5, <1>6, <1>7, UpdatesAre
  <2>2. Typed BY <1>1
  <2> QED BY <2>1, <2>2, WritesOne, Zenon
<1>13. Shape(p)'
  BY <1>2, <1>3, <1>4, <1>5, <1>6, <1>8, SeqsAre, NoneIs DEF Shape, WithCur, WithDp, WithIp,
    NoPuts, Creates
<1>14. \A i \in Inums : \/ lock'[i] = lock[i]
                        \/ lock'[i] = p /\ i \in {ip[p]}
                        \/ lock'[i] = Nobody /\ lock[i] = p
  BY <1>1, <1>2, <1>3, <1>4, <1>5, <1>6, <1>7 DEF Typed, TableTyped, OwnLocks, HoldsLock,
    LocksIp, LocksDp
<1>15. OwnLocks(p)'
  BY <1>1, <1>2, <1>3, <1>4, <1>5, <1>6, <1>7, <1>8, ProcsAssumption, SeqsAre DEF Typed,
    TableTyped, OwnLocks, HoldsLock, Freeing, LocksIp, LocksDp
<1>16. Idle(p) /\ Idle(p)'
  BY <1>1, <1>2, <1>3, <1>4, <1>5, <1>6, <1>7, <1>8, SeqsAre DEF Idle, Freeing, Truncates
<1>17. UnlinksOwn(p)' BY <1>1, <1>2, <1>3, <1>4, <1>5, <1>6, <1>7, <1>8, NoneIs DEF UnlinksOwn
<1>18. SameFiles(p) BY <1>1, <1>2, <1>3, <1>4, <1>5, <1>6, <1>7, <1>8 DEF SameFiles
<1>19. \A i \in Inums : InFile(i)' <=> InFile(i) BY <1>1, <1>9, <1>18, FilesStay
<1>20. ASSUME NEW k \in Inums PROVE ref'[k] + Mine(p, k) = ref[k] + Mine(p, k)'
  <2>1. ref'[k] = ref[k] /\ ref[k] \in Int
    BY <1>1, <1>2, <1>3, <1>4, <1>5, <1>6, <1>7 DEF Is, Typed, TableTyped
  <2>2. Mine(p, k) = Is(cwd[p], k) + Is(ip[p], k)
    BY <1>1, <1>2, <1>3, <1>4, <1>5, IsAre, PutsAre DEF Mine, CwdOf, IpOf
  <2>5. Put1(puts'[p]) = ip[p] /\ Put2(puts'[p]) = None BY <1>8, <1>3, <1>4, <1>5, PutsAre
  <2>6. pc'[p] = "end" /\ cwd'[p] = cwd[p] /\ cur'[p] = None /\ ip'[p] = None /\ dp'[p] = None
    BY <1>2, <1>3, <1>4, <1>5, <1>6, <1>7, <1>8
  <2>3. Mine(p, k)' = Is(cwd[p], k) + Is(ip[p], k)
    BY <2>6, <2>5, IsAre, PutsAre DEF Mine, CwdOf, IpOf
  <2>4. \A x : Is(x, k) \in Int BY IsAre
  <2> QED BY <2>1, <2>2, <2>3, <2>4
<1>21. Typed'
  <2>1. DiskTyped' BY <1>1, <1>6, <1>7, <1>12 DEF Typed, DiskTyped
  <2>2. TableTyped' BY <1>11, <1>12 DEF TableTyped
  <2>3. FilesTyped' BY <1>1, <1>6, <1>7 DEF Typed, FilesTyped
  <2> QED BY <1>10, <2>1, <2>2, <2>3 DEF Typed
<1>22. RefsOK' /\ FilesOK' BY <1>1, <1>21, <1>9, <1>18, <1>20, RefsStay, FilesStay
<1>24. Sound => Goes(p) /\ Changes(p) /\ Counted' /\ Tree(View') /\ NewAlone(p)'
  <2> SUFFICES ASSUME Sound PROVE Goes(p) /\ Changes(p) /\ Counted' /\ Tree(View') /\ NewAlone(p)'
    OBVIOUS
  <2>1. \A i \in Inums : Holds(p, i)' => Holds(p, i) \/ InFile(i) \/ View[i].nlink >= 1
    BY <1>2, <1>3, <1>4, <1>5, <1>6, <1>8, PutsAre, NoneIs DEF Holds
  <2>2. \A i \in Inums : Reached(p, i)' => Reached(p, i) \/ HasEntries(i)
    BY <1>2, <1>3, <1>4, <1>5, <1>6, <1>8 DEF Reached
  <2>3. \A i \in Inums : copy'[i] = copy[i] \/ copy'[i] = NotRead \/ Holds(p, i) \/ InFile(i)
    BY <1>2, <1>3, <1>4, <1>5, <1>12 DEF Holds
  <2>4. /\ dp'[p] # None => dp'[p] \in Inums /\ View[dp'[p]].type = "dir"
        /\ pc'[p] \in {"walk", "parent", "giveUp", "linkBad"} /\ ip'[p] # None =>
             ip'[p] \in Inums /\ View[ip'[p]].type # "dir"
    BY <1>2, <1>3, <1>4, <1>5, <1>6, <1>8, <1>1, InodeIs DEF Sound, Reaching, LinkedFile
  <2>5. Goes(p) BY <2>1, <2>2, <2>3, <2>4, <1>19 DEF Goes
  <2>6. Changes(p) /\ Counted' /\ Tree(View') /\ NewAlone(p)'
    <3>1. PICK i \in Inums : i = ip[p] BY <1>2
    <3>2. /\ View'[i].type = View[i].type
          /\ View'[i].ents = View[i].ents
        /\ Holds(p, i) /\ lock[i] \in {p, Nobody}
      BY <1>1, <1>2, <1>3, <1>4, <1>5, <1>6, <1>7, <1>12, <3>1, InodeIs DEF Holds
    <3>3. View'[i].nlink = View[i].nlink - 1 /\ View[i].nlink \in Int
      BY <1>1, <1>2, <1>3, <1>4, <1>5, <1>6, <1>7, <1>12, <3>1, InodeIs DEF IsInode
    <3>4. Pend(p, i) = 1 /\ Pend(p, i)' = 0 /\ pc'[p] # "new"
      BY <1>2, <1>8, <3>1, NoneIs DEF Pend, Pends
    <3>5. View'[i].nlink - Pend(p, i)' >= View[i].nlink - Pend(p, i) BY <3>3, <3>4
    <3>6. \A k \in Inums \ {i} : Pends(p, k)' => Pends(p, k)
      BY <1>2, <1>8, <3>1, NoneIs DEF Pends
    <3>7. \A k \in Inums \ {i} : View'[k] = View[k] BY <1>12, <3>1
    <3>8. Touches(p, i) BY <3>2, <3>5, <3>6, <3>7 DEF Touches
    <3> QED BY <1>1, <1>9, <1>21, <1>16, <3>4, <3>8, SameLinks
  <2> QED BY <2>5, <2>6
<1>25. BlocksOwned(View', disk.used)
  <2>1. \A k \in Inums : Range(View'[k].addrs) = Range(View[k].addrs)
    BY <1>1, <1>2, <1>3, <1>4, <1>5, <1>6, <1>7, <1>12, InodeIs
  <2>2. BlocksOwned(View, disk.used) BY DEF Good, Core
  <2> QED BY <2>1, <2>2, BlocksStay
<1> QED BY <1>6, <1>7, <1>9, <1>12, <1>13, <1>14, <1>15, <1>16, <1>17, <1>24, <1>21, <1>22,
  <1>25, ChangeGood

\* unlink() clears the entry.
LEMMA UnlinkEntryGone ==
  ASSUME Good, NEW p \in Procs, UnlinkEntry(p), pc'[p] = "unlinked"
  PROVE  Good'
<1>1. Typed /\ Shape(p) /\ Locks /\ Coherent /\ RefsOK /\ FilesOK /\ OwnLocks(p) /\ Shaped
        /\ UnlinkOK
  BY DEF Good, Core, Shaped, Locks, OwnLocks
<1>2. /\ pc[p] = "unlinking" /\ puts[p] = <<>> /\ put[p] = "no" /\ cur[p] = None
      /\ dp[p] \in Inums /\ ip[p] \in Inums /\ p \in active /\ cwd[p] \in Inums
  BY <1>1 DEF UnlinkEntry, At, Goto, Typed, ProcsTyped, Shape, WithCur, WithDp, WithIp, NoPuts,
    FilesTyped
<1>3. lock[dp[p]] = p /\ lock[ip[p]] = Nobody /\ ip[p] # dp[p] /\ Inode(ip[p]).type # "free"
  BY <1>1, <1>2, ProcsAssumption DEF UnlinkEntry, Ilock, OwnLocks, HoldsLock, LocksDp
<1>4. /\ Inode(dp[p]).type # "free" /\ IsInode(Inode(dp[p])) /\ IsInode(Inode(ip[p]))
      /\ View[dp[p]] = Inode(dp[p])
      /\ disk.used \in SUBSET Blocks
  BY <1>1, <1>2, <1>3, InodeIs, ProcsAssumption DEF Typed, DiskTyped, IsDisk, Locks, Coherent,
    Inode
<1>5. Name(p) \in DOMAIN Inode(dp[p]).ents \ Dots /\ Inode(dp[p]).ents[Name(p)] = ip[p]
        /\ Name(p) \in STRING
  BY <1>1, <1>2, <1>4, EntsAre DEF UnlinkOK
<1>6. PICK x : /\ x = Unlinked(Inode(dp[p]), Name(p)) /\ IsInode(x) /\ x.type # "free"
               /\ x.type = Inode(dp[p]).type
               /\ x.nlink = Inode(dp[p]).nlink /\ x.addrs = Inode(dp[p]).addrs
               /\ x.ents = Left(Inode(dp[p]).ents, Name(p))
  BY <1>4, UnlinkedIs
<1>7. (IF Inode(ip[p]).type = "dir" THEN x.nlink - 1 ELSE x.nlink) \in Int BY <1>6 DEF IsInode
<1>8. PICK y : /\ y = [x EXCEPT !.nlink = IF Inode(ip[p]).type = "dir" THEN x.nlink - 1 ELSE x.nlink]
               /\ IsInode(y) /\ y.type # "free" /\ y.type = x.type
               /\ y.nlink = (IF Inode(ip[p]).type = "dir" THEN x.nlink - 1 ELSE x.nlink)
               /\ y.addrs = x.addrs /\ y.ents = x.ents
  BY <1>6, <1>7, NlinkIs
<1>9. UNCHANGED <<durable, active, ref, ftable, ofile, cwd, call, cur, rest, ip, put, strayed>>
  BY <1>1 DEF UnlinkEntry, At, Goto, Iputs, table, files, walk, locals, D!End, Typed, ProcsTyped
<1>10. /\ lock' = [lock EXCEPT ![dp[p]] = Nobody, ![ip[p]] = p]
      /\ pc' = [pc EXCEPT ![p] = "unlinked"] /\ dp' = [dp EXCEPT ![p] = None]
      /\ puts' = [puts EXCEPT ![p] = <<dp[p]>>]
      /\ Updates(Two(dp[p], y, ip[p], Inode(ip[p])))
  BY <1>1, <1>6, <1>8 DEF UnlinkEntry, At, Goto, Iputs, DropDp, Iget, D!End, Typed, ProcsTyped
<1>11. /\ pc'[p] = "unlinked" /\ cur'[p] = cur[p] /\ ip'[p] = ip[p] /\ dp'[p] = None
      /\ puts'[p] = <<dp[p]>> /\ put'[p] = put[p] /\ rest'[p] = rest[p]
      /\ call'[p] = call[p] /\ cwd'[p] = cwd[p]
  BY <1>1, <1>9, <1>10 DEF Typed, ProcsTyped
<1>12. Others(p) BY <1>9, <1>10 DEF Others
<1>13. ProcsTyped' BY <1>1, <1>2, <1>9, <1>10 DEF Typed, ProcsTyped, Labels
<1>14. ref' \in [Inums -> Int] /\ lock' \in [Inums -> Procs \cup {Nobody}]
  BY <1>1, <1>2, <1>9, <1>10 DEF Typed, TableTyped
<1>15. /\ Writes(p, Two(dp[p], y, ip[p], Inode(ip[p])), disk.used)
       /\ DOMAIN Two(dp[p], y, ip[p], Inode(ip[p])) = {dp[p], ip[p]}
       /\ View'[dp[p]] = y
       /\ copy'[dp[p]] = y
       /\ View'[ip[p]] = Inode(ip[p])
       /\ copy'[ip[p]] = Inode(ip[p])
       /\ \A k \in Inums \ {dp[p], ip[p]} : View'[k] = View[k] /\ copy'[k] = copy[k]
       /\ IsDisk(disk')
       /\ copy' = [k \in Inums |-> copy'[k]]
       /\ \A k \in Inums : copy'[k] # NotRead => IsInode(copy'[k])
  <2>1. /\ dp[p] \in Inums /\ IsInode(y) /\ y.type # "free" /\ lock[dp[p]] \in {p, Nobody}
        /\ ip[p] \in Inums /\ IsInode(Inode(ip[p])) /\ Inode(ip[p]).type # "free"
        /\ lock[ip[p]] \in {p, Nobody} /\ ip[p] # dp[p] /\ disk.used \in SUBSET Blocks
        /\ UpdatesWith(Two(dp[p], y, ip[p], Inode(ip[p])), disk.used)
    BY <1>1, <1>2, <1>3, <1>4, <1>8, <1>10, UpdatesAre
  <2>2. Typed BY <1>1
  <2> QED BY <2>1, <2>2, WritesTwo, Zenon
<1>16. Shape(p)'
  BY <1>2, <1>3, <1>4, <1>5, <1>9, <1>11, NoneIs DEF Shape, WithCur, WithDp, WithIp, NoPuts
<1>17. \A i \in Inums : \/ lock'[i] = lock[i]
                        \/ lock'[i] = p /\ i \in {dp[p], ip[p]}
                        \/ lock'[i] = Nobody /\ lock[i] = p
  BY <1>1, <1>3, <1>10 DEF Typed, TableTyped
<1>18. OwnLocks(p)'
  BY <1>1, <1>2, <1>10, <1>11, ProcsAssumption DEF Typed, TableTyped, OwnLocks, HoldsLock,
    Freeing, LocksIp, LocksDp
<1>19. Idle(p) /\ Idle(p)' BY <1>2, <1>3, <1>11 DEF Idle, Freeing, Truncates
<1>20. UnlinksOwn(p)' BY DEF UnlinksOwn
<1>21. SameFiles(p) BY <1>9 DEF SameFiles
<1>22. \A i \in Inums : InFile(i)' <=> InFile(i) BY <1>1, <1>12, <1>21, FilesStay
<1>23. ASSUME NEW k \in Inums PROVE ref'[k] + Mine(p, k) = ref[k] + Mine(p, k)'
  <2>1. ref'[k] = ref[k] /\ ref[k] \in Int BY <1>1, <1>9 DEF Typed, TableTyped
  <2>2. Mine(p, k) = Is(cwd[p], k) + Is(ip[p], k) + Is(dp[p], k)
    BY <1>2, <1>3, <1>4, IsAre, PutsAre DEF Mine, CwdOf, IpOf
  <2>5. Put1(puts'[p]) = dp[p] /\ Put2(puts'[p]) = None BY <1>11, <1>3, PutsAre
  <2>6. pc'[p] = "unlinked" /\ cwd'[p] = cwd[p] /\ cur'[p] = None /\ ip'[p] = ip[p] /\ dp'[p] = None
    BY <1>2, <1>11
  <2>3. Mine(p, k)' = Is(cwd[p], k) + Is(ip[p], k) + Is(dp[p], k)
    BY <2>6, <2>5, IsAre DEF Mine, CwdOf, IpOf
  <2>4. \A z : Is(z, k) \in Int BY IsAre
  <2> QED BY <2>1, <2>2, <2>3
<1>24. Typed'
  <2>1. DiskTyped' BY <1>1, <1>9, <1>15 DEF Typed, DiskTyped
  <2>2. TableTyped' BY <1>14, <1>15 DEF TableTyped
  <2>3. FilesTyped' BY <1>1, <1>9 DEF Typed, FilesTyped
  <2> QED BY <1>13, <2>1, <2>2, <2>3 DEF Typed
<1>25. RefsOK' /\ FilesOK' BY <1>1, <1>24, <1>12, <1>21, <1>23, RefsStay, FilesStay
<1>27. Sound => Goes(p) /\ Changes(p) /\ Counted' /\ Tree(View') /\ NewAlone(p)'
  <2> SUFFICES ASSUME Sound PROVE Goes(p) /\ Changes(p) /\ Counted' /\ Tree(View') /\ NewAlone(p)'
    OBVIOUS
  <2>1. \A i \in Inums : Holds(p, i)' => Holds(p, i) \/ InFile(i) \/ View[i].nlink >= 1
    BY <1>2, <1>3, <1>11, PutsAre DEF Holds
  <2>2. \A i \in Inums : Reached(p, i)' => Reached(p, i) \/ HasEntries(i)
    BY <1>2, <1>11 DEF Reached
  <2>3. \A i \in Inums : copy'[i] = copy[i] \/ copy'[i] = NotRead \/ Holds(p, i) \/ InFile(i)
    BY <1>15 DEF Holds
  <2>4. /\ dp'[p] # None => dp'[p] \in Inums /\ View[dp'[p]].type = "dir"
        /\ pc'[p] \in {"walk", "parent", "giveUp", "linkBad"} /\ ip'[p] # None =>
             ip'[p] \in Inums /\ View[ip'[p]].type # "dir"
    BY <1>11
  <2>5. Goes(p) BY <2>1, <2>2, <2>3, <2>4, <1>22 DEF Goes
  <2>6. Changes(p) /\ Counted' /\ Tree(View') /\ NewAlone(p)'
    <3>1. PICK d \in Inums, i \in Inums, n \in STRING : d = dp[p] /\ i = ip[p] /\ n = Name(p)
      BY <1>2, <1>5
    <3>2. /\ View[d] = Inode(d) /\ View[i] = Inode(i) /\ View[d].type = "dir" /\ i # d
          /\ n \in DOMAIN View[d].ents \ Dots /\ View[d].ents[n] = i
      BY <1>1, <1>3, <1>5, <3>1, InodeIs, NoneIs DEF Sound, Reaching
    <3>3. /\ View'[d].type = View[d].type
          /\ View'[d].ents = Left(View[d].ents, n)
          /\ View'[d].nlink = IF View[i].type = "dir" THEN View[d].nlink - 1 ELSE View[d].nlink
          /\ \A k \in Inums \ {d} : View'[k] = View[k]
      <4>1. View'[d] = y /\ View'[i] = View[i] /\ \A k \in Inums \ {d, i} : View'[k] = View[k]
        BY <1>15, <3>1, <3>2
      <4>2. /\ y.type = View[d].type /\ y.ents = Left(View[d].ents, n)
            /\ y.nlink = IF View[i].type = "dir" THEN View[d].nlink - 1 ELSE View[d].nlink
        BY <1>6, <1>8, <3>1, <3>2
      <4> QED BY <4>1, <4>2
    <3>4. Inos(View) /\ Tree(View) BY <1>1, InodeIs DEF Sound
    <3>5. NameGone(View, View', d, n, i)
      <4>1. \A k \in Inums \ {d} : View'[k].type = View[k].type /\ View'[k].ents = View[k].ents
        BY <3>3
      <4>2. n \notin Dots /\ n \in DOMAIN View[d].ents /\ View[d].ents[n] = i BY <3>2
      <4> QED BY <3>3, <4>1, <4>2 DEF NameGone
    <3>6. /\ Tree(View') /\ <<d, n>> \in LinksTo(View, i) /\ NoMore(View, View')
          /\ OneLess(View, View', i, <<d, n>>)
          /\ View[i].type = "dir" => <<i, "..">> \in LinksTo(View, d)
               /\ <<i, "..">> \notin LinksTo(View', d)
      BY <3>2, <3>4, <3>5, Unnamed
    <3>7. pc'[p] = "unlinked" /\ \A k \in Inums : Pend(p, k) = 0 /\ Pend(p, k)' = IF k = i
            THEN 1 ELSE 0
      BY <1>2, <1>11, <3>1 DEF Pend, Pends
    <3>8. Mends(p, d)
      <4>1. Dots \subseteq DOMAIN View[d].ents BY <3>2, <3>4 DEF Tree, DirOK
      <4>2. DOMAIN View'[d].ents # {} BY <3>3, <4>1 DEF Left, Dots
      <4> QED BY <1>3, <3>1, <3>3, <4>2 DEF Mends, Holds
    <3>9. Changes(p) BY <1>19, <3>3, <3>8, ChangesAre
    <3>10. \/ View'[d].nlink = View[d].nlink
           \/ View'[d].nlink = View[d].nlink - 1 /\ <<i, "..">> \in LinksTo(View, d)
                /\ <<i, "..">> \notin LinksTo(View', d)
      BY <3>3, <3>6
    <3>11. ASSUME NEW k \in Inums
           PROVE  View'[k].nlink - Links(k)' - Pend(p, k)' >= View[k].nlink - Links(k) - Pend(p, k)
      BY <1>1, <1>24, <3>2, <3>3, <3>6, <3>7, LinksShrink
    <3>12. Counted' BY <1>1, <1>12, <1>24, <3>11, CountedKept DEF Sound, Pend
    <3> QED BY <3>6, <3>7, <3>9, <3>12 DEF NewAlone
  <2> QED BY <2>5, <2>6
<1>28. BlocksOwned(View', disk.used)
  <2>1. \A k \in Inums : Range(View'[k].addrs) = Range(View[k].addrs)
    <3>1. View[ip[p]] = Inode(ip[p]) /\ View[dp[p]] = Inode(dp[p]) BY <1>1, <1>2, InodeIs
    <3>2. y.addrs = View[dp[p]].addrs BY <1>6, <1>8, <3>1
    <3> QED BY <1>15, <3>1, <3>2
  <2>2. BlocksOwned(View, disk.used) BY DEF Good, Core
  <2> QED BY <2>1, <2>2, BlocksStay
<1>29. PICK new : /\ new = Two(dp[p], y, ip[p], Inode(ip[p]))
                  /\ Writes(p, new, disk.used)
                  /\ DOMAIN new = {dp[p], ip[p]}
  BY <1>15
<1>30. \A i \in Inums : \/ lock'[i] = lock[i]
                        \/ lock'[i] = p /\ i \in DOMAIN new
                        \/ lock'[i] = Nobody /\ lock[i] = p
  BY <1>17, <1>29
<1> QED BY <1>9, <1>12, <1>16, <1>18, <1>19, <1>20, <1>27, <1>24, <1>25, <1>28, <1>29, <1>30,
  ChangeGood

\* unlink() counts the inode down.
LEMMA UnlinkInodeGood ==
  ASSUME Good, NEW p \in Procs, UnlinkInode(p)
  PROVE  Good'
<1>1. Typed /\ Shape(p) /\ Locks /\ Coherent /\ RefsOK /\ FilesOK /\ OwnLocks(p) /\ Shaped
        /\ UnlinkOK
  BY DEF Good, Core, Shaped, Locks, OwnLocks
<1>2. /\ pc[p] = "unlinked" /\ puts[p] = <<>> /\ put[p] = "no" /\ cur[p] = None
      /\ dp[p] = None /\ ip[p] \in Inums /\ p \in active /\ cwd[p] \in Inums
  BY <1>1 DEF UnlinkInode, At, Goto, Iputs, DropDp, Iget, Reads, Ilock, table, files, walk,
    locals, bounds, D!Begin, D!End, Shape, WithCur, WithDp, WithIp, NoPuts, Typed, ProcsTyped,
    FilesTyped
<1>3. lock[ip[p]] = p BY <1>1, <1>2 DEF OwnLocks, HoldsLock, LocksIp
<1>4. copy[ip[p]] = Inode(ip[p]) /\ Inode(ip[p]).type # "free"
  BY <1>1, <1>2, <1>3, ProcsAssumption DEF Locks, Inode, Coherent
<1>5. IsInode(Inode(ip[p])) /\ Inode(ip[p]).nlink \in Int /\ Inode(ip[p]).nlink - 1 \in Int
        /\ disk.used \in SUBSET Blocks
  BY <1>1, <1>2, InodeIs DEF IsInode, Typed, DiskTyped, IsDisk
<1>6. PICK y : /\ y = [Inode(ip[p]) EXCEPT !.nlink = Inode(ip[p]).nlink - 1] /\ IsInode(y)
               /\ y.type # "free"
              /\ y.type = Inode(ip[p]).type /\ y.nlink = Inode(ip[p]).nlink - 1
              /\ y.addrs = Inode(ip[p]).addrs /\ y.ents = Inode(ip[p]).ents
  BY <1>4, <1>5, NlinkIs
<1>7. UNCHANGED <<durable, active, ref, ftable, ofile, cwd, call, cur, rest, dp, put, strayed>>
  BY DEF UnlinkInode, At, Goto, Iputs, DropDp, Iget, Reads, Ilock, table, files, walk, locals,
    bounds, D!Begin, D!End
<1>8. /\ lock' = [lock EXCEPT ![ip[p]] = Nobody] /\ pc' = [pc EXCEPT ![p] = "end"]
      /\ ip' = [ip EXCEPT ![p] = None] /\ puts' = [puts EXCEPT ![p] = <<ip[p]>>]
      /\ Updates(One(ip[p], y))
  BY <1>1, <1>2, <1>3, <1>4, <1>5, <1>6 DEF UnlinkInode, At, Goto, Iputs, DropDp, Iget, Reads,
    Ilock, table, files, walk, locals, bounds, D!Begin, D!End
<1>9. /\ pc'[p] = "end" /\ cur'[p] = cur[p] /\ ip'[p] = None /\ dp'[p] = dp[p]
      /\ puts'[p] = <<ip[p]>> /\ put'[p] = put[p] /\ rest'[p] = rest[p]
      /\ call'[p] = call[p] /\ cwd'[p] = cwd[p]
  BY <1>1, <1>7, <1>8 DEF Typed, ProcsTyped, FilesTyped
<1>10. Others(p) BY <1>1, <1>2, <1>7, <1>8 DEF Typed, ProcsTyped, FilesTyped, Others
<1>11. ProcsTyped'
  BY <1>1, <1>2, <1>3, <1>4, <1>5, <1>6, <1>7, <1>8, <1>9, SeqsAre DEF Typed, ProcsTyped, Labels
<1>12. ref' \in [Inums -> Int] /\ lock' \in [Inums -> Procs \cup {Nobody}]
  BY <1>1, <1>2, <1>3, <1>4, <1>5, <1>6, <1>7, <1>8 DEF Typed, TableTyped
<1>13. /\ Writes(p, One(ip[p], y), disk.used)
       /\ DOMAIN One(ip[p], y) = {ip[p]}
       /\ View'[ip[p]] = y
       /\ copy'[ip[p]] = y
       /\ \A k \in Inums \ {ip[p]} : View'[k] = View[k] /\ copy'[k] = copy[k]
       /\ IsDisk(disk')
       /\ copy' = [k \in Inums |-> copy'[k]]
       /\ \A k \in Inums : copy'[k] # NotRead => IsInode(copy'[k])
  <2>1. /\ ip[p] \in Inums /\ IsInode(y) /\ y.type # "free" /\ lock[ip[p]] \in {p, Nobody}
        /\ disk.used \in SUBSET Blocks /\ UpdatesWith(One(ip[p], y), disk.used)
    BY <1>1, <1>2, <1>3, <1>4, <1>5, <1>6, <1>7, <1>8, UpdatesAre
  <2>2. Typed BY <1>1
  <2> QED BY <2>1, <2>2, WritesOne, Zenon
<1>14. Shape(p)'
  BY <1>2, <1>3, <1>4, <1>5, <1>6, <1>7, <1>9, SeqsAre, NoneIs DEF Shape, WithCur, WithDp,
    WithIp, NoPuts, Creates
<1>15. \A i \in Inums : \/ lock'[i] = lock[i]
                        \/ lock'[i] = p /\ i \in {ip[p]}
                        \/ lock'[i] = Nobody /\ lock[i] = p
  BY <1>1, <1>2, <1>3, <1>4, <1>5, <1>6, <1>7, <1>8 DEF Typed, TableTyped, OwnLocks, HoldsLock,
    LocksIp, LocksDp
<1>16. OwnLocks(p)'
  BY <1>1, <1>2, <1>3, <1>4, <1>5, <1>6, <1>7, <1>8, <1>9, ProcsAssumption, SeqsAre DEF Typed,
    TableTyped, OwnLocks, HoldsLock, Freeing, LocksIp, LocksDp
<1>17. Idle(p) /\ Idle(p)'
  BY <1>1, <1>2, <1>3, <1>4, <1>5, <1>6, <1>7, <1>8, <1>9, SeqsAre DEF Idle, Freeing, Truncates
<1>18. UnlinksOwn(p)'
  BY <1>1, <1>2, <1>3, <1>4, <1>5, <1>6, <1>7, <1>8, <1>9, NoneIs DEF UnlinksOwn
<1>19. SameFiles(p) BY <1>1, <1>2, <1>3, <1>4, <1>5, <1>6, <1>7, <1>8, <1>9 DEF SameFiles
<1>20. \A i \in Inums : InFile(i)' <=> InFile(i) BY <1>1, <1>10, <1>19, FilesStay
<1>21. ASSUME NEW k \in Inums PROVE ref'[k] + Mine(p, k) = ref[k] + Mine(p, k)'
  <2>1. ref'[k] = ref[k] /\ ref[k] \in Int
    BY <1>1, <1>2, <1>3, <1>4, <1>5, <1>6, <1>7, <1>8 DEF Is, Typed, TableTyped
  <2>2. Mine(p, k) = Is(cwd[p], k) + Is(ip[p], k)
    BY <1>1, <1>2, <1>3, <1>4, <1>5, <1>6, IsAre, PutsAre DEF Mine, CwdOf, IpOf
  <2>5. Put1(puts'[p]) = ip[p] /\ Put2(puts'[p]) = None BY <1>9, <1>3, <1>4, <1>5, <1>6, PutsAre
  <2>6. pc'[p] = "end" /\ cwd'[p] = cwd[p] /\ cur'[p] = None /\ ip'[p] = None /\ dp'[p] = None
    BY <1>2, <1>3, <1>4, <1>5, <1>6, <1>7, <1>8, <1>9
  <2>3. Mine(p, k)' = Is(cwd[p], k) + Is(ip[p], k)
    BY <2>6, <2>5, IsAre, PutsAre DEF Mine, CwdOf, IpOf
  <2>4. \A x : Is(x, k) \in Int BY IsAre
  <2> QED BY <2>1, <2>2, <2>3, <2>4
<1>22. Typed'
  <2>1. DiskTyped' BY <1>1, <1>7, <1>8, <1>13 DEF Typed, DiskTyped
  <2>2. TableTyped' BY <1>12, <1>13 DEF TableTyped
  <2>3. FilesTyped' BY <1>1, <1>7, <1>8 DEF Typed, FilesTyped
  <2> QED BY <1>11, <2>1, <2>2, <2>3 DEF Typed
<1>23. RefsOK' /\ FilesOK' BY <1>1, <1>22, <1>10, <1>19, <1>21, RefsStay, FilesStay
<1>25. Sound => Goes(p) /\ Changes(p) /\ Counted' /\ Tree(View') /\ NewAlone(p)'
  <2> SUFFICES ASSUME Sound PROVE Goes(p) /\ Changes(p) /\ Counted' /\ Tree(View') /\ NewAlone(p)'
    OBVIOUS
  <2>1. \A i \in Inums : Holds(p, i)' => Holds(p, i) \/ InFile(i) \/ View[i].nlink >= 1
    BY <1>2, <1>3, <1>4, <1>5, <1>6, <1>7, <1>9, PutsAre, NoneIs DEF Holds
  <2>2. \A i \in Inums : Reached(p, i)' => Reached(p, i) \/ HasEntries(i)
    BY <1>2, <1>3, <1>4, <1>5, <1>6, <1>7, <1>9 DEF Reached
  <2>3. \A i \in Inums : copy'[i] = copy[i] \/ copy'[i] = NotRead \/ Holds(p, i) \/ InFile(i)
    BY <1>2, <1>3, <1>4, <1>5, <1>6, <1>13 DEF Holds
  <2>4. /\ dp'[p] # None => dp'[p] \in Inums /\ View[dp'[p]].type = "dir"
        /\ pc'[p] \in {"walk", "parent", "giveUp", "linkBad"} /\ ip'[p] # None =>
             ip'[p] \in Inums /\ View[ip'[p]].type # "dir"
    BY <1>2, <1>3, <1>4, <1>5, <1>6, <1>7, <1>9, <1>1, InodeIs DEF Sound, Reaching, LinkedFile
  <2>5. Goes(p) BY <2>1, <2>2, <2>3, <2>4, <1>20 DEF Goes
  <2>6. Changes(p) /\ Counted' /\ Tree(View') /\ NewAlone(p)'
    <3>1. PICK i \in Inums : i = ip[p] BY <1>2
    <3>2. /\ View'[i].type = View[i].type
          /\ View'[i].ents = View[i].ents
        /\ Holds(p, i) /\ lock[i] \in {p, Nobody}
      BY <1>1, <1>2, <1>3, <1>4, <1>5, <1>6, <1>7, <1>8, <1>13, <3>1, InodeIs DEF Holds
    <3>3. View'[i].nlink = View[i].nlink - 1 /\ View[i].nlink \in Int
      BY <1>1, <1>2, <1>3, <1>4, <1>5, <1>6, <1>7, <1>8, <1>13, <3>1, InodeIs DEF IsInode
    <3>4. Pend(p, i) = 1 /\ Pend(p, i)' = 0 /\ pc'[p] # "new"
      BY <1>2, <1>9, <3>1, NoneIs DEF Pend, Pends
    <3>5. View'[i].nlink - Pend(p, i)' >= View[i].nlink - Pend(p, i) BY <3>3, <3>4
    <3>6. \A k \in Inums \ {i} : Pends(p, k)' => Pends(p, k)
      BY <1>2, <1>9, <3>1, NoneIs DEF Pends
    <3>7. \A k \in Inums \ {i} : View'[k] = View[k] BY <1>13, <3>1
    <3>8. Touches(p, i) BY <3>2, <3>5, <3>6, <3>7 DEF Touches
    <3> QED BY <1>1, <1>10, <1>22, <1>17, <3>4, <3>8, SameLinks
  <2> QED BY <2>5, <2>6
<1>26. BlocksOwned(View', disk.used)
  <2>1. \A k \in Inums : Range(View'[k].addrs) = Range(View[k].addrs)
    BY <1>1, <1>2, <1>3, <1>4, <1>5, <1>6, <1>7, <1>8, <1>13, InodeIs
  <2>2. BlocksOwned(View, disk.used) BY DEF Good, Core
  <2> QED BY <2>1, <2>2, BlocksStay
<1> QED BY <1>7, <1>8, <1>10, <1>13, <1>14, <1>15, <1>16, <1>17, <1>18, <1>25, <1>22, <1>23,
  <1>26, ChangeGood

-----
\* write(), and the iput() that frees an inode.
\* writei() writes a chunk.
LEMMA ChunkWritten ==
  ASSUME Good, NEW p \in Procs, WriteChunk(p), NEW y, NEW used, NEW n, NEW o, ChunkWrites(p, y,
    used, n, o)
  PROVE  Good'
<1>1. Typed /\ Shape(p) /\ Locks /\ Coherent /\ RefsOK /\ FilesOK /\ OwnLocks(p) /\ Shaped
        /\ UnlinkOK
  BY Zenon DEF Good, Core, Shaped, Locks, OwnLocks
<1>2. /\ pc[p] = "chunk" /\ puts[p] = <<>> /\ put[p] = "no" /\ cur[p] = None /\ dp[p] = None
      /\ ip[p] = None /\ p \in active /\ cwd[p] \in Inums /\ call[p].op = "write"
  BY <1>1, Zenon DEF WriteChunk, ChunkWrites, At, Goto, Iputs, DropDp, Iget, Reads, Ilock,
    table, files, walk, locals, bounds, D!Begin, D!End, Typed, ProcsTyped, Shape, WithCur,
    WithDp, WithIp, NoPuts, Typed, ProcsTyped, FilesTyped
<1>3. IsCall(call[p]) /\ \E d \in Fds : ofile[p][d] = call[p].f
  BY <1>1, <1>2 DEF Typed, ProcsTyped, FilesOK
<1>4. call[p] = [op |-> "write", f |-> call[p].f, left |-> call[p].left] /\ call[p].f \in Files
  BY <1>2, <1>3 DEF IsCall
<1>5. ftable[call[p].f].ip \in Inums /\ InFile(ftable[call[p].f].ip)
  BY <1>1, <1>3, <1>4, FilesAre, DescriptorIs
<1>6. LET c == [call[p] EXCEPT !.left = n] IN IsCall(c) /\ c.op = "write" /\ c.f = call[p].f
  BY <1>4 DEF ChunkWrites, IsCall, WithPath
<1>7. /\ IsInode(y) /\ y.type # "free" /\ y.type = Inode(ftable[call[p].f].ip).type
      /\ y.nlink = Inode(ftable[call[p].f].ip).nlink
      /\ y.ents = Inode(ftable[call[p].f].ip).ents /\ used \in SUBSET Blocks
      /\ o \in Nat /\ Takes(Inode(ftable[call[p].f].ip).addrs, disk.used, y.addrs, used)
  BY Zenon DEF ChunkWrites
<1>8. UNCHANGED <<durable, active, ref, lock, ofile, cwd, cur, rest, ip, dp, puts, put, strayed>>
  BY <1>1, <1>2, Zenon DEF WriteChunk, ChunkWrites, At, Goto, Iputs, DropDp, Iget, Reads, Ilock,
    table, files, walk, locals, bounds, D!Begin, D!End, Typed, ProcsTyped
<1>9. /\ lock[ftable[call[p].f].ip] = Nobody
      /\ ftable' = [ftable EXCEPT ![call[p].f].off = o] /\ pc' = [pc EXCEPT ![p] = "end"]
      /\ call' = [call EXCEPT ![p] = [call[p] EXCEPT !.left = n]]
      /\ UpdatesWith(One(ftable[call[p].f].ip, y), used)
  BY <1>1, <1>2, <1>3, <1>4, <1>5, <1>6, <1>7, Zenon DEF WriteChunk, ChunkWrites, At, Goto,
    Iputs, DropDp, Iget, Reads, Ilock, table, files, walk, locals, bounds, D!Begin, D!End,
    Typed, ProcsTyped
<1>10. /\ pc'[p] = "end" /\ cur'[p] = cur[p] /\ ip'[p] = ip[p] /\ dp'[p] = dp[p]
      /\ puts'[p] = puts[p] /\ put'[p] = put[p] /\ rest'[p] = rest[p]
      /\ call'[p] = [call[p] EXCEPT !.left = n] /\ cwd'[p] = cwd[p]
      /\ lock[ftable[call[p].f].ip] = Nobody
  BY <1>1, <1>8, <1>9 DEF Typed, ProcsTyped, FilesTyped
<1>11. Others(p) BY <1>1, <1>2, <1>8, <1>9 DEF Typed, ProcsTyped, FilesTyped, Others
<1>12. ProcsTyped'
  BY <1>1, <1>2, <1>3, <1>4, <1>5, <1>6, <1>7, <1>8, <1>9, <1>10, SeqsAre DEF Typed, ProcsTyped,
    Labels
<1>13. ref' \in [Inums -> Int] /\ lock' \in [Inums -> Procs \cup {Nobody}]
  BY <1>1, <1>2, <1>3, <1>4, <1>5, <1>6, <1>7, <1>8, <1>9 DEF Typed, TableTyped
<1>14. /\ Writes(p, One(ftable[call[p].f].ip, y), used)
       /\ DOMAIN One(ftable[call[p].f].ip, y) = {ftable[call[p].f].ip}
       /\ View'[ftable[call[p].f].ip] = y
       /\ copy'[ftable[call[p].f].ip] = y
       /\ \A k \in Inums \ {ftable[call[p].f].ip} : View'[k] = View[k] /\ copy'[k] = copy[k]
       /\ IsDisk(disk')
       /\ copy' = [k \in Inums |-> copy'[k]]
       /\ \A k \in Inums : copy'[k] # NotRead => IsInode(copy'[k])
  <2>1. /\ ftable[call[p].f].ip \in Inums /\ IsInode(y) /\ y.type # "free"
        /\ lock[ftable[call[p].f].ip] \in {p, Nobody} /\ used \in SUBSET Blocks
        /\ UpdatesWith(One(ftable[call[p].f].ip, y), used)
    BY <1>1, <1>2, <1>3, <1>4, <1>5, <1>6, <1>7, <1>8, <1>9, UpdatesAre
  <2>2. Typed BY <1>1
  <2> QED BY <2>1, <2>2, WritesOne, Zenon
<1>15. Shape(p)'
  BY <1>2, <1>3, <1>4, <1>5, <1>6, <1>7, <1>8, <1>10, SeqsAre, NoneIs DEF Shape, WithCur,
    WithDp, WithIp, NoPuts, Creates
<1>16. \A i \in Inums : \/ lock'[i] = lock[i]
                        \/ lock'[i] = p /\ i \in {ftable[call[p].f].ip}
                        \/ lock'[i] = Nobody /\ lock[i] = p
  BY <1>1, <1>2, <1>3, <1>4, <1>5, <1>6, <1>7, <1>8, <1>9, Zenon DEF Typed, TableTyped,
    OwnLocks, HoldsLock, LocksIp, LocksDp
<1>17. OwnLocks(p)'
  BY <1>1, <1>2, <1>3, <1>4, <1>5, <1>6, <1>7, <1>8, <1>9, <1>10, ProcsAssumption, SeqsAre DEF
    Typed, TableTyped, OwnLocks, HoldsLock, Freeing, LocksIp, LocksDp
<1>18. Idle(p) /\ Idle(p)'
  BY <1>1, <1>2, <1>3, <1>4, <1>5, <1>6, <1>7, <1>8, <1>9, <1>10, SeqsAre DEF Idle, Freeing,
    Truncates
<1>19. UnlinksOwn(p)'
  BY <1>1, <1>2, <1>3, <1>4, <1>5, <1>6, <1>7, <1>8, <1>9, <1>10, NoneIs DEF UnlinksOwn
<1>20. SameFiles(p)
  <2>1. \A g \in Files : ftable[g] \in FileIs BY <1>1 DEF Typed, FilesTyped
  <2>2. \A g \in Files : ftable'[g].ref = ftable[g].ref /\ ftable'[g].ip = ftable[g].ip
    BY <1>1, <1>9, <2>1 DEF Typed, FilesTyped, FileIs
  <2>3. call'[p].f = call[p].f BY <1>10, <1>6
  <2> QED BY <1>2, <1>8, <1>10, <2>2, <2>3 DEF SameFiles
<1>21. \A i \in Inums : InFile(i)' <=> InFile(i) BY <1>1, <1>11, <1>20, FilesStay
<1>22. ASSUME NEW k \in Inums PROVE ref'[k] + Mine(p, k) = ref[k] + Mine(p, k)'
  <2>1. ref'[k] = ref[k] /\ ref[k] \in Int
    BY <1>1, <1>2, <1>3, <1>4, <1>5, <1>6, <1>7, <1>8, <1>9 DEF Is, Typed, TableTyped
  <2>2. Mine(p, k) = Is(cwd[p], k)
    BY <1>1, <1>2, <1>3, <1>4, <1>5, <1>6, <1>7, IsAre, PutsAre DEF Mine, CwdOf, IpOf
  <2>6. pc'[p] = "end" /\ cwd'[p] = cwd[p] /\ cur'[p] = None /\ ip'[p] = None /\ dp'[p] = None
          /\ puts'[p] = <<>>
    BY <1>2, <1>8, <1>10
  <2>3. Mine(p, k)' = Is(cwd[p], k) BY <2>6, IsAre, PutsAre DEF Mine, CwdOf, IpOf
  <2>4. \A x : Is(x, k) \in Int BY IsAre
  <2> QED BY <2>1, <2>2, <2>3, <2>4
<1>23. FilesTyped'
  <2>1. PICK f \in Files : f = call[p].f BY <1>4
  <2>2. ftable[f] \in FileIs BY <1>1 DEF Typed, FilesTyped
  <2>3. [ftable[f] EXCEPT !.off = o] \in FileIs BY <1>7, <2>2 DEF FileIs
  <2>4. ftable' \in [Files -> FileIs] BY <1>1, <2>1, <2>3, <1>9 DEF Typed, FilesTyped
  <2> QED BY <1>1, <2>4, <1>8 DEF Typed, FilesTyped
<1>24. Typed'
  <2>1. DiskTyped' BY <1>1, <1>8, <1>9, <1>14 DEF Typed, DiskTyped
  <2>2. TableTyped' BY <1>13, <1>14 DEF TableTyped
  <2>3. FilesTyped' BY <1>1, <1>8, <1>9, <1>23 DEF Typed, FilesTyped
  <2> QED BY <1>12, <2>1, <2>2, <2>3 DEF Typed
<1>25. RefsOK' /\ FilesOK' BY <1>1, <1>24, <1>11, <1>20, <1>22, RefsStay, FilesStay
<1>27. Sound => Goes(p) /\ Changes(p) /\ Counted' /\ Tree(View') /\ NewAlone(p)'
  <2> SUFFICES ASSUME Sound PROVE Goes(p) /\ Changes(p) /\ Counted' /\ Tree(View') /\ NewAlone(p)'
    OBVIOUS
  <2>1. \A i \in Inums : Holds(p, i)' => Holds(p, i) \/ InFile(i) \/ View[i].nlink >= 1
    BY <1>2, <1>3, <1>4, <1>5, <1>6, <1>7, <1>8, <1>10, PutsAre, NoneIs DEF Holds
  <2>2. \A i \in Inums : Reached(p, i)' => Reached(p, i) \/ HasEntries(i)
    BY <1>2, <1>3, <1>4, <1>5, <1>6, <1>7, <1>8, <1>10 DEF Reached
  <2>3. \A i \in Inums : copy'[i] = copy[i] \/ copy'[i] = NotRead \/ Holds(p, i) \/ InFile(i)
    BY <1>2, <1>3, <1>4, <1>5, <1>6, <1>7, <1>14 DEF Holds
  <2>4. /\ dp'[p] # None => dp'[p] \in Inums /\ View[dp'[p]].type = "dir"
        /\ pc'[p] \in {"walk", "parent", "giveUp", "linkBad"} /\ ip'[p] # None =>
             ip'[p] \in Inums /\ View[ip'[p]].type # "dir"
    BY <1>2, <1>3, <1>4, <1>5, <1>6, <1>7, <1>8, <1>10, <1>1, InodeIs DEF Sound, Reaching,
      LinkedFile
  <2>5. Goes(p) BY <2>1, <2>2, <2>3, <2>4, <1>21 DEF Goes
  <2>6. Changes(p) /\ Counted' /\ Tree(View') /\ NewAlone(p)'
    <3>1. PICK i \in Inums : i = ftable[call[p].f].ip
      BY <1>1, <1>2, <1>3, <1>4, <1>5, <1>6, <1>7, <1>8, <1>9, Zenon
    <3>2. /\ View'[i].type = View[i].type
          /\ View'[i].ents = View[i].ents
        /\ InFile(i)
        /\ lock[i] \in {p, Nobody}
        /\ View'[i].nlink = View[i].nlink
      BY <1>1, <1>2, <1>3, <1>4, <1>5, <1>6, <1>7, <1>8, <1>9, <1>14, <3>1, InodeIs, Zenon
    <3>3. \A k : Pend(p, k) = 0 /\ Pend(p, k)' = 0 /\ ~ Pends(p, k)'
      BY <1>2, <1>10, <3>1, NoneIs DEF Pend, Pends
    <3>4. View[i].nlink \in Int BY InodeIs, <1>1 DEF IsInode
    <3>5. View'[i].nlink - Pend(p, i)' >= View[i].nlink - Pend(p, i) BY <3>2, <3>3, <3>4
    <3>6. \A k \in Inums \ {i} : View'[k] = View[k] BY <1>14, <3>1
    <3>7. Touches(p, i) /\ pc'[p] # "new" BY <3>2, <3>3, <3>5, <3>6, <1>10 DEF Touches
    <3> QED BY <1>1, <1>11, <1>24, <1>18, <3>7, SameLinks
  <2> QED BY <2>5, <2>6
<1>28. BlocksOwned(View', used)
  <2>1. PICK i \in Inums : i = ftable[call[p].f].ip
    BY <1>1, <1>2, <1>3, <1>4, <1>5, <1>6, <1>7, <1>8, <1>9, Zenon
  <2>2. View[i].addrs = Inode(i).addrs /\ View'[i].addrs = y.addrs
          /\ \A k \in Inums \ {i} : View'[k].addrs = View[k].addrs
    BY <1>1, <1>2, <1>3, <1>4, <1>5, <1>6, <1>7, <1>8, <1>9, <1>14, <2>1, InodeIs
  <2>3. BlocksOwned(View, disk.used) BY DEF Good, Core
  <2>4. Takes(View[i].addrs, disk.used, View'[i].addrs, used) BY <1>7, <2>1, <2>2
  <2> QED BY <2>2, <2>3, <2>4, TakesOneOwned
<1> QED BY <1>8, <1>9, <1>11, <1>14, <1>15, <1>16, <1>17, <1>18, <1>19, <1>27, <1>24, <1>25,
  <1>28, ChangeGood

\* writei() writes a chunk.
LEMMA WriteChunkGood ==
  ASSUME Good, NEW p \in Procs, WriteChunk(p)
  PROVE  Good'
<1> DEFINE i == ftable[call[p].f].ip
           x == Inode(i)
           off == ftable[call[p].f].off
           m == IF off < DataBlocks(x.addrs) THEN [addrs |-> x.addrs, used |-> disk.used]
                                             ELSE Bmap(x.addrs, disk.used)
           n == call[p].left - 1
           s == IF off >= x.size THEN off + 1 ELSE x.size
<1>1. Typed /\ Shape(p) /\ FilesOK /\ pc[p] = "chunk" /\ Ilock(i)
  BY Zenon DEF Good, Core, Shaped, WriteChunk, At
<1>2. call[p].op = "write" /\ IsCall(call[p]) /\ \E d \in Fds : ofile[p][d] = call[p].f
  BY <1>1 DEF Typed, ProcsTyped, FilesOK, Shape
<1>3. call[p] = [op |-> "write", f |-> call[p].f, left |-> call[p].left] /\ call[p].f \in Files
      /\ call[p].left \in Int
  BY <1>2 DEF IsCall
<1>4. i \in Inums /\ ftable[call[p].f] \in FileIs
  BY <1>1, <1>2, <1>3, FilesAre, DescriptorIs, Zenon DEF Typed, FilesTyped
<1>5. off \in Nat /\ IsInode(x) /\ x.type # "free" /\ x.size \in Nat /\ x.addrs \in Seq(Blocks)
      /\ disk.used \in SUBSET Blocks
  BY <1>1, <1>4, InodeIs, Zenon DEF FileIs, Ilock, IsInode, Typed, DiskTyped, IsDisk
<1>6. PICK a, used : /\ m = [addrs |-> a, used |-> used] /\ a \in Seq(Blocks)
                     /\ used \in SUBSET Blocks /\ Takes(x.addrs, disk.used, a, used)
  <2> HIDE DEF x, off
  <2>1. CASE off < DataBlocks(x.addrs) BY <1>5, <2>1, TakesAre
  <2>2. CASE ~ (off < DataBlocks(x.addrs)) BY <1>5, <2>2, BmapIs DEF IsMore
  <2> QED BY <2>1, <2>2
<1>7. \/ /\ UpdatesWith(One(i, [x EXCEPT !.addrs = m.addrs, !.size = s]), m.used)
         /\ ftable' = [ftable EXCEPT ![call[p].f].off = off + 1]
         /\ call' = [call EXCEPT ![p].left = @ - 1]
      \/ /\ UpdatesWith(One(i, [x EXCEPT !.addrs = m.addrs]), m.used)
         /\ call' = [call EXCEPT ![p].left = 0] /\ UNCHANGED ftable
      \/ Reads(i) /\ call' = [call EXCEPT ![p].left = 0] /\ UNCHANGED <<disk, ftable>>
  BY Zenon DEF WriteChunk
<1>8. call = [q \in Procs |-> call[q]] /\ ftable \in [Files -> FileIs]
  BY <1>1 DEF Typed, ProcsTyped, FilesTyped
<1>12. m.addrs = a /\ m.used = used BY <1>6
<1> HIDE DEF i, x, off, m
<1>9. CASE /\ UpdatesWith(One(i, [x EXCEPT !.addrs = m.addrs, !.size = s]), m.used)
           /\ ftable' = [ftable EXCEPT ![call[p].f].off = off + 1]
           /\ call' = [call EXCEPT ![p].left = @ - 1]
  <2>2. s \in Nat BY <1>5
  <2>3. PICK y : /\ y = [x EXCEPT !.addrs = a, !.size = s]
                 /\ IsInode(y)
                 /\ y.type # "free"
                 /\ y.type = x.type
                 /\ y.nlink = x.nlink
                 /\ y.addrs = a
                 /\ y.ents = x.ents
    <3>1. IsInode(x) /\ x.type # "free" /\ s \in Nat /\ a \in Seq(Blocks) BY <1>5, <1>6, <2>2
    <3> HIDE DEF n, s
    <3> QED BY <3>1, WroteIs, Zenon
  <2>4. UpdatesWith(One(i, y), used) BY <1>9, <1>12, <2>3
  <2>5. call' = [call EXCEPT ![p] = [call[p] EXCEPT !.left = n]] /\ n \in Int
    BY <1>3, <1>8, <1>9
  <2>6. ftable' = [ftable EXCEPT ![call[p].f].off = off + 1] /\ off + 1 \in Nat
    BY <1>5, <1>8, <1>9 DEF off
  <2>7. ChunkWrites(p, y, used, n, off + 1)
    <3> HIDE DEF n
    <3> QED BY <1>6, <2>3, <2>4, <2>5, <2>6, Zenon DEF ChunkWrites, i, x
  <2> QED BY <2>7, ChunkWritten, Zenon
<1>10. CASE /\ UpdatesWith(One(i, [x EXCEPT !.addrs = m.addrs]), m.used)
            /\ call' = [call EXCEPT ![p].left = 0] /\ UNCHANGED ftable
  <2>1. [x EXCEPT !.addrs = a] = [x EXCEPT !.addrs = a, !.size = x.size] BY <1>5, MappedIs
  <2>3. PICK y : /\ y = [x EXCEPT !.addrs = a, !.size = x.size]
                 /\ IsInode(y)
                 /\ y.type # "free"
                 /\ y.type = x.type
                 /\ y.nlink = x.nlink
                 /\ y.addrs = a
                 /\ y.ents = x.ents
    <3>1. IsInode(x) /\ x.type # "free" /\ x.size \in Nat /\ a \in Seq(Blocks) BY <1>5, <1>6
    <3> HIDE DEF n, s
    <3> QED BY <3>1, WroteIs, Zenon
  <2>4. UpdatesWith(One(i, y), used) BY <1>10, <1>12, <2>1, <2>3
  <2>5. call' = [call EXCEPT ![p] = [call[p] EXCEPT !.left = 0]] BY <1>3, <1>8, <1>10
  <2>8. 0 \in Int OBVIOUS
  <2>6. ftable' = [ftable EXCEPT ![call[p].f].off = off]
    BY <1>3, <1>4, <1>8, <1>10 DEF off, FileIs
  <2>7. ChunkWrites(p, y, used, 0, off)
    <3> HIDE DEF n
    <3> QED BY <1>5, <1>6, <2>3, <2>4, <2>5, <2>6, <2>8, Zenon DEF ChunkWrites, i, x
  <2> QED BY <2>7, ChunkWritten, Zenon
<1>11. CASE Reads(i) /\ call' = [call EXCEPT ![p].left = 0] /\ UNCHANGED <<disk, ftable>>
  BY <1>11, WriteChunkQuiet DEF i
<1> QED BY <1>7, <1>9, <1>10, <1>11, Zenon

\* iput() drops the last reference to an inode without links and truncates it.
LEMMA IputLastGood ==
  ASSUME Good, NEW p \in Procs, IputLast(p)
  PROVE  Good'
<1>1. Typed /\ Shape(p) /\ Locks /\ Coherent /\ RefsOK /\ FilesOK /\ OwnLocks(p) /\ Shaped
        /\ UnlinkOK
  BY DEF Good, Core, Shaped, Locks, OwnLocks
<1>2. /\ puts[p] # <<>> /\ puts[p] \in Seq(Inums) /\ Len(puts[p]) <= 2
      /\ put[p] = "no" /\ pc[p] \notin NoPuts
  BY <1>1 DEF IputLast, Putting, Shape, Typed, ProcsTyped
<1>3. Put1(puts[p]) = Head(puts[p]) /\ Head(puts[p]) \in Inums BY <1>2, PutsAre
<1>4. PICK i \in Inums : i = Head(puts[p]) BY <1>3
<1>5. /\ lock[i] = Nobody /\ ref[i] = 1 /\ copy[i] # NotRead /\ copy[i].nlink = 0
      /\ disk.used \in SUBSET Blocks /\ IsInode(disk.ino[i])
  BY <1>1, <1>4 DEF IputLast, LastRef, Typed, DiskTyped, IsDisk
<1>6. View[i] = copy[i] /\ IsInode(copy[i]) /\ copy[i].type # "free"
        /\ copy[i].type = disk.ino[i].type
  BY <1>1, <1>5, InodeIs DEF Coherent, Inode
<1>7. UNCHANGED <<durable, active, ref, ftable, ofile, cwd, pc, call, cur, rest, ip, dp, puts,
        strayed>>
  BY DEF IputLast, files, locals, walk
<1>8. /\ put' = [put EXCEPT ![p] = "freeing"] /\ lock' = [lock EXCEPT ![i] = p]
      /\ disk' = [disk EXCEPT !.used = disk.used \ Range(copy[i].addrs)]
      /\ copy' = [copy EXCEPT ![i] = Truncated(copy[i])]
  BY <1>1, <1>4 DEF IputLast
<1>9. PICK y : /\ y = Truncated(copy[i]) /\ IsInode(y) /\ y.type = copy[i].type /\ y.nlink = 0
               /\ y.addrs = <<>> /\ y.ents = NoEntry
  BY <1>5, <1>6, TruncatedIs
<1>27. PICK u \in SUBSET Blocks : u = disk.used \ Range(View[i].addrs) BY <1>5
<1>10. SetsOne(i, disk.ino[i], y, u)
  <2>1. disk' = [ino |-> [k \in Inums |-> IF k = i THEN disk.ino[i] ELSE disk.ino[k]], used |-> u]
    BY <1>1, <1>6, <1>8, <1>27 DEF Typed, DiskTyped, IsDisk
  <2>2. copy' = [k \in Inums |-> IF k = i THEN y ELSE copy[k]]
    BY <1>1, <1>8, <1>9 DEF Typed, TableTyped
  <2> QED BY <2>1, <2>2 DEF SetsOne
<1>11. /\ IsDisk(disk') /\ copy' = [k \in Inums |-> copy'[k]] /\ disk'.used = u
       /\ \A k \in Inums : copy'[k] # NotRead => IsInode(copy'[k])
       /\ disk'.ino[i] = disk.ino[i] /\ copy'[i] = y /\ View'[i] = y
       /\ \A k \in Inums \ {i} : disk'.ino[k] = disk.ino[k] /\ copy'[k] = copy[k]
            /\ View'[k] = View[k]
  <2>1. PICK x : x = disk.ino[i] OBVIOUS
  <2>2. IsInode(x) /\ SetsOne(i, x, y, u) /\ IsInode(y) /\ y # NotRead
    BY <1>5, <1>9, <1>10, <2>1, NotReadIs
  <2>3. Typed BY <1>1
  <2>4. /\ IsDisk(disk') /\ copy' = [k \in Inums |-> copy'[k]] /\ disk'.used = u
        /\ \A k \in Inums : copy'[k] # NotRead => IsInode(copy'[k])
        /\ disk'.ino[i] = x /\ copy'[i] = y /\ View'[i] = IF y = NotRead THEN x ELSE y
        /\ \A k \in Inums \ {i} : disk'.ino[k] = disk.ino[k] /\ copy'[k] = copy[k]
             /\ View'[k] = View[k]
    BY <2>2, <2>3, SetsOneIs
  <2> QED BY <2>1, <2>2, <2>4
<1>28. ~ InFile(i) /\ ~ Held(i)' /\ ~ (pc[p] \in LocksIp /\ ip[p] = i)
         /\ ~ (pc[p] \in LocksDp /\ dp[p] = i)
  <2>1. /\ ~ InFile(i) /\ \A q \in Procs \ {p} : ~ Has(q, i)
        /\ ~ (cwd[p] = i /\ pc[p] # "chdir") /\ cur[p] # i /\ dp[p] # i
        /\ ~ (ip[p] = i /\ pc[p] # "truncating") /\ Put2(puts[p]) # i
    BY <1>1, <1>3, <1>4, <1>5, OnlyRef
  <2>2. \A q \in Procs : pc[q] = "truncating" => ip[q] # i
    <3>1. SUFFICES ASSUME NEW q \in Procs, pc[q] = "truncating", ip[q] = i PROVE FALSE OBVIOUS
    <3>2. PICK d \in Fds : ofile[q][d] # None /\ ftable[ofile[q][d]].ip = ip[q]
      BY <1>1, <3>1 DEF FilesOK
    <3>3. InFile(i) BY <1>1, <3>1, <3>2, DescriptorIs
    <3> QED BY <2>1, <3>3
  <2>3. \A q \in Procs \ {p} : ~ Holds(q, i) BY <2>1, <2>2 DEF Has, Holds
  <2>4. ~ Holds(p, i)' /\ Others(p) /\ ~ InFile(i)'
    <3>1. /\ pc'[p] = pc[p] /\ cur'[p] = cur[p] /\ ip'[p] = ip[p] /\ dp'[p] = dp[p]
          /\ puts'[p] = puts[p] /\ put'[p] = "freeing" /\ cwd'[p] = cwd[p]
      BY <1>1, <1>7, <1>8 DEF Typed, ProcsTyped
    <3>2. Others(p) BY <1>1, <1>7, <1>8 DEF Typed, ProcsTyped, Others
    <3>3. ~ InFile(i)' BY <1>7, <2>1 DEF InFile
    <3> QED BY <2>1, <2>2, <3>1, <3>2, <3>3 DEF Holds
  <2>5. ~ Held(i)' BY <2>3, <2>4, OthersHold DEF Held
  <2> QED BY <2>1, <2>2, <2>5 DEF LocksDp
<1>12. /\ pc'[p] = pc[p] /\ cur'[p] = cur[p] /\ ip'[p] = ip[p] /\ dp'[p] = dp[p]
       /\ puts'[p] = puts[p] /\ put'[p] = "freeing" /\ rest'[p] = rest[p]
       /\ call'[p] = call[p] /\ cwd'[p] = cwd[p]
  BY <1>1, <1>7, <1>8 DEF Typed, ProcsTyped
<1>13. Others(p) BY <1>1, <1>7, <1>8 DEF Typed, ProcsTyped, Others
<1>14. ProcsTyped' BY <1>1, <1>7, <1>8 DEF Typed, ProcsTyped
<1>15. Typed'
  <2>1. DiskTyped' BY <1>1, <1>7, <1>11 DEF Typed, DiskTyped
  <2>2. lock' \in [Inums -> Procs \cup {Nobody}] BY <1>1, <1>8 DEF Typed, TableTyped
  <2>3. TableTyped' BY <1>1, <1>7, <1>11, <2>2 DEF Typed, TableTyped
  <2>4. FilesTyped' BY <1>1, <1>7 DEF Typed, FilesTyped
  <2> QED BY <1>14, <2>1, <2>3, <2>4 DEF Typed
<1>16. Shape(p)' BY <1>1, <1>2, <1>7, <1>12 DEF Shape, WithCur, WithDp, WithIp, NoPuts, Creates
<1>17. LocksMove(p) BY <1>1, <1>5, <1>8, <1>9, <1>11, NotReadIs DEF LocksMove, Typed, TableTyped
<1>18. \A k \in Inums : Apart(p, k)' BY <1>4, <1>12, <1>28 DEF Apart, Freeing
<1>19. OwnLocks(p)'
  <2>1. ASSUME NEW k \in Inums \ {i} PROVE lock'[k] = p <=> HoldsLock(p, k)'
    <3>1. HoldsLock(p, k)' <=> HoldsLock(p, k) BY <1>2, <1>4, <1>12 DEF HoldsLock, Freeing
    <3>2. lock'[k] = lock[k] BY <1>1, <1>8 DEF Typed, TableTyped
    <3> QED BY <1>1, <3>1, <3>2 DEF OwnLocks
  <2>2. lock'[i] = p /\ HoldsLock(p, i)'
    BY <1>1, <1>4, <1>8, <1>12 DEF HoldsLock, Freeing, Typed, TableTyped
  <2> QED BY <2>1, <2>2, ProcsAssumption DEF OwnLocks
<1>20. Coherent'
  <2>1. \A k \in Inums \ {i} : /\ disk'.ino[k] = disk.ino[k] /\ copy'[k] = copy[k]
                               /\ ~ Freeing(p, k) /\ ~ Freeing(p, k)' /\ ~ Truncates(p, k)
    BY <1>2, <1>4, <1>11, <1>12 DEF Freeing, Truncates, NoPuts
  <2>2. Freeing(p, i)' BY <1>4, <1>12 DEF Freeing
  <2>3. Typed /\ Shaped /\ Locks /\ Coherent /\ Others(p) /\ lock[i] \in {p, Nobody}
    BY <1>1, <1>5, <1>13
  <2>4. copy'[i].type = disk'.ino[i].type /\ copy'[i].type # "free" /\ copy'[i].addrs = <<>>
          /\ copy'[i].ents = NoEntry
    BY <1>6, <1>9, <1>11
  <2> QED BY <2>1, <2>2, <2>3, <2>4, CoherentOne
<1>21. \A k \in Inums : lock[k] \in Procs \ {p} => View'[k] = View[k]
  BY <1>5, <1>11, ProcsAssumption
<1>22. UnlinksOwn(p)' /\ SameFiles(p) BY <1>2, <1>7, <1>12 DEF UnlinksOwn, SameFiles, NoPuts
<1>23. FilesOK' /\ \A k \in Inums : InFile(k)' <=> InFile(k) BY <1>1, <1>13, <1>22, FilesStay
<1>24. RefsOK'
  <2>1. ASSUME NEW k \in Inums PROVE ref'[k] + Mine(p, k) = ref[k] + Mine(p, k)'
    <3>1. Mine(p, k)' = Mine(p, k) BY <1>12 DEF Mine, CwdOf, IpOf
    <3>2. ref'[k] = ref[k] BY <1>7
    <3> QED BY <3>1, <3>2
  <2> QED BY <1>1, <1>13, <1>15, <1>22, <2>1, RefsStay
<1>25. BlocksOwned(View, disk.used)'
  <2>1. BlocksOwned(View, disk.used) BY DEF Good, Core
  <2>2. Range(View'[i].addrs) = {}
          /\ \A k \in Inums \ {i} : Range(View'[k].addrs) = Range(View[k].addrs)
    BY <1>9, <1>11, RangeEmpty
  <2>3. BlocksOwned(View', disk.used \ Range(View[i].addrs)) BY <2>1, <2>2, BlocksDrop
  <2> QED BY <1>11, <1>27, <2>3
<1>26. Sound => Goes(p) /\ Changes(p) /\ Counted' /\ Tree(View') /\ NewAlone(p)'
  <2> SUFFICES ASSUME Sound PROVE Goes(p) /\ Changes(p) /\ Counted' /\ Tree(View') /\ NewAlone(p)'
    OBVIOUS
  <2>1. \A k \in Inums : /\ Holds(p, k)' => Holds(p, k)
                         /\ Reached(p, k)' => Reached(p, k)
                         /\ copy'[k] = copy[k] \/ Holds(p, k)
    BY <1>2, <1>3, <1>4, <1>11, <1>12 DEF Holds, Reached
  <2>2. /\ dp'[p] # None => dp'[p] \in Inums /\ View[dp'[p]].type = "dir"
        /\ pc'[p] \in {"walk", "parent", "giveUp", "linkBad"} /\ ip'[p] # None =>
             ip'[p] \in Inums /\ View[ip'[p]].type # "dir"
    BY <1>1, <1>12 DEF Sound, Reaching, LinkedFile, Typed, ProcsTyped
  <2>3. Goes(p) BY <1>23, <2>1, <2>2 DEF Goes
  <2>4. View[i].nlink = 0 /\ Holds(p, i) BY <1>2, <1>3, <1>4, <1>5, <1>6 DEF Holds
  <2>6. Changes(p)
    <3>1. ASSUME NEW k \in Inums, k # i
          PROVE  /\ View'[k] = View[k] /\ ~ Freeing(p, k)' /\ (HasEntries(k) => HasEntries(k)')
      BY <1>4, <1>11, <1>12, <3>1 DEF Freeing, HasEntries
    <3>2. View'[i].nlink = 0 BY <1>9, <1>11
    <3> QED BY <1>5, <1>28, <2>4, <3>1, <3>2, ProcsAssumption DEF Changes
  <2>7. LinksTo(View, i) = {} /\ Inos(View) BY <1>1, <2>4, Unlinkedness, InodeIs DEF Sound
  <2>8. Tree(View') /\ NoMore(View, View') BY <1>9, <1>11, <2>7, Emptied DEF Sound
  <2>9. \A k \in Inums : Pends(p, k)' <=> Pends(p, k) BY <1>12 DEF Pends
  <2>10. ASSUME NEW k \in Inums
         PROVE  View'[k].nlink - Links(k)' - Pend(p, k)' >= View[k].nlink - Links(k) - Pend(p, k)
    <3>1. LinksTo(View', k) \subseteq LinksTo(View, k) /\ View'[k].nlink = View[k].nlink
      BY <1>9, <1>11, <2>4, <2>8 DEF NoMore
    <3> QED BY <1>1, <1>15, <2>9, <3>1, LinksFall
  <2>11. Counted' BY <1>1, <1>13, <1>15, <2>10, CountedKept DEF Sound, Pend
  <2>12. pc'[p] # "new" BY <1>2, <1>12 DEF NoPuts
  <2> QED BY <2>3, <2>6, <2>8, <2>11, <2>12 DEF NewAlone
<1> QED BY <1>7, <1>13, <1>15, <1>16, <1>17, <1>18, <1>19, <1>20, <1>21, <1>22, <1>23, <1>24,
  <1>25, <1>26, MovesGood

\* iput() frees the inode.
LEMMA IputFreeGood ==
  ASSUME Good, NEW p \in Procs, IputFree(p)
  PROVE  Good'
<1>1. Typed /\ Shape(p) /\ Locks /\ Coherent /\ RefsOK /\ FilesOK /\ OwnLocks(p) /\ Shaped
        /\ UnlinkOK
  BY DEF Good, Core, Shaped, Locks, OwnLocks
<1>2. /\ puts[p] # <<>> /\ puts[p] \in Seq(Inums) /\ Len(puts[p]) <= 2
      /\ put[p] = "freeing" /\ pc[p] \notin NoPuts
  BY <1>1 DEF IputFree, Putting, Shape, Typed, ProcsTyped
<1>3. Put1(puts[p]) = Head(puts[p]) /\ Head(puts[p]) \in Inums BY <1>2, PutsAre
<1>4. PICK i \in Inums : i = Head(puts[p]) BY <1>3
<1>5. Freeing(p, i) /\ lock[i] = p /\ copy[i] # NotRead /\ disk.used \in SUBSET Blocks
        /\ Apart(p, i)
  BY <1>1, <1>2, <1>4, ProcsAssumption DEF HoldsLock, Locks, Typed, DiskTyped, IsDisk, Freeing,
    Apart
<1>6. copy[i].addrs = <<>> /\ copy[i].ents = NoEntry /\ View[i] = copy[i]
  BY <1>1, <1>5, InodeIs DEF Coherent, Inode
<1>7. UNCHANGED <<durable, active, ref, ftable, ofile, cwd, pc, call, cur, rest, ip, dp, puts,
        strayed>>
  BY DEF IputFree, files, locals, walk
<1>8. /\ put' = [put EXCEPT ![p] = "freed"] /\ lock' = [lock EXCEPT ![i] = Nobody]
      /\ disk' = [disk EXCEPT !.ino[i] = Fresh("free")] /\ copy' = [copy EXCEPT ![i] = NotRead]
  BY <1>1, <1>4 DEF IputFree
<1>9. PICK x : x = Fresh("free") /\ IsInode(x) /\ x.addrs = <<>> /\ x.ents = NoEntry /\ x.nlink = 0
  BY FreshIs
<1>10. SetsOne(i, x, NotRead, disk.used)
  <2>1. disk' = [ino |-> [k \in Inums |-> IF k = i THEN x ELSE disk.ino[k]], used |-> disk.used]
    BY <1>1, <1>8, <1>9 DEF Typed, DiskTyped, IsDisk
  <2>2. copy' = [k \in Inums |-> IF k = i THEN NotRead ELSE copy[k]]
    BY <1>1, <1>8 DEF Typed, TableTyped
  <2> QED BY <2>1, <2>2 DEF SetsOne
<1>11. /\ IsDisk(disk') /\ copy' = [k \in Inums |-> copy'[k]] /\ disk'.used = disk.used
       /\ \A k \in Inums : copy'[k] # NotRead => IsInode(copy'[k])
       /\ disk'.ino[i] = x /\ copy'[i] = NotRead /\ View'[i] = x
       /\ \A k \in Inums \ {i} : disk'.ino[k] = disk.ino[k] /\ copy'[k] = copy[k]
            /\ View'[k] = View[k]
  <2>1. PICK y : y = NotRead OBVIOUS
  <2>2. IsInode(x) /\ SetsOne(i, x, y, disk.used) BY <1>9, <1>10, <2>1
  <2>3. Typed BY <1>1
  <2>4. /\ IsDisk(disk') /\ copy' = [k \in Inums |-> copy'[k]] /\ disk'.used = disk.used
        /\ \A k \in Inums : copy'[k] # NotRead => IsInode(copy'[k])
        /\ disk'.ino[i] = x /\ copy'[i] = y /\ View'[i] = IF y = NotRead THEN x ELSE y
        /\ \A k \in Inums \ {i} : disk'.ino[k] = disk.ino[k] /\ copy'[k] = copy[k]
             /\ View'[k] = View[k]
    BY <1>5, <2>1, <2>2, <2>3, SetsOneIs
  <2> QED BY <2>1, <2>4
<1>12. /\ pc'[p] = pc[p] /\ cur'[p] = cur[p] /\ ip'[p] = ip[p] /\ dp'[p] = dp[p]
       /\ puts'[p] = puts[p] /\ put'[p] = "freed" /\ rest'[p] = rest[p]
       /\ call'[p] = call[p] /\ cwd'[p] = cwd[p]
  BY <1>1, <1>7, <1>8 DEF Typed, ProcsTyped
<1>13. Others(p) BY <1>1, <1>7, <1>8 DEF Typed, ProcsTyped, Others
<1>14. ProcsTyped' BY <1>1, <1>7, <1>8 DEF Typed, ProcsTyped
<1>15. Typed'
  <2>1. DiskTyped' BY <1>1, <1>7, <1>11 DEF Typed, DiskTyped
  <2>2. lock' \in [Inums -> Procs \cup {Nobody}] BY <1>1, <1>8 DEF Typed, TableTyped
  <2>3. TableTyped' BY <1>1, <1>7, <1>11, <2>2 DEF Typed, TableTyped
  <2>4. FilesTyped' BY <1>1, <1>7 DEF Typed, FilesTyped
  <2> QED BY <1>14, <2>1, <2>3, <2>4 DEF Typed
<1>16. Shape(p)' BY <1>1, <1>2, <1>7, <1>12 DEF Shape, WithCur, WithDp, WithIp, NoPuts, Creates
<1>17. LocksMove(p) BY <1>1, <1>5, <1>8, <1>11 DEF LocksMove, Typed, TableTyped
<1>18. \A k \in Inums : Apart(p, k)' BY <1>12 DEF Apart, Freeing
<1>19. OwnLocks(p)'
  <2>1. ASSUME NEW k \in Inums \ {i} PROVE lock'[k] = p <=> HoldsLock(p, k)'
    <3>1. HoldsLock(p, k)' <=> HoldsLock(p, k) BY <1>4, <1>12 DEF HoldsLock, Freeing
    <3>2. lock'[k] = lock[k] BY <1>1, <1>8 DEF Typed, TableTyped
    <3> QED BY <1>1, <3>1, <3>2 DEF OwnLocks
  <2>2. lock'[i] = Nobody /\ ~ HoldsLock(p, i)'
    BY <1>1, <1>5, <1>8, <1>12 DEF HoldsLock, Freeing, Apart, Typed, TableTyped
  <2> QED BY <2>1, <2>2, ProcsAssumption DEF OwnLocks
<1>20. Coherent'
  <2>1. \A k \in Inums \ {i} : /\ disk'.ino[k] = disk.ino[k] /\ copy'[k] = copy[k]
                               /\ ~ Freeing(p, k) /\ ~ Freeing(p, k)' /\ ~ Truncates(p, k)
    BY <1>2, <1>4, <1>11, <1>12 DEF Freeing, Truncates, NoPuts
  <2>2. ~ Freeing(p, i)' /\ copy'[i] = NotRead BY <1>11, <1>12 DEF Freeing
  <2>3. Typed /\ Shaped /\ Locks /\ Coherent /\ Others(p) /\ lock[i] \in {p, Nobody}
    BY <1>1, <1>5, <1>13
  <2> QED BY <2>1, <2>2, <2>3, CoherentOne
<1>21. \A k \in Inums : lock[k] \in Procs \ {p} => View'[k] = View[k] BY <1>5, <1>11
<1>22. UnlinksOwn(p)' /\ SameFiles(p) BY <1>2, <1>7, <1>12 DEF UnlinksOwn, SameFiles, NoPuts
<1>23. FilesOK' /\ \A k \in Inums : InFile(k)' <=> InFile(k) BY <1>1, <1>13, <1>22, FilesStay
<1>24. RefsOK'
  <2>1. ASSUME NEW k \in Inums PROVE ref'[k] + Mine(p, k) = ref[k] + Mine(p, k)'
    <3>1. Mine(p, k)' = Mine(p, k) BY <1>12 DEF Mine, CwdOf, IpOf
    <3>2. ref'[k] = ref[k] BY <1>7
    <3> QED BY <3>1, <3>2
  <2> QED BY <1>1, <1>13, <1>15, <1>22, <2>1, RefsStay
<1>25. BlocksOwned(View, disk.used)'
  <2>1. BlocksOwned(View, disk.used) BY DEF Good, Core
  <2>2. \A k \in Inums : Range(View'[k].addrs) = Range(View[k].addrs) BY <1>6, <1>9, <1>11
  <2>3. BlocksOwned(View', disk.used) BY <2>1, <2>2, BlocksStay
  <2> QED BY <1>11, <2>3
<1>26. Sound => Goes(p) /\ Changes(p) /\ Counted' /\ Tree(View') /\ NewAlone(p)'
  <2> SUFFICES ASSUME Sound PROVE Goes(p) /\ Changes(p) /\ Counted' /\ Tree(View') /\ NewAlone(p)'
    OBVIOUS
  <2>1. \A k \in Inums : /\ Holds(p, k)' => Holds(p, k)
                         /\ Reached(p, k)' => Reached(p, k)
                         /\ copy'[k] = copy[k] \/ copy'[k] = NotRead
    BY <1>11, <1>12 DEF Holds, Reached
  <2>2. /\ dp'[p] # None => dp'[p] \in Inums /\ View[dp'[p]].type = "dir"
        /\ pc'[p] \in {"walk", "parent", "giveUp", "linkBad"} /\ ip'[p] # None =>
             ip'[p] \in Inums /\ View[ip'[p]].type # "dir"
    BY <1>1, <1>12 DEF Sound, Reaching, LinkedFile, Typed, ProcsTyped
  <2>3. Goes(p) BY <1>23, <2>1, <2>2 DEF Goes
  <2>4. ~ Held(i) /\ View[i].nlink = 0 BY <1>5 DEF Sound, Alive
  <2>5. ~ Held(i)' BY <1>13, <1>23, <2>1, <2>4, OthersHold DEF Held
  <2>6. Changes(p)
    <3>1. ASSUME NEW k \in Inums, k # i
          PROVE  /\ View'[k] = View[k] /\ ~ Freeing(p, k)' /\ (HasEntries(k) => HasEntries(k)')
      BY <1>11, <1>12, <3>1 DEF Freeing, HasEntries
    <3>2. ~ Freeing(p, i)' BY <1>12 DEF Freeing
    <3> QED BY <1>5, <2>5, <3>1, <3>2, ProcsAssumption DEF Changes
  <2>7. LinksTo(View, i) = {} /\ Inos(View) BY <1>1, <2>4, Unlinkedness, InodeIs DEF Sound
  <2>8. Tree(View') /\ NoMore(View, View') BY <1>9, <1>11, <2>7, Emptied DEF Sound
  <2>9. \A k \in Inums : Pends(p, k)' <=> Pends(p, k) BY <1>12 DEF Pends
  <2>10. ASSUME NEW k \in Inums
         PROVE  View'[k].nlink - Links(k)' - Pend(p, k)' >= View[k].nlink - Links(k) - Pend(p, k)
    <3>1. LinksTo(View', k) \subseteq LinksTo(View, k) /\ View'[k].nlink = View[k].nlink
      BY <1>9, <1>11, <2>4, <2>8 DEF NoMore
    <3> QED BY <1>1, <1>15, <2>9, <3>1, LinksFall
  <2>11. Counted' BY <1>1, <1>13, <1>15, <2>10, CountedKept DEF Sound, Pend
  <2>12. pc'[p] # "new" BY <1>2, <1>12 DEF NoPuts
  <2> QED BY <2>3, <2>6, <2>8, <2>11, <2>12 DEF NewAlone
<1> QED BY <1>7, <1>13, <1>15, <1>16, <1>17, <1>18, <1>19, <1>20, <1>21, <1>22, <1>23, <1>24,
  <1>25, <1>26, MovesGood

-----
\* Boot, crash and commit.
\* What a boot leaves on a disk.
Booted ==
  /\ active = {} /\ durable = disk
  /\ ref = [i \in Inums |-> IF i = ROOTINO THEN Cardinality(Procs) ELSE 0]
  /\ copy = [i \in Inums |-> NotRead] /\ lock = [i \in Inums |-> Nobody]
  /\ ftable = [f \in Files |-> NoFile]
  /\ ofile = [p \in Procs |-> [d \in Fds |-> None]] /\ cwd = [p \in Procs |-> ROOTINO]
  /\ pc = [p \in Procs |-> "user"] /\ call = [p \in Procs |-> NoCall]
  /\ cur = [p \in Procs |-> None] /\ rest = [p \in Procs |-> <<>>]
  /\ ip = [p \in Procs |-> None] /\ dp = [p \in Procs |-> None]
  /\ puts = [p \in Procs |-> <<>>] /\ put = [p \in Procs |-> "no"]
  /\ IsDisk(disk) /\ BlocksOwned(disk.ino, disk.used)
  /\ strayed \/ (Tree(disk.ino) /\ LinksCounted(disk.ino))

\* The types after a boot.
LEMMA BootedTyped ==
  ASSUME Booted
  PROVE  Typed /\ View = disk.ino
<1>1. DiskTyped BY DEF Booted, DiskTyped
<1>2. TableTyped BY ProcsFinite, FS_CardinalityType DEF Booted, TableTyped
<1>3. FilesTyped
  <2>1. NoFile \in FileIs BY DEF NoFile, FileIs
  <2> QED BY <2>1, RootIs DEF Booted, FilesTyped
<1>4. ProcsTyped BY NoCallIs DEF Booted, ProcsTyped, Labels
<1>5. View = disk.ino
  <2>1. \A i \in Inums : Inode(i) = disk.ino[i] BY DEF Booted, Inode
  <2>2. disk.ino = [i \in Inums |-> disk.ino[i]] BY DEF Booted, IsDisk
  <2> QED BY <2>1, <2>2 DEF View
<1> QED BY <1>1, <1>2, <1>3, <1>4, <1>5 DEF Typed

\* The count of a constant function.
LEMMA CountAll ==
  ASSUME NEW S, IsFiniteSet(S), NEW f, DOMAIN f = S, NEW x, \A y \in S : f[y] = x, NEW i
  PROVE  Count(f, i) = IF x = i THEN Cardinality(S) ELSE 0
<1>1. CASE x = i
  <2>1. {y \in DOMAIN f : f[y] = i} = S BY <1>1
  <2> QED BY <1>1, <2>1 DEF Count
<1>2. CASE x # i
  <2>1. {y \in DOMAIN f : f[y] = i} = {} BY <1>2
  <2> QED BY <1>2, <2>1, FS_EmptySet DEF Count
<1> QED BY <1>1, <1>2

\* Core after a boot: every process has the root as its working directory.
LEMMA BootedCore ==
  ASSUME Booted
  PROVE  Core
<1>1. Typed /\ View = disk.ino BY BootedTyped
<1>2. Shaped BY NoCallIs, SeqsAre DEF Booted, Shaped, Shape, WithCur, WithDp, WithIp, NoPuts
<1>3. Locks BY ProcsAssumption DEF Booted, Locks, HoldsLock, Freeing, LocksIp, LocksDp
<1>4. Coherent BY DEF Booted, Coherent, Freeing
<1>5. RefsOK
  <2> SUFFICES ASSUME NEW i \in Inums PROVE ref[i] = References(i)
    BY DEF RefsOK
  <2>1. Count(CwdRef, i) = IF ROOTINO = i THEN Cardinality(Procs) ELSE 0
    <3>1. DOMAIN CwdRef = Procs /\ \A q \in Procs : CwdRef[q] = ROOTINO BY DEF Booted, CwdRef
    <3> QED BY <3>1, ProcsFinite, CountAll
  <2>2. i # None BY NoneIs
  <2>3. Count(FileRef, i) = 0
    <3>1. DOMAIN FileRef = Files /\ \A f \in Files : FileRef[f] = None
      BY DEF Booted, FileRef, NoFile
    <3> QED BY <2>2, <3>1, ProcsFinite, CountAll
  <2>4. Count(cur, i) = 0 /\ Count(dp, i) = 0
    <3>1. /\ DOMAIN cur = Procs /\ \A q \in Procs : cur[q] = None
          /\ DOMAIN dp = Procs /\ \A q \in Procs : dp[q] = None
      BY DEF Booted
    <3> QED BY <2>2, <3>1, ProcsFinite, CountAll
  <2>5. Count(IpRef, i) = 0
    <3>1. DOMAIN IpRef = Procs /\ \A q \in Procs : IpRef[q] = None BY DEF Booted, IpRef
    <3> QED BY <2>2, <3>1, ProcsFinite, CountAll
  <2>6. Count(Put1Ref, i) = 0 /\ Count(Put2Ref, i) = 0
    <3>1. /\ DOMAIN Put1Ref = Procs /\ \A q \in Procs : Put1Ref[q] = None
          /\ DOMAIN Put2Ref = Procs /\ \A q \in Procs : Put2Ref[q] = None
      BY PutsAre DEF Booted, Put1Ref, Put2Ref
    <3> QED BY <2>2, <3>1, ProcsFinite, CountAll
  <2>7. ref[i] = IF i = ROOTINO THEN Cardinality(Procs) ELSE 0 BY DEF Booted
  <2>8. Cardinality(Procs) \in Nat BY ProcsFinite, FS_CardinalityType
  <2> QED BY <2>1, <2>3, <2>4, <2>5, <2>6, <2>7, <2>8 DEF References
<1>6. FilesOK
  <2>1. ASSUME NEW f \in Files PROVE ftable[f].ref = Count(Descriptors, f) /\ ftable[f].ref = 0
    <3>1. DOMAIN Descriptors = Procs \X Fds /\ \A y \in Procs \X Fds : Descriptors[y] = None
      BY DEF Booted, Descriptors
    <3>2. f # None BY FilesAre
    <3>3. Count(Descriptors, f) = 0 BY <3>1, <3>2, ProcsFinite, CountAll
    <3> QED BY <3>3 DEF Booted, NoFile
  <2>2. \A p \in Procs : call[p].op # "write" /\ pc[p] # "truncating" BY NoCallIs DEF Booted
  <2> QED BY <2>1, <2>2 DEF FilesOK
<1>7. UnlinkOK BY DEF Booted, UnlinkOK
<1> QED BY <1>1, <1>2, <1>3, <1>4, <1>5, <1>6, <1>7 DEF Core, Booted

\* Sound after a boot, on a disk that is a tree with counted links.
LEMMA BootedSound ==
  ASSUME Booted, ~ strayed
  PROVE  Sound
<1>1. Typed /\ View = disk.ino /\ Inos(View) BY BootedTyped, InodeIs
<1>2. Tree(View) /\ LinksCounted(View) /\ Tree(durable.ino) /\ LinksCounted(durable.ino)
  BY <1>1 DEF Booted
<1>3. Counted
  <2>1. ASSUME NEW i \in Inums PROVE View[i].nlink >= Links(i) + Cardinality(Pending(i))
    <3>1. Pending(i) = {} BY DEF Booted, Pending, Pends
    <3>2. Cardinality(Pending(i)) = 0 /\ Links(i) \in Nat BY <1>1, <3>1, LinksAre
    <3>3. View[i].nlink >= Links(i) BY <1>2 DEF LinksCounted, Links
    <3> QED BY <3>2, <3>3
  <2> QED BY <2>1 DEF Counted
<1>4. \A i \in Inums, p \in Procs : ~ Freeing(p, i) /\ ~ InFile(i)
  BY DEF Booted, Freeing, InFile, NoFile
<1>5. \A p \in Procs, i \in Inums : (Holds(p, i) \/ Reached(p, i)) => i = ROOTINO
  <2>1. \A p \in Procs : Put1(puts[p]) = None /\ Put2(puts[p]) = None BY PutsAre DEF Booted
  <2> QED BY <2>1, NoneIs DEF Booted, Holds, Reached
<1>6. View[ROOTINO].type = "dir" /\ HasEntries(ROOTINO) BY <1>2 DEF Tree, HasEntries
<1>7. Alive
  <2>1. \A i \in Inums : Held(i) => i = ROOTINO BY <1>4, <1>5 DEF Held, Booted, InFile, NoFile
  <2> QED BY <1>4, <1>6, <2>1 DEF Alive
<1>8. Reaching BY <1>5, <1>6 DEF Reaching, Booted, LinkedFile
<1>9. \A p \in Procs : NewAlone(p) BY DEF Booted, NewAlone
<1> QED BY <1>2, <1>3, <1>7, <1>8, <1>9 DEF Sound

\* So Good holds after a boot.
LEMMA BootedGood == Booted => Good
BY BootedCore, BootedSound DEF Good

\* The initial states: mkfs made the disk.
LEMMA InitGood ==
  ASSUME Init
  PROVE  Good
BY BootedGood, ImageAssumption DEF Init, Booted

\* A crash goes back to the durable disk.
LEMMA CrashGood ==
  ASSUME Good, Crash
  PROVE  Good'
<1>1. IsDisk(durable) /\ BlocksOwned(durable.ino, durable.used)
  BY DEF Good, Core, Typed, DiskTyped
<1>2. strayed \/ (Tree(durable.ino) /\ LinksCounted(durable.ino)) BY DEF Good, Sound
<1>3. Booted' BY <1>1, <1>2 DEF Crash, D!Crash, Booted
<1> QED BY <1>3, BootedGood, PTL

\* Only the durable disk may change.
LEMMA StaysGood ==
  ASSUME Good, UNCHANGED <<disk, active, table, files, pc, locals, puts, put, strayed>>,
         IsDisk(durable'), BlocksOwned(durable'.ino, durable'.used),
         Sound => Tree(durable'.ino) /\ LinksCounted(durable'.ino)
  PROVE  Good'
<1>1. UNCHANGED <<disk, active, ref, copy, lock, ftable, ofile, cwd, pc, cur, rest, ip, dp,
        call, puts, put, strayed>>
  BY DEF table, files, locals, walk
<1>2. \A i : Inode(i)' = Inode(i) BY <1>1 DEF Inode
<1>3. View' = View BY <1>2 DEF View
<1>5. Typed' /\ Shaped' /\ Locks' /\ Coherent'
  <2>1. Typed' BY <1>1 DEF Good, Core, Typed, DiskTyped, TableTyped, FilesTyped, ProcsTyped
  <2>2. Shaped' BY <1>1 DEF Good, Core, Shaped, Shape, Creates
  <2>3. Locks' BY <1>1 DEF Good, Core, Locks, HoldsLock, Freeing
  <2>4. Coherent' BY <1>1 DEF Good, Core, Coherent, Busy, Freeing, Truncates
  <2> QED BY <2>1, <2>2, <2>3, <2>4
<1>6. RefsOK' /\ FilesOK' /\ UnlinkOK'
  <2>1. RefsOK'
    <3>1. /\ CwdRef' = CwdRef /\ IpRef' = IpRef /\ FileRef' = FileRef /\ Put1Ref' = Put1Ref
          /\ Put2Ref' = Put2Ref
      BY <1>1 DEF CwdRef, IpRef, FileRef, Put1Ref, Put2Ref
    <3>2. \A i : /\ Count(CwdRef, i)' = Count(CwdRef, i) /\ Count(IpRef, i)' = Count(IpRef, i)
                 /\ Count(FileRef, i)' = Count(FileRef, i) /\ Count(Put1Ref, i)' = Count(Put1Ref, i)
                 /\ Count(Put2Ref, i)' = Count(Put2Ref, i) /\ Count(cur, i)' = Count(cur, i)
                 /\ Count(dp, i)' = Count(dp, i)
      BY <1>1, <3>1 DEF Count
    <3> QED BY <1>1, <3>2 DEF Good, Core, RefsOK, References
  <2>2. FilesOK' BY <1>1 DEF Good, Core, FilesOK, Count, Descriptors
  <2>3. UnlinkOK' BY <1>1, <1>3 DEF Good, Core, UnlinkOK, Name
  <2> QED BY <2>1, <2>2, <2>3
<1>7. Core'
  <2>1. BlocksOwned(View, disk.used)' BY <1>1, <1>3 DEF Good, Core, BlocksOwned
  <2> QED BY <1>5, <1>6, <2>1 DEF Core
<1>8. Sound => Sound'
  <2>0. \A i : (InFile(i)' <=> InFile(i)) /\ \A p : (Holds(p, i)' <=> Holds(p, i))
          /\ (Freeing(p, i)' <=> Freeing(p, i)) /\ (Reached(p, i)' <=> Reached(p, i))
    BY <1>1 DEF InFile, Holds, Freeing, Reached
  <2>1. Counted => Counted' BY <1>1, <1>3 DEF Counted, Links, Pending, Pends
  <2>2. Alive => Alive' BY <1>3, <2>0 DEF Alive, Held
  <2>3. Reaching => Reaching' BY <1>1, <1>3, <2>0 DEF Reaching, HasEntries, LinkedFile
  <2>4. ASSUME NEW p PROVE NewAlone(p) => NewAlone(p)'
    <3>1. Type(p)' = Type(p) /\ Name(p)' = Name(p) BY <1>1 DEF Type, Name
    <3> QED BY <1>1, <1>3, <2>0, <3>1 DEF NewAlone
  <2>5. Tree(View) => Tree(View)' BY <1>3 DEF Tree, DirOK, NameOK
  <2> QED BY <1>1, <2>1, <2>2, <2>3, <2>4, <2>5 DEF Sound
<1> QED BY <1>1, <1>7, <1>8 DEF Good

\* Nobody is in a call, so memory and disk agree.
LEMMA CommitGood ==
  ASSUME Good, Commit
  PROVE  Good'
<1>1. Typed /\ Shaped /\ Coherent BY DEF Good, Core
<1>2. /\ active = {} /\ durable' = disk
      /\ UNCHANGED <<disk, active, table, files, pc, locals, puts, put, strayed>>
  BY DEF Commit, D!Commit
<1>3. \A i \in Inums : ~ Busy(i)
  <2> SUFFICES ASSUME NEW i \in Inums, NEW p \in Procs, Freeing(p, i) \/ Truncates(p, i) PROVE FALSE
    BY DEF Busy
  <2>1. pc[p] \in {"user", "closing", "writing"} /\ put[p] = "no"
    BY <1>1, <1>2 DEF Shaped, Shape, NoPuts
  <2> QED BY <2>1 DEF Freeing, Truncates
<1>4. View = disk.ino
  <2>1. \A i \in Inums : Inode(i) = disk.ino[i] BY <1>1, <1>3 DEF Coherent, Inode
  <2>2. disk.ino = [i \in Inums |-> disk.ino[i]] BY <1>1 DEF Typed, DiskTyped, IsDisk
  <2> QED BY <2>1, <2>2 DEF View
<1>5. BlocksOwned(disk.ino, disk.used) /\ IsDisk(disk)
  BY <1>1, <1>4 DEF Good, Core, Typed, DiskTyped
<1>6. Sound => Tree(disk.ino) /\ LinksCounted(disk.ino)
  <2>1. ASSUME Sound, NEW i \in Inums PROVE View[i].nlink >= Cardinality(LinksTo(View, i))
    <3>1. View[i].nlink >= Links(i) + Cardinality(Pending(i)) /\ IsInode(View[i])
      BY <1>1, <2>1, InodeIs DEF Sound, Counted
    <3>2. Links(i) \in Nat /\ Cardinality(Pending(i)) \in Nat BY <1>1, LinksAre
    <3> QED BY <3>1, <3>2 DEF Links, IsInode
  <2>2. Sound => LinksCounted(View) BY <2>1 DEF LinksCounted
  <2> QED BY <1>4, <2>2 DEF Sound
<1> QED BY <1>2, <1>5, <1>6, StaysGood

-----
\* Good is an invariant, and what follows from it.
\* A step that changes none of what Good speaks of.
LEMMA KeepsGood ==
  ASSUME Good, UNCHANGED <<durable, disk, active, table, files, pc, locals, puts, put, strayed>>
  PROVE  Good'
<1>1. IsDisk(durable') /\ BlocksOwned(durable'.ino, durable'.used)
  BY DEF Good, Core, Typed, DiskTyped
<1>2. Sound => Tree(durable'.ino) /\ LinksCounted(durable'.ino) BY DEF Sound
<1> QED BY <1>1, <1>2, StaysGood

\* filewrite(): nothing to write, not writable, or a first chunk.
LEMMA WriteGood ==
  ASSUME Good, NEW p \in Procs, NEW d \in Fds, Write(p, d)
  PROVE  Good'
<1>1. PICK c \in Calls :
        /\ c.op = "write"
        /\ call' = [call EXCEPT ![p] = [op |-> "write", f |-> ofile[p][d], left |-> c.n]]
  BY DEF Write
<1>2. PICK n \in Nat : n = c.n BY <1>1, CallIs
<1> QED BY <1>1, <1>2, WriteQuiet

\* The steps of the calls with a path.
LEMMA PathGood ==
  ASSUME Good, NEW p \in Procs, Path(p)
  PROVE  Good'
<1>1. CASE \E c \in Calls : "path" \in DOMAIN c /\ SysPath(p, c) BY <1>1, SysPathGood
<1>2. CASE WalkEnd(p) BY <1>2, WalkEndGood
<1>3. CASE Walk(p) BY <1>3, WalkGood
<1>4. CASE Create(p) BY <1>4, CreateQuiet, CreateMakes
<1>5. CASE CreateExists(p) BY <1>5, CreateExistsGood
<1>6. CASE CreateNew(p) BY <1>6, CreateNewFails, CreateNewMakes
<1>7. CASE GiveUp(p) BY <1>7, GiveUpGood
<1>8. CASE Made(p) BY <1>8, MadeGood
<1>9. CASE OpenFound(p) BY <1>9, OpenFoundGood
<1>10. CASE Open(p) BY <1>10, OpenQuiet, OpenTruncates
<1>11. CASE OpenTruncated(p) BY <1>11, OpenTruncatedGood
<1>12. CASE Unlink(p) BY <1>12, UnlinkGood
<1>13. CASE UnlinkEntry(p) BY <1>13, UnlinkEntryQuiet, UnlinkEntryGone
<1>14. CASE UnlinkInode(p) BY <1>14, UnlinkInodeGood
<1>15. CASE Link(p) BY <1>15, LinkQuiet, LinkCounts
<1>16. CASE LinkEntry(p)
  <2>1. pc'[p] \in {"giveUp", "linkBad", "end"}
    BY <1>1, <1>16 DEF LinkEntry, Goto, DropDp, Good, Core, Typed, ProcsTyped
  <2> QED BY <1>16, <2>1, LinkEntryQuiet, LinkEntryShort, LinkEntryMakes
<1>17. CASE LinkBad(p) BY <1>17, LinkBadGood
<1>18. CASE Chdir(p) BY <1>18, ChdirGood
<1>19. CASE ChdirEnd(p) BY <1>19, ChdirEndGood
<1> QED
  BY <1>1, <1>2, <1>3, <1>4, <1>5, <1>6, <1>7, <1>8, <1>9, <1>10, <1>11, <1>12, <1>13, <1>14,
    <1>15, <1>16, <1>17, <1>18, <1>19 DEF Path

\* The steps of the calls with a descriptor.
LEMMA DescriptorGood ==
  ASSUME Good, NEW p \in Procs, Descriptor(p)
  PROVE  Good'
<1>1. ASSUME NEW d \in Fds, Dup(p, d) PROVE Good' BY <1>1, DupGood
<1>2. ASSUME NEW d \in Fds, Close(p, d) PROVE Good' BY <1>2, CloseGood
<1>3. ASSUME NEW d \in Fds, Read(p, d) PROVE Good' BY <1>3, ReadGood
<1>4. ASSUME NEW d \in Fds, Write(p, d) PROVE Good' BY <1>4, WriteGood
<1>5. CASE CloseInode(p) BY <1>5, CloseInodeGood
<1>6. CASE WriteBegin(p) BY <1>6, WriteBeginGood
<1>7. CASE WriteChunk(p) BY <1>7, WriteChunkGood
<1> QED BY <1>1, <1>2, <1>3, <1>4, <1>5, <1>6, <1>7 DEF Descriptor

\* Good is inductive.
LEMMA NextGood ==
  ASSUME Good, [Next]_vars
  PROVE  Good'
<1>1. ASSUME NEW p \in Procs, Step(p) PROVE Good'
  <2>1. CASE IlockPanics(p) BY <2>1, KeepsGood DEF IlockPanics
  <2> QED BY <1>1, <2>1, PathGood, DescriptorGood, EndOpGood, IputLastGood, IputFreeGood,
    IputDropGood DEF Step
<1>2. CASE UNCHANGED vars BY <1>2, KeepsGood DEF vars
<1>3. CASE Quiet BY <1>2, <1>3 DEF Quiet
<1> QED BY <1>1, <1>2, <1>3, CommitGood, CrashGood DEF Next

\* Good holds in every state.
THEOREM GoodAlways == Spec => []Good
<1>1. Init => Good BY InitGood
<1>2. Good /\ [Next]_vars => Good' BY NextGood
<1> QED BY <1>1, <1>2, PTL DEF Spec

\* TypeOK: every variable holds what its declaration in fs.c, file.c and sysfile.c says,
\* and no reference count of an inode or of a file is ever negative, whatever calls run
\* at once and wherever a crash interrupts them.
THEOREM TypesCorrect == Spec => []TypeOK
<1>1. Good => TypeOK
  <2> SUFFICES ASSUME Good PROVE TypeOK
    OBVIOUS
  <2>1. Typed /\ RefsOK /\ FilesOK BY DEF Good, Core
  <2>2. \A i \in Inums : ref[i] \in Nat
    <3>1. ASSUME NEW i \in Inums PROVE ref[i] \in Nat
      <4>1. /\ Count(CwdRef, i) \in Nat /\ Count(FileRef, i) \in Nat /\ Count(cur, i) \in Nat
            /\ Count(IpRef, i) \in Nat /\ Count(dp, i) \in Nat /\ Count(Put1Ref, i) \in Nat
            /\ Count(Put2Ref, i) \in Nat
        BY <2>1, CountsAre
      <4>2. ref[i] = References(i) BY <2>1 DEF RefsOK
      <4> QED BY <4>1, <4>2 DEF References
    <3> QED BY <3>1
  <2>3. \A f \in Files : ftable[f].ref \in Nat /\ ftable[f].ip \in Inums \cup {None}
    <3>1. ASSUME NEW f \in Files PROVE ftable[f].ref \in Nat
      <4>1. DOMAIN Descriptors = Procs \X Fds BY DEF Descriptors
      <4>2. Count(Descriptors, f) \in Nat BY <4>1, ProcsFinite, CountIs
      <4> QED BY <2>1, <4>2 DEF FilesOK
    <3> QED BY <2>1, <3>1 DEF Typed, FilesTyped, FileIs
  <2>4. \A p \in Procs :
          /\ cwd[p] \in Inums /\ {cur[p], ip[p], dp[p]} \subseteq Inums \cup {None}
          /\ ofile[p] \in [Fds -> Files \cup {None}]
          /\ rest[p] \in Seq(STRING) /\ puts[p] \in Seq(Inums)
    BY <2>1 DEF Typed, FilesTyped, ProcsTyped
  <2>5. /\ IsDisk(disk) /\ IsDisk(durable) /\ active \subseteq Procs
        /\ \A i \in Inums : (copy[i] # NotRead => IsInode(copy[i]))
             /\ lock[i] \in Procs \cup {Nobody}
    BY <2>1 DEF Typed, DiskTyped, TableTyped
  <2> QED BY <2>2, <2>3, <2>4, <2>5 DEF TypeOK
<1> QED BY <1>1, GoodAlways, PTL

\* BlocksExclusive: bmap() and balloc(), itrunc() and bfree() never leave a block in two
\* inodes, twice in one, or in one and free in the bitmap, as the running calls see them.
THEOREM BlocksNeverShared == Spec => []BlocksExclusive
<1>1. Good => BlocksExclusive BY DEF Good, Core, BlocksExclusive
<1> QED BY <1>1, GoodAlways, PTL

\* DurableSound: what a crash finds on the disk is a file system, at every moment of
\* every interleaving of calls and commits: blocks have one owner, and, unless a path has
\* led through the ".." of a removed directory, no inode has more links than nlink says.
THEOREM CrashesLeaveSound == Spec => []DurableSound
<1>1. Good => DurableSound BY DEF Good, Core, Sound, DurableSound
<1> QED BY <1>1, GoodAlways, PTL

\* The pairs of a name and a member of a set.
Tagged(t, S) == {<<t, x>> : x \in S}

\* Pairing keeps the number.
LEMMA TaggedIs ==
  ASSUME NEW S, IsFiniteSet(S), NEW t
  PROVE  IsFiniteSet(Tagged(t, S)) /\ Cardinality(Tagged(t, S)) = Cardinality(S)
<1> DEFINE f == [x \in S |-> <<t, x>>]
<1>1. f \in Bijection(S, Tagged(t, S))
  BY DEF Tagged, Bijection, Injection, Surjection, IsInjective
<1>2. ExistsBijection(S, Tagged(t, S)) BY <1>1 DEF ExistsBijection
<1> QED BY <1>2, FS_Bijection

\* Sets without common members.
LEMMA DisjointUnion ==
  ASSUME NEW S, NEW T, IsFiniteSet(S), IsFiniteSet(T), \A x \in S : x \notin T
  PROVE  IsFiniteSet(S \cup T) /\ Cardinality(S \cup T) = Cardinality(S) + Cardinality(T)
<1>1. S \cap T = {} OBVIOUS
<1>2. Cardinality(S \cap T) = 0 BY <1>1, FS_EmptySet
<1>3. Cardinality(S) \in Nat /\ Cardinality(T) \in Nat BY FS_CardinalityType
<1>4. /\ IsFiniteSet(S \cup T)
      /\ Cardinality(S \cup T) = Cardinality(S) + Cardinality(T) - Cardinality(S \cap T)
  BY FS_Union
<1> QED BY <1>2, <1>3, <1>4

\* The references of the k-th iput().
PutSet(k, i) == {p \in Procs : k \in DOMAIN puts[p] /\ puts[p][k] = i}
PutPairs(k, i) == {<<"put", p, k>> : p \in PutSet(k, i)}

\* A process has one k-th iput().
LEMMA PutPairsIs ==
  ASSUME NEW k, NEW i
  PROVE  IsFiniteSet(PutPairs(k, i)) /\ Cardinality(PutPairs(k, i)) = Cardinality(PutSet(k, i))
<1> DEFINE f == [p \in PutSet(k, i) |-> <<"put", p, k>>]
<1>0. IsFiniteSet(PutSet(k, i)) BY ProcsFinite, FS_Subset DEF PutSet
<1>1. f \in Bijection(PutSet(k, i), PutPairs(k, i))
  BY DEF PutPairs, Bijection, Injection, Surjection, IsInjective
<1>2. ExistsBijection(PutSet(k, i), PutPairs(k, i)) BY <1>1 DEF ExistsBijection
<1> QED BY <1>0, <1>2, FS_Bijection

\* The members of Holders(i), kind by kind.
CwdSet(i)  == {q \in Procs : cwd[q] = i /\ pc[q] # "chdir"}
FileSet(i) == {f \in Files : ftable[f].ref > 0 /\ ftable[f].ip = i}
CurSet(i)  == {q \in Procs : cur[q] = i}
IpSet(i)   == {q \in Procs : ip[q] = i /\ pc[q] # "truncating"}
DpSet(i)   == {q \in Procs : dp[q] = i}

\* The holders of i, in these sets.
LEMMA HoldersAre ==
  ASSUME Typed, Shaped, NEW i
  PROVE  Holders(i) = Tagged("cwd", CwdSet(i)) \cup Tagged("file",
    FileSet(i)) \cup Tagged("cur", CurSet(i))
                       \cup Tagged("ip", IpSet(i)) \cup Tagged("dp", DpSet(i))
                       \cup (PutPairs(1, i) \cup PutPairs(2, i))
<1> DEFINE P == UNION {{<<"put", p,
      k>> : k \in {m \in DOMAIN puts[p] : puts[p][m] = i}} : p \in Procs}
<1>1. P = PutPairs(1, i) \cup PutPairs(2, i)
  <2>1. \A p \in Procs : DOMAIN puts[p] \subseteq {1, 2}
    <3>1. ASSUME NEW p \in Procs PROVE DOMAIN puts[p] \subseteq {1, 2}
      <4>1. puts[p] \in Seq(Inums) /\ Len(puts[p]) <= 2 BY DEF Typed, ProcsTyped, Shaped, Shape
      <4>2. DOMAIN puts[p] = 1 .. Len(puts[p]) /\ Len(puts[p]) \in Nat BY <4>1
      <4> QED BY <4>1, <4>2
    <3> QED BY <3>1
  <2>2. ASSUME NEW h \in P PROVE h \in PutPairs(1, i) \cup PutPairs(2, i)
    <3>1. PICK p \in Procs : h \in {<<"put", p, k>> : k \in {m \in DOMAIN puts[p] : puts[p][m] = i}}
      BY <2>2
    <3>2. PICK k \in DOMAIN puts[p] : h = <<"put", p, k>> /\ puts[p][k] = i BY <3>1
    <3>3. k \in {1, 2} BY <2>1, <3>2
    <3>4. p \in PutSet(k, i) BY <3>2 DEF PutSet
    <3>5. h \in PutPairs(k, i) BY <3>2, <3>4 DEF PutPairs
    <3> QED BY <3>3, <3>5
  <2>3. ASSUME NEW k \in {1, 2}, NEW h \in PutPairs(k, i) PROVE h \in P
    <3>1. PICK p \in PutSet(k, i) : h = <<"put", p, k>> BY <2>3 DEF PutPairs
    <3>2. p \in Procs /\ k \in {m \in DOMAIN puts[p] : puts[p][m] = i} BY <3>1 DEF PutSet
    <3> QED BY <3>1, <3>2
  <2> QED BY <2>2, <2>3
<1> HIDE DEF P
<1>2. Holders(i) = Tagged("cwd", CwdSet(i)) \cup Tagged("file", FileSet(i)) \cup Tagged("cur",
        CurSet(i))
                    \cup Tagged("ip", IpSet(i)) \cup Tagged("dp", DpSet(i)) \cup P
  BY DEF Holders, Tagged, CwdSet, FileSet, CurSet, IpSet, DpSet, P
<1> QED BY <1>1, <1>2

\* Each set has as many members as its function counts.
LEMMA SetsAreCounts ==
  ASSUME Typed, Shaped, NEW i \in Inums
  PROVE  /\ Cardinality(CwdSet(i)) = Count(CwdRef, i) /\ IsFiniteSet(CwdSet(i))
         /\ Cardinality(FileSet(i)) = Count(FileRef, i) /\ IsFiniteSet(FileSet(i))
         /\ Cardinality(CurSet(i)) = Count(cur, i) /\ IsFiniteSet(CurSet(i))
         /\ Cardinality(IpSet(i)) = Count(IpRef, i) /\ IsFiniteSet(IpSet(i))
         /\ Cardinality(DpSet(i)) = Count(dp, i) /\ IsFiniteSet(DpSet(i))
         /\ Cardinality(PutSet(1, i)) = Count(Put1Ref, i)
         /\ Cardinality(PutSet(2, i)) = Count(Put2Ref, i)
<1>0. i # None BY NoneIs
<1>1. CwdSet(i) = {x \in DOMAIN CwdRef : CwdRef[x] = i} BY <1>0 DEF CwdSet, CwdRef
<1>2. FileSet(i) = {x \in DOMAIN FileRef : FileRef[x] = i} BY <1>0 DEF FileSet, FileRef
<1>3. CurSet(i) = {x \in DOMAIN cur : cur[x] = i} /\ DpSet(i) = {x \in DOMAIN dp : dp[x] = i}
  BY DEF CurSet, DpSet, Typed, ProcsTyped
<1>4. IpSet(i) = {x \in DOMAIN IpRef : IpRef[x] = i} BY <1>0 DEF IpSet, IpRef
<1>5. PutSet(1, i) = {x \in DOMAIN Put1Ref : Put1Ref[x] = i}
        /\ PutSet(2, i) = {x \in DOMAIN Put2Ref : Put2Ref[x] = i}
  <2>1. ASSUME NEW p \in Procs
        PROVE  /\ (1 \in DOMAIN puts[p] /\ puts[p][1] = i) <=> Put1(puts[p]) = i
               /\ (2 \in DOMAIN puts[p] /\ puts[p][2] = i) <=> Put2(puts[p]) = i
    <3>1. puts[p] \in Seq(Inums) BY DEF Typed, ProcsTyped
    <3>2. DOMAIN puts[p] = 1 .. Len(puts[p]) /\ Len(puts[p]) \in Nat
            /\ (puts[p] = <<>> <=> Len(puts[p]) = 0)
      BY <3>1
    <3>3. puts[p] # <<>> => Head(puts[p]) = puts[p][1] BY <3>1
    <3> QED BY <1>0, <3>2, <3>3 DEF Put1, Put2
  <2> QED BY <2>1 DEF PutSet, Put1Ref, Put2Ref
<1>6. /\ IsFiniteSet(CwdSet(i)) /\ IsFiniteSet(FileSet(i)) /\ IsFiniteSet(CurSet(i))
      /\ IsFiniteSet(IpSet(i))
      /\ IsFiniteSet(DpSet(i))
  <2>1. /\ CwdSet(i) \subseteq Procs /\ FileSet(i) \subseteq Files /\ CurSet(i) \subseteq Procs
        /\ IpSet(i) \subseteq Procs /\ DpSet(i) \subseteq Procs
    BY DEF CwdSet, FileSet, CurSet, IpSet, DpSet
  <2> QED BY <2>1, ProcsFinite, FS_Subset
<1> QED BY <1>1, <1>2, <1>3, <1>4, <1>5, <1>6 DEF Count

\* So the holders of i are as many as its references.
LEMMA HoldersCounted ==
  ASSUME Typed, Shaped, NEW i \in Inums
  PROVE  Cardinality(Holders(i)) = References(i)
<1> DEFINE A == Tagged("cwd", CwdSet(i))
           B == Tagged("file", FileSet(i))
           C == Tagged("cur", CurSet(i))
           D1 == Tagged("ip", IpSet(i))
           E == Tagged("dp", DpSet(i))
           F == PutPairs(1, i)
           G == PutPairs(2, i)
<1>1. /\ \A h \in A : h[1] = "cwd"
      /\ \A h \in B : h[1] = "file"
      /\ \A h \in C : h[1] = "cur"
      /\ \A h \in D1 : h[1] = "ip"
      /\ \A h \in E : h[1] = "dp"
      /\ \A h \in F : h[1] = "put" /\ h[3] = 1
      /\ \A h \in G : h[1] = "put" /\ h[3] = 2
  BY DEF Tagged, PutPairs
<1>2. /\ IsFiniteSet(A) /\ Cardinality(A) = Count(CwdRef, i)
      /\ IsFiniteSet(B) /\ Cardinality(B) = Count(FileRef, i)
      /\ IsFiniteSet(C) /\ Cardinality(C) = Count(cur, i)
      /\ IsFiniteSet(D1) /\ Cardinality(D1) = Count(IpRef, i)
      /\ IsFiniteSet(E) /\ Cardinality(E) = Count(dp, i)
      /\ IsFiniteSet(F) /\ Cardinality(F) = Count(Put1Ref, i)
      /\ IsFiniteSet(G) /\ Cardinality(G) = Count(Put2Ref, i)
  BY SetsAreCounts, TaggedIs, PutPairsIs
<1>3. Holders(i) = A \cup B \cup C \cup D1 \cup E \cup (F \cup G) BY HoldersAre
<1> HIDE DEF A, B, C, D1, E, F, G
<1>4. IsFiniteSet(A \cup B) /\ Cardinality(A \cup B) = Cardinality(A) + Cardinality(B)
  BY <1>1, <1>2, DisjointUnion
<1>5. IsFiniteSet(A \cup B \cup C)
        /\ Cardinality(A \cup B \cup C) = Cardinality(A \cup B) + Cardinality(C)
  <2>1. \A h \in A \cup B : h \notin C BY <1>1
  <2> QED BY <1>2, <1>4, <2>1, DisjointUnion
<1>6. IsFiniteSet(A \cup B \cup C \cup D1)
        /\ Cardinality(A \cup B \cup C \cup D1) = Cardinality(A \cup B \cup C) + Cardinality(D1)
  <2>1. \A h \in A \cup B \cup C : h \notin D1 BY <1>1
  <2> QED BY <1>2, <1>5, <2>1, DisjointUnion
<1>7. IsFiniteSet(A \cup B \cup C \cup D1 \cup E)
        /\ Cardinality(A \cup B \cup C \cup D1 \cup E) = Cardinality(A \cup B \cup C \cup D1) + Cardinality(E)
  <2>1. \A h \in A \cup B \cup C \cup D1 : h \notin E BY <1>1
  <2> QED BY <1>2, <1>6, <2>1, DisjointUnion
<1>8. IsFiniteSet(F \cup G) /\ Cardinality(F \cup G) = Cardinality(F) + Cardinality(G)
  <2>1. \A h \in F : h \notin G BY <1>1
  <2> QED BY <1>2, <2>1, DisjointUnion
<1>9. Cardinality(Holders(i)) = Cardinality(A \cup B \cup C \cup D1 \cup E) + Cardinality(F \cup G)
  <2>1. \A h \in A \cup B \cup C \cup D1 \cup E : h \notin F \cup G BY <1>1
  <2> QED BY <1>3, <1>7, <1>8, <2>1, DisjointUnion
<1>10. /\ Count(CwdRef, i) \in Nat /\ Count(FileRef, i) \in Nat /\ Count(cur, i) \in Nat
       /\ Count(IpRef, i) \in Nat /\ Count(dp, i) \in Nat /\ Count(Put1Ref, i) \in Nat
       /\ Count(Put2Ref, i) \in Nat
  BY CountsAre
<1> QED BY <1>2, <1>4, <1>5, <1>6, <1>7, <1>8, <1>9, <1>10 DEF References

\* RefsCounted: the ref of an inode in the table is the number of working directories,
\* open files and calls that hold it; no way through a call, an error path included,
\* leaks or drops twice a reference of iget(), idup() or iput(); f->ref is the number of
\* descriptors; and iput() frees no inode that somebody else still refers to.
THEOREM ReferencesExact == Spec => []RefsCounted
<1>1. Good => RefsCounted
  <2> SUFFICES ASSUME Good PROVE RefsCounted
    OBVIOUS
  <2>1. Typed /\ Shaped /\ RefsOK /\ FilesOK /\ Coherent BY DEF Good, Core
  <2>2. \A i \in Inums : ref[i] = Cardinality(Holders(i)) BY <2>1, HoldersCounted DEF RefsOK
  <2>3. ASSUME NEW f \in Files
        PROVE  ftable[f].ref = Cardinality({x \in Procs \X Fds : ofile[x[1]][x[2]] = f})
    <3>1. {x \in DOMAIN Descriptors : Descriptors[x] = f} = {x \in Procs \X Fds : ofile[x[1]][x[2]] = f}
      BY DEF Descriptors
    <3> QED BY <2>1, <3>1 DEF FilesOK, Count
  <2>4. ASSUME Sound, NEW i \in Inums, NEW h \in Holders(i), h[1] # "put"
          PROVE disk.ino[i].type # "free"
    <3>1. \/ h \in Tagged("cwd", CwdSet(i)) \/ h \in Tagged("file", FileSet(i))
          \/ h \in Tagged("cur", CurSet(i)) \/ h \in Tagged("ip", IpSet(i))
          \/ h \in Tagged("dp", DpSet(i)) \/ h \in PutPairs(1, i) \/ h \in PutPairs(2, i)
      BY <2>1, HoldersAre
    <3>2. h \notin PutPairs(1, i) /\ h \notin PutPairs(2, i) BY <2>4 DEF PutPairs
    <3>3. Held(i)
      BY <3>1, <3>2 DEF Tagged, CwdSet, FileSet, CurSet, IpSet, DpSet, Held, Holds, InFile
    <3>4. View[i].type # "free" /\ View[i] = Inode(i)
      BY <2>1, <2>4, <3>3, InodeIs DEF Sound, Alive
    <3> QED BY <2>1, <3>4 DEF Inode, Coherent
  <2>5. strayed \/ Sound BY DEF Good
  <2> QED BY <2>2, <2>3, <2>4, <2>5 DEF RefsCounted
<1> QED BY <1>1, GoodAlways, PTL

-----
\* The order of the locks: what the calls know of the inodes they have,
\* and ranks of directories.
\* What the processes know of the types of the inodes they have found.
Linking == {"walk", "parent", "giveUp", "linkBad"}
Knows(p) ==
  /\ dp[p] # None => disk.ino[dp[p]].type = "dir"
  /\ pc[p] \in Linking /\ ip[p] # None => disk.ino[ip[p]].type \notin {"dir", "free"}
  /\ pc[p] = "truncating" => disk.ino[ip[p]].type = "file"

\* The rank of a directory: names lead to directories of lower rank, and the inode
\* that create() makes is to be below its parent.
Ranks(rank) ==
  Descends(disk.ino, rank) /\ \A p \in Procs : pc[p] = "new" => rank[ip[p]] < rank[dp[p]]

\* The inodes p knows the type of.
Depends(p, i) == dp[p] = i \/ (ip[p] = i /\ pc[p] \in Linking \cup {"truncating"})

\* FreesAlone: nobody depends on the type of an inode that is being freed.
FreesAlone == \A p, q \in Procs : \A i \in Inums : Freeing(p, i) => ~ Depends(q, i)

\* Ordered: the calls know the types they act on, and there is a rank for the
\* directories of the disk and of the durable disk.  Locks are taken down the names
\* only, so along falling ranks, and no cycle of waiting processes can close.
Ordered ==
  /\ \A p \in Procs : Knows(p)
  /\ FreesAlone
  /\ \E rank \in [Inums -> Nat] : Ranks(rank)
  /\ \E rank \in [Inums -> Nat] : Descends(durable.ino, rank)

\* No inode changes its type but a free one, or one that nobody else depends on.
LEMMA KnowsKept ==
  ASSUME \A q \in Procs : Knows(q), Typed, NEW p \in Procs, Others(p), Knows(p)',
         \A q \in Procs : pc[q] = "truncating" => ip[q] # None,
         \A i \in Inums : \/ disk'.ino[i].type = disk.ino[i].type
                          \/ disk.ino[i].type = "free"
                          \/ \A q \in Procs \ {p} : ~ Depends(q, i)
  PROVE  \A q \in Procs : Knows(q)'
<1>1. ASSUME NEW q \in Procs \ {p} PROVE Knows(q)'
  <2>1. Knows(q) /\ pc'[q] = pc[q] /\ ip'[q] = ip[q] /\ dp'[q] = dp[q]
        /\ dp[q] \in Inums \cup {None} /\ ip[q] \in Inums \cup {None}
    BY <1>1 DEF Others, Typed, ProcsTyped
  <2>2. dp[q] # None => disk'.ino[dp[q]].type = "dir" BY <1>1, <2>1 DEF Knows, Depends
  <2>3. pc[q] \in Linking /\ ip[q] # None => disk'.ino[ip[q]].type \notin {"dir", "free"}
    BY <1>1, <2>1 DEF Knows, Depends
  <2>4. pc[q] = "truncating" => disk'.ino[ip[q]].type = "file" BY <1>1, <2>1 DEF Knows, Depends
  <2> QED BY <2>1, <2>2, <2>3, <2>4 DEF Knows
<1> QED BY <1>1

\* Directories and their names: none is new, or one that d gets, for t.
FewerDirs(a, b) ==
  \A i \in Inums : b[i].type = "dir" =>
    a[i].type = "dir" /\ \A n \in DOMAIN b[i].ents \ Dots : n \in DOMAIN a[i].ents
      /\ b[i].ents[n] = a[i].ents[n]
OneNameMore(a, b, d, t) ==
  \A i \in Inums : b[i].type = "dir" =>
    a[i].type = "dir" /\ \A n \in DOMAIN b[i].ents \ Dots :
      (n \in DOMAIN a[i].ents /\ b[i].ents[n] = a[i].ents[n]) \/ (i = d /\ b[i].ents[n] = t)

\* The inodes keep their types; the directories may lose names.
SameTypes(a, b) == \A i \in Inums : b[i].type = a[i].type
FewerNames(a, b) == SameTypes(a, b) /\ FewerDirs(a, b)

\* A rank stays one when a name is made that leads down.
LEMMA DescendsMore ==
  ASSUME NEW a, NEW b, Inos(a), NEW d \in Inums, NEW t \in Inums, OneNameMore(a, b, d, t),
         NEW rank, Descends(a, rank), a[d].type = "dir" /\ a[t].type = "dir" => rank[t] < rank[d]
  PROVE  Descends(b, rank)
<1>1. ASSUME NEW i \in Inums, NEW n \in DOMAIN b[i].ents \ Dots,
             b[i].type = "dir", b[b[i].ents[n]].type = "dir"
      PROVE  rank[b[i].ents[n]] < rank[i]
  <2>1. a[i].type = "dir" BY <1>1 DEF OneNameMore
  <2>2. CASE n \in DOMAIN a[i].ents /\ b[i].ents[n] = a[i].ents[n]
    <3>1. a[i].ents[n] \in Inums BY <2>2, EntsAre DEF Inos
    <3>2. a[a[i].ents[n]].type = "dir" BY <1>1, <2>2, <3>1 DEF OneNameMore
    <3> QED BY <2>1, <2>2, <3>2 DEF Descends
  <2>3. CASE i = d /\ b[i].ents[n] = t
    <3>1. a[t].type = "dir" BY <1>1, <2>3 DEF OneNameMore
    <3> QED BY <2>1, <2>3, <3>1
  <2> QED BY <1>1, <2>2, <2>3 DEF OneNameMore
<1> QED BY <1>1 DEF Descends

\* And when names go.
LEMMA DescendsKept ==
  ASSUME NEW a, NEW b, Inos(a), FewerDirs(a, b), NEW rank, Descends(a, rank)
  PROVE  Descends(b, rank)
<1>1. ASSUME NEW i \in Inums, NEW n \in DOMAIN b[i].ents \ Dots,
             b[i].type = "dir", b[b[i].ents[n]].type = "dir"
      PROVE  rank[b[i].ents[n]] < rank[i]
  <2>1. n \in DOMAIN a[i].ents \ Dots /\ b[i].ents[n] = a[i].ents[n] /\ a[i].type = "dir"
    BY <1>1 DEF FewerDirs
  <2>2. a[i].ents[n] \in Inums BY <1>1, <2>1, EntsAre DEF Inos
  <2>3. a[a[i].ents[n]].type = "dir" BY <1>1, <2>1, <2>2 DEF FewerDirs
  <2> QED BY <2>1, <2>3 DEF Descends
<1> QED BY <1>1 DEF Descends

\* A step of p that makes no name and takes no inode.
Calm(p) ==
  /\ dp'[p] \in {dp[p], None}
  /\ pc'[p] \in Linking /\ ip'[p] # None => pc[p] \in Linking /\ ip'[p] = ip[p]
  /\ pc'[p] = "truncating" => pc[p] = "truncating" /\ ip'[p] = ip[p]
  /\ pc'[p] = "new" => pc[p] = "new" /\ ip'[p] = ip[p] /\ dp'[p] = dp[p]
  /\ put'[p] # "freeing"

\* Such a step of p leaves it what it knows.
LEMMA CalmKnows ==
  ASSUME Typed, NEW p \in Procs, Knows(p), Calm(p), pc[p] = "truncating" => ip[p] # None,
         \A i \in Inums : disk'.ino[i].type = disk.ino[i].type
  PROVE  Knows(p)'
<1>1. dp[p] \in Inums \cup {None} /\ ip[p] \in Inums \cup {None} BY DEF Typed, ProcsTyped
<1>2. dp'[p] # None => disk'.ino[dp'[p]].type = "dir" BY <1>1 DEF Knows, Calm
<1>3. pc'[p] \in Linking /\ ip'[p] # None => disk'.ino[ip'[p]].type \notin {"dir", "free"}
  BY <1>1 DEF Knows, Calm
<1>4. pc'[p] = "truncating" => disk'.ino[ip'[p]].type = "file" BY <1>1 DEF Knows, Calm
<1> QED BY <1>2, <1>3, <1>4 DEF Knows

\* The parts of Good that the order of the locks needs.
LEMMA TruncatingIs ==
  ASSUME Good
  PROVE  /\ Typed /\ Shaped /\ Locks /\ Coherent /\ RefsOK /\ FilesOK
         /\ \A q \in Procs : pc[q] = "truncating" => ip[q] # None
BY DEF Good, Core, Shaped, Shape, WithIp

\* Nobody comes to depend on an inode that another process has locked.
LEMMA FreesAloneKept ==
  ASSUME Good, FreesAlone, NEW p \in Procs, Others(p), put'[p] # "freeing",
         \A i \in Inums : Depends(p, i)' => Depends(p, i) \/ lock[i] \in {p, Nobody}
  PROVE  FreesAlone'
<1>1. ASSUME NEW q \in Procs, NEW r \in Procs, NEW i \in Inums, Freeing(q, i)'
      PROVE  ~ Depends(r, i)'
  <2>1. q # p /\ Freeing(q, i) BY <1>1 DEF Freeing, Others
  <2>2. lock[i] = q /\ q # Nobody BY <2>1, TruncatingIs, ProcsAssumption DEF Locks, HoldsLock
  <2>3. CASE r = p BY <2>1, <2>2, <2>3 DEF FreesAlone
  <2>4. CASE r # p
    <3>1. dp'[r] = dp[r] /\ ip'[r] = ip[r] /\ pc'[r] = pc[r] BY <2>4 DEF Others
    <3> QED BY <2>1, <3>1 DEF FreesAlone, Depends
  <2> QED BY <2>3, <2>4
<1> QED BY <1>1 DEF FreesAlone

\* A step of p that knows the types it has to know, and leaves the rest in order.
LEMMA TypesKeepOrder ==
  ASSUME Good, Ordered, NEW p \in Procs, Others(p), durable' = durable, Knows(p)',
         FewerNames(disk.ino, disk'.ino),
         pc'[p] = "new" => pc[p] = "new" /\ ip'[p] = ip[p] /\ dp'[p] = dp[p],
         put'[p] # "freeing",
         \A i \in Inums : Depends(p, i)' => Depends(p, i) \/ lock[i] \in {p, Nobody}
  PROVE  Ordered'
<1>1. Typed /\ \A q \in Procs : pc[q] = "truncating" => ip[q] # None BY TruncatingIs
<1>2. \A q \in Procs : Knows(q)' BY <1>1, KnowsKept DEF Ordered, FewerNames, SameTypes
<1>3. PICK rank \in [Inums -> Nat] : Ranks(rank) BY DEF Ordered
<1>4. Descends(disk'.ino, rank) BY <1>1, <1>3, DescendsKept, InodeIs DEF Ranks, FewerNames
<1>5. \A q \in Procs : pc'[q] = "new" => rank[ip'[q]] < rank[dp'[q]] BY <1>3 DEF Ranks, Others
<1>6. \E r \in [Inums -> Nat] : Ranks(r)' BY <1>3, <1>4, <1>5 DEF Ranks
<1>7. \E r \in [Inums -> Nat] : Descends(durable'.ino, r) BY DEF Ordered
<1>8. FreesAlone' BY FreesAloneKept DEF Ordered
<1> QED BY <1>2, <1>6, <1>7, <1>8 DEF Ordered

\* A calm step that makes no name.
LEMMA CalmKeepsOrder ==
  ASSUME Good, Ordered, NEW p \in Procs, Others(p), durable' = durable, Calm(p),
         FewerNames(disk.ino, disk'.ino)
  PROVE  Ordered'
<1>1. Typed /\ \A q \in Procs : pc[q] = "truncating" => ip[q] # None BY TruncatingIs
<1>2. Knows(p)' BY <1>1, CalmKnows DEF Ordered, FewerNames, SameTypes
<1>3. \A i \in Inums : Depends(p, i)' => Depends(p, i) BY NoneIs DEF Calm, Depends
<1> QED BY <1>2, <1>3, TypesKeepOrder DEF Calm

\* The disk as it is.
LEMMA SameNames == \A a : FewerNames(a, a)
BY DEF FewerNames, SameTypes, FewerDirs

-----
\* The steps keep Ordered: those that make no name.
\* end_op().
LEMMA EndOpOrder ==
  ASSUME Good, Ordered, NEW p \in Procs, EndOp(p)
  PROVE  Ordered'
<1>1. Typed /\ Shape(p) BY DEF Good, Core, Shaped
<1>2. Others(p)
  BY <1>1 DEF Typed, ProcsTyped, FilesTyped, Others, EndOp, At, Putting, Goto, Iputs, DropDp,
    Iget, Reads, Ilock, OnFile, Failed, table, files, walk, locals, bounds, D!Begin, D!End
<1>3. Calm(p)
  BY <1>1 DEF Typed, ProcsTyped, Calm, Linking, Shape, WithIp, NoPuts, EndOp, At, Putting, Goto,
    Iputs, DropDp, Iget, Reads, Ilock, OnFile, Failed, table, files, walk, locals, bounds,
    D!Begin, D!End
<1>4. disk' = disk /\ durable' = durable
  BY DEF EndOp, At, Putting, Goto, Iputs, DropDp, Iget, Reads, Ilock, OnFile, Failed, table,
    files, walk, locals, bounds, D!Begin, D!End
<1> QED BY <1>2, <1>3, <1>4, CalmKeepsOrder, SameNames

\* namex() has come to the end of the path.
LEMMA WalkEndOrder ==
  ASSUME Good, Ordered, NEW p \in Procs, WalkEnd(p)
  PROVE  Ordered'
<1>1. Typed /\ Shape(p) BY DEF Good, Core, Shaped
<1>2. Others(p)
  BY <1>1 DEF Typed, ProcsTyped, FilesTyped, Others, WalkEnd, At, Putting, Goto, Iputs, DropDp,
    Iget, Reads, Ilock, OnFile, Failed, table, files, walk, locals, bounds, D!Begin, D!End
<1>3. Calm(p)
  BY <1>1 DEF Typed, ProcsTyped, Calm, Linking, Shape, WithIp, NoPuts, WalkEnd, At, Putting,
    Goto, Iputs, DropDp, Iget, Reads, Ilock, OnFile, Failed, table, files, walk, locals, bounds,
    D!Begin, D!End
<1>4. disk' = disk /\ durable' = durable
  BY DEF WalkEnd, At, Putting, Goto, Iputs, DropDp, Iget, Reads, Ilock, OnFile, Failed, table,
    files, walk, locals, bounds, D!Begin, D!End
<1> QED BY <1>2, <1>3, <1>4, CalmKeepsOrder, SameNames

\* create() finds the name.
LEMMA CreateExistsOrder ==
  ASSUME Good, Ordered, NEW p \in Procs, CreateExists(p)
  PROVE  Ordered'
<1>1. Typed /\ Shape(p) BY DEF Good, Core, Shaped
<1>2. Others(p)
  BY <1>1 DEF Typed, ProcsTyped, FilesTyped, Others, CreateExists, At, Putting, Goto, Iputs,
    DropDp, Iget, Reads, Ilock, OnFile, Failed, table, files, walk, locals, bounds, D!Begin,
    D!End
<1>3. Calm(p)
  BY <1>1 DEF Typed, ProcsTyped, Calm, Linking, Shape, WithIp, NoPuts, CreateExists, At,
    Putting, Goto, Iputs, DropDp, Iget, Reads, Ilock, OnFile, Failed, table, files, walk,
    locals, bounds, D!Begin, D!End
<1>4. disk' = disk /\ durable' = durable
  BY DEF CreateExists, At, Putting, Goto, Iputs, DropDp, Iget, Reads, Ilock, OnFile, Failed,
    table, files, walk, locals, bounds, D!Begin, D!End
<1> QED BY <1>2, <1>3, <1>4, CalmKeepsOrder, SameNames

\* A call gives up, and puts what it has.
LEMMA GiveUpOrder ==
  ASSUME Good, Ordered, NEW p \in Procs, GiveUp(p)
  PROVE  Ordered'
<1>1. Typed /\ Shape(p) BY DEF Good, Core, Shaped
<1>2. Others(p)
  BY <1>1 DEF Typed, ProcsTyped, FilesTyped, Others, GiveUp, At, Putting, Goto, Iputs, DropDp,
    Iget, Reads, Ilock, OnFile, Failed, table, files, walk, locals, bounds, D!Begin, D!End
<1>3. Calm(p)
  BY <1>1 DEF Typed, ProcsTyped, Calm, Linking, Shape, WithIp, NoPuts, GiveUp, At, Putting,
    Goto, Iputs, DropDp, Iget, Reads, Ilock, OnFile, Failed, table, files, walk, locals, bounds,
    D!Begin, D!End
<1>4. disk' = disk /\ durable' = durable
  BY DEF GiveUp, At, Putting, Goto, Iputs, DropDp, Iget, Reads, Ilock, OnFile, Failed, table,
    files, walk, locals, bounds, D!Begin, D!End
<1> QED BY <1>2, <1>3, <1>4, CalmKeepsOrder, SameNames

\* mkdir() and mknod() are done with the inode.
LEMMA MadeOrder ==
  ASSUME Good, Ordered, NEW p \in Procs, Made(p)
  PROVE  Ordered'
<1>1. Typed /\ Shape(p) BY DEF Good, Core, Shaped
<1>2. Others(p)
  BY <1>1 DEF Typed, ProcsTyped, FilesTyped, Others, Made, At, Putting, Goto, Iputs, DropDp,
    Iget, Reads, Ilock, OnFile, Failed, table, files, walk, locals, bounds, D!Begin, D!End
<1>3. Calm(p)
  BY <1>1 DEF Typed, ProcsTyped, Calm, Linking, Shape, WithIp, NoPuts, Made, At, Putting, Goto,
    Iputs, DropDp, Iget, Reads, Ilock, OnFile, Failed, table, files, walk, locals, bounds,
    D!Begin, D!End
<1>4. disk' = disk /\ durable' = durable
  BY DEF Made, At, Putting, Goto, Iputs, DropDp, Iget, Reads, Ilock, OnFile, Failed, table,
    files, walk, locals, bounds, D!Begin, D!End
<1> QED BY <1>2, <1>3, <1>4, CalmKeepsOrder, SameNames

\* open() has found its inode and locks it.
LEMMA OpenFoundOrder ==
  ASSUME Good, Ordered, NEW p \in Procs, OpenFound(p)
  PROVE  Ordered'
<1>1. Typed /\ Shape(p) BY DEF Good, Core, Shaped
<1>2. Others(p)
  BY <1>1 DEF Typed, ProcsTyped, FilesTyped, Others, OpenFound, At, Putting, Goto, Iputs,
    DropDp, Iget, Reads, Ilock, OnFile, Failed, table, files, walk, locals, bounds, D!Begin,
    D!End
<1>3. Calm(p)
  BY <1>1 DEF Typed, ProcsTyped, Calm, Linking, Shape, WithIp, NoPuts, OpenFound, At, Putting,
    Goto, Iputs, DropDp, Iget, Reads, Ilock, OnFile, Failed, table, files, walk, locals, bounds,
    D!Begin, D!End
<1>4. disk' = disk /\ durable' = durable
  BY DEF OpenFound, At, Putting, Goto, Iputs, DropDp, Iget, Reads, Ilock, OnFile, Failed, table,
    files, walk, locals, bounds, D!Begin, D!End
<1> QED BY <1>2, <1>3, <1>4, CalmKeepsOrder, SameNames

\* unlink() looks the name up.
LEMMA UnlinkOrder ==
  ASSUME Good, Ordered, NEW p \in Procs, Unlink(p)
  PROVE  Ordered'
<1>1. Typed /\ Shape(p) BY DEF Good, Core, Shaped
<1>2. Others(p)
  BY <1>1 DEF Typed, ProcsTyped, FilesTyped, Others, Unlink, At, Putting, Goto, Iputs, DropDp,
    Iget, Reads, Ilock, OnFile, Failed, table, files, walk, locals, bounds, D!Begin, D!End
<1>3. Calm(p)
  BY <1>1 DEF Typed, ProcsTyped, Calm, Linking, Shape, WithIp, NoPuts, Unlink, At, Putting,
    Goto, Iputs, DropDp, Iget, Reads, Ilock, OnFile, Failed, table, files, walk, locals, bounds,
    D!Begin, D!End
<1>4. disk' = disk /\ durable' = durable
  BY DEF Unlink, At, Putting, Goto, Iputs, DropDp, Iget, Reads, Ilock, OnFile, Failed, table,
    files, walk, locals, bounds, D!Begin, D!End
<1> QED BY <1>2, <1>3, <1>4, CalmKeepsOrder, SameNames

\* chdir() checks its inode.
LEMMA ChdirOrder ==
  ASSUME Good, Ordered, NEW p \in Procs, Chdir(p)
  PROVE  Ordered'
<1>1. Typed /\ Shape(p) BY DEF Good, Core, Shaped
<1>2. Others(p)
  BY <1>1 DEF Typed, ProcsTyped, FilesTyped, Others, Chdir, At, Putting, Goto, Iputs, DropDp,
    Iget, Reads, Ilock, OnFile, Failed, table, files, walk, locals, bounds, D!Begin, D!End
<1>3. Calm(p)
  BY <1>1 DEF Typed, ProcsTyped, Calm, Linking, Shape, WithIp, NoPuts, Chdir, At, Putting, Goto,
    Iputs, DropDp, Iget, Reads, Ilock, OnFile, Failed, table, files, walk, locals, bounds,
    D!Begin, D!End
<1>4. disk' = disk /\ durable' = durable
  BY DEF Chdir, At, Putting, Goto, Iputs, DropDp, Iget, Reads, Ilock, OnFile, Failed, table,
    files, walk, locals, bounds, D!Begin, D!End
<1> QED BY <1>2, <1>3, <1>4, CalmKeepsOrder, SameNames

\* chdir() changes the working directory.
LEMMA ChdirEndOrder ==
  ASSUME Good, Ordered, NEW p \in Procs, ChdirEnd(p)
  PROVE  Ordered'
<1>1. Typed /\ Shape(p) BY DEF Good, Core, Shaped
<1>2. Others(p)
  BY <1>1 DEF Typed, ProcsTyped, FilesTyped, Others, ChdirEnd, At, Putting, Goto, Iputs, DropDp,
    Iget, Reads, Ilock, OnFile, Failed, table, files, walk, locals, bounds, D!Begin, D!End
<1>3. Calm(p)
  BY <1>1 DEF Typed, ProcsTyped, Calm, Linking, Shape, WithIp, NoPuts, ChdirEnd, At, Putting,
    Goto, Iputs, DropDp, Iget, Reads, Ilock, OnFile, Failed, table, files, walk, locals, bounds,
    D!Begin, D!End
<1>4. disk' = disk /\ durable' = durable
  BY DEF ChdirEnd, At, Putting, Goto, Iputs, DropDp, Iget, Reads, Ilock, OnFile, Failed, table,
    files, walk, locals, bounds, D!Begin, D!End
<1> QED BY <1>2, <1>3, <1>4, CalmKeepsOrder, SameNames

\* fileclose() puts the inode in a transaction of its own.
LEMMA CloseInodeOrder ==
  ASSUME Good, Ordered, NEW p \in Procs, CloseInode(p)
  PROVE  Ordered'
<1>1. Typed /\ Shape(p) BY DEF Good, Core, Shaped
<1>2. Others(p)
  BY <1>1 DEF Typed, ProcsTyped, FilesTyped, Others, CloseInode, At, Putting, Goto, Iputs,
    DropDp, Iget, Reads, Ilock, OnFile, Failed, table, files, walk, locals, bounds, D!Begin,
    D!End
<1>3. Calm(p)
  BY <1>1 DEF Typed, ProcsTyped, Calm, Linking, Shape, WithIp, NoPuts, CloseInode, At, Putting,
    Goto, Iputs, DropDp, Iget, Reads, Ilock, OnFile, Failed, table, files, walk, locals, bounds,
    D!Begin, D!End
<1>4. disk' = disk /\ durable' = durable
  BY DEF CloseInode, At, Putting, Goto, Iputs, DropDp, Iget, Reads, Ilock, OnFile, Failed,
    table, files, walk, locals, bounds, D!Begin, D!End
<1> QED BY <1>2, <1>3, <1>4, CalmKeepsOrder, SameNames

\* filewrite() begins a transaction.
LEMMA WriteBeginOrder ==
  ASSUME Good, Ordered, NEW p \in Procs, WriteBegin(p)
  PROVE  Ordered'
<1>1. Typed /\ Shape(p) BY DEF Good, Core, Shaped
<1>2. Others(p)
  BY <1>1 DEF Typed, ProcsTyped, FilesTyped, Others, WriteBegin, At, Putting, Goto, Iputs,
    DropDp, Iget, Reads, Ilock, OnFile, Failed, table, files, walk, locals, bounds, D!Begin,
    D!End
<1>3. Calm(p)
  BY <1>1 DEF Typed, ProcsTyped, Calm, Linking, Shape, WithIp, NoPuts, WriteBegin, At, Putting,
    Goto, Iputs, DropDp, Iget, Reads, Ilock, OnFile, Failed, table, files, walk, locals, bounds,
    D!Begin, D!End
<1>4. disk' = disk /\ durable' = durable
  BY DEF WriteBegin, At, Putting, Goto, Iputs, DropDp, Iget, Reads, Ilock, OnFile, Failed,
    table, files, walk, locals, bounds, D!Begin, D!End
<1> QED BY <1>2, <1>3, <1>4, CalmKeepsOrder, SameNames

\* iput() drops a reference.
LEMMA IputDropOrder ==
  ASSUME Good, Ordered, NEW p \in Procs, IputDrop(p)
  PROVE  Ordered'
<1>1. Typed /\ Shape(p) BY DEF Good, Core, Shaped
<1>2. Others(p)
  BY <1>1 DEF Typed, ProcsTyped, FilesTyped, Others, IputDrop, At, Putting, Goto, Iputs, DropDp,
    Iget, Reads, Ilock, OnFile, Failed, table, files, walk, locals, bounds, D!Begin, D!End
<1>3. Calm(p)
  BY <1>1 DEF Typed, ProcsTyped, Calm, Linking, Shape, WithIp, NoPuts, IputDrop, At, Putting,
    Goto, Iputs, DropDp, Iget, Reads, Ilock, OnFile, Failed, table, files, walk, locals, bounds,
    D!Begin, D!End
<1>4. disk' = disk /\ durable' = durable
  BY DEF IputDrop, At, Putting, Goto, Iputs, DropDp, Iget, Reads, Ilock, OnFile, Failed, table,
    files, walk, locals, bounds, D!Begin, D!End
<1> QED BY <1>2, <1>3, <1>4, CalmKeepsOrder, SameNames

\* dup().
LEMMA DupOrder ==
  ASSUME Good, Ordered, NEW p \in Procs, NEW d \in Fds, Dup(p, d)
  PROVE  Ordered'
<1>1. Typed /\ Shape(p) BY DEF Good, Core, Shaped
<1>2. Others(p)
  BY <1>1 DEF Typed, ProcsTyped, FilesTyped, Others, Dup, At, Putting, Goto, Iputs, DropDp,
    Iget, Reads, Ilock, OnFile, Failed, table, files, walk, locals, bounds, D!Begin, D!End
<1>3. Calm(p)
  BY <1>1 DEF Typed, ProcsTyped, Calm, Linking, Shape, WithIp, NoPuts, Dup, At, Putting, Goto,
    Iputs, DropDp, Iget, Reads, Ilock, OnFile, Failed, table, files, walk, locals, bounds,
    D!Begin, D!End
<1>4. disk' = disk /\ durable' = durable
  BY DEF Dup, At, Putting, Goto, Iputs, DropDp, Iget, Reads, Ilock, OnFile, Failed, table,
    files, walk, locals, bounds, D!Begin, D!End
<1> QED BY <1>2, <1>3, <1>4, CalmKeepsOrder, SameNames

\* close() drops a descriptor.
LEMMA CloseOrder ==
  ASSUME Good, Ordered, NEW p \in Procs, NEW d \in Fds, Close(p, d)
  PROVE  Ordered'
<1>1. Typed /\ Shape(p) BY DEF Good, Core, Shaped
<1>2. Others(p)
  BY <1>1 DEF Typed, ProcsTyped, FilesTyped, Others, Close, At, Putting, Goto, Iputs, DropDp,
    Iget, Reads, Ilock, OnFile, Failed, table, files, walk, locals, bounds, D!Begin, D!End
<1>3. Calm(p)
  BY <1>1 DEF Typed, ProcsTyped, Calm, Linking, Shape, WithIp, NoPuts, Close, At, Putting, Goto,
    Iputs, DropDp, Iget, Reads, Ilock, OnFile, Failed, table, files, walk, locals, bounds,
    D!Begin, D!End
<1>4. disk' = disk /\ durable' = durable
  BY DEF Close, At, Putting, Goto, Iputs, DropDp, Iget, Reads, Ilock, OnFile, Failed, table,
    files, walk, locals, bounds, D!Begin, D!End
<1> QED BY <1>2, <1>3, <1>4, CalmKeepsOrder, SameNames

\* read().
LEMMA ReadOrder ==
  ASSUME Good, Ordered, NEW p \in Procs, NEW d \in Fds, Read(p, d)
  PROVE  Ordered'
<1>1. Typed /\ Shape(p) BY DEF Good, Core, Shaped
<1>2. Others(p)
  BY <1>1 DEF Typed, ProcsTyped, FilesTyped, Others, Read, At, Putting, Goto, Iputs, DropDp,
    Iget, Reads, Ilock, OnFile, Failed, table, files, walk, locals, bounds, D!Begin, D!End
<1>3. Calm(p)
  BY <1>1 DEF Typed, ProcsTyped, Calm, Linking, Shape, WithIp, NoPuts, Read, At, Putting, Goto,
    Iputs, DropDp, Iget, Reads, Ilock, OnFile, Failed, table, files, walk, locals, bounds,
    D!Begin, D!End
<1>4. disk' = disk /\ durable' = durable
  BY DEF Read, At, Putting, Goto, Iputs, DropDp, Iget, Reads, Ilock, OnFile, Failed, table,
    files, walk, locals, bounds, D!Begin, D!End
<1> QED BY <1>2, <1>3, <1>4, CalmKeepsOrder, SameNames

\* write() begins.
LEMMA WriteOrder ==
  ASSUME Good, Ordered, NEW p \in Procs, NEW d \in Fds, Write(p, d)
  PROVE  Ordered'
<1>1. Typed /\ Shape(p) BY DEF Good, Core, Shaped
<1>2. Others(p)
  BY <1>1 DEF Typed, ProcsTyped, FilesTyped, Others, Write, At, Putting, Goto, Iputs, DropDp,
    Iget, Reads, Ilock, OnFile, Failed, table, files, walk, locals, bounds, D!Begin, D!End
<1>3. Calm(p)
  BY <1>1 DEF Typed, ProcsTyped, Calm, Linking, Shape, WithIp, NoPuts, Write, At, Putting, Goto,
    Iputs, DropDp, Iget, Reads, Ilock, OnFile, Failed, table, files, walk, locals, bounds,
    D!Begin, D!End
<1>4. disk' = disk /\ durable' = durable
  BY DEF Write, At, Putting, Goto, Iputs, DropDp, Iget, Reads, Ilock, OnFile, Failed, table,
    files, walk, locals, bounds, D!Begin, D!End
<1> QED BY <1>2, <1>3, <1>4, CalmKeepsOrder, SameNames

\* A call with a path begins.
LEMMA SysPathOrder ==
  ASSUME Good, Ordered, NEW p \in Procs, NEW c \in Calls, "path" \in DOMAIN c, SysPath(p, c)
  PROVE  Ordered'
<1>1. Typed /\ Shape(p) BY DEF Good, Core, Shaped
<1>2. Others(p)
  BY <1>1 DEF Typed, ProcsTyped, FilesTyped, Others, SysPath, At, Putting, Goto, Iputs, DropDp,
    Iget, Reads, Ilock, OnFile, Failed, table, files, walk, locals, bounds, D!Begin, D!End
<1>3. Calm(p)
  BY <1>1 DEF Typed, ProcsTyped, Calm, Linking, Shape, WithIp, NoPuts, SysPath, At, Putting,
    Goto, Iputs, DropDp, Iget, Reads, Ilock, OnFile, Failed, table, files, walk, locals, bounds,
    D!Begin, D!End
<1>4. disk' = disk /\ durable' = durable
  BY DEF SysPath, At, Putting, Goto, Iputs, DropDp, Iget, Reads, Ilock, OnFile, Failed, table,
    files, walk, locals, bounds, D!Begin, D!End
<1> QED BY <1>2, <1>3, <1>4, CalmKeepsOrder, SameNames

\* What a call sees of an inode is on disk, unless it is busy.
LEMMA PlainIs ==
  ASSUME Good, NEW i \in Inums
  PROVE  /\ Inode(i).type = disk.ino[i].type
         /\ ~ Busy(i) => Inode(i) = disk.ino[i]
BY DEF Good, Core, Coherent, Inode

\* An inode that p has locked or that nobody has is not busy.
LEMMA NobodyBusy ==
  ASSUME Good, NEW p \in Procs, NEW i \in Inums, lock[i] \in {p, Nobody}, pc[p] # "truncating",
         put[p] # "freeing"
  PROVE  ~ Busy(i)
<1>1. Typed /\ Locks BY TruncatingIs
<1> QED BY <1>1, ProcsAssumption DEF Busy, Locks, HoldsLock, LocksIp, Truncates, Freeing

\* iupdate() of inodes that keep their types and get no name.
LEMMA UpdatesNames ==
  ASSUME Good, NEW new, NEW used, UpdatesWith(new, used),
         \A i \in DOMAIN new : /\ i \in Inums /\ ~ Busy(i) /\ new[i].type = Inode(i).type
                               /\ \A n \in DOMAIN new[i].ents \ Dots :
                                    n \in DOMAIN Inode(i).ents /\ new[i].ents[n] = Inode(i).ents[n]
  PROVE  FewerNames(disk.ino, disk'.ino)
<1>1. \A i \in Inums : disk'.ino[i] = IF i \in DOMAIN new THEN new[i] ELSE disk.ino[i]
  BY DEF UpdatesWith
<1>2. ASSUME NEW i \in DOMAIN new
      PROVE  /\ disk'.ino[i].type = disk.ino[i].type
             /\ \A n \in DOMAIN disk'.ino[i].ents \ Dots :
                  n \in DOMAIN disk.ino[i].ents /\ disk'.ino[i].ents[n] = disk.ino[i].ents[n]
  <2>1. i \in Inums /\ Inode(i) = disk.ino[i] BY PlainIs
  <2>2. disk'.ino[i] = new[i] BY <1>1, <2>1
  <2> QED BY <2>1, <2>2
<1>3. ASSUME NEW i \in Inums, i \notin DOMAIN new PROVE disk'.ino[i] = disk.ino[i] BY <1>1, <1>3
<1> QED BY <1>2, <1>3 DEF FewerNames, SameTypes, FewerDirs

\* The same for one inode, whose entries stay.
LEMMA UpdatesOneNames ==
  ASSUME Good, NEW i \in Inums, NEW y, NEW used, UpdatesWith(One(i, y), used), ~ Busy(i),
         y.type = Inode(i).type, y.ents = Inode(i).ents
  PROVE  FewerNames(disk.ino, disk'.ino)
<1>1. DOMAIN One(i, y) = {i} /\ One(i, y)[i] = y BY DEF One
<1> QED BY <1>1, UpdatesNames

\* A count changes no entry.
LEMMA CountIsSame ==
  ASSUME Good, NEW i \in Inums, NEW n \in Int, Inode(i).type # "free"
  PROVE  LET y == [Inode(i) EXCEPT !.nlink = n] IN y.type = Inode(i).type /\ y.ents = Inode(i).ents
<1>1. IsInode(Inode(i)) BY InodeIs, TruncatingIs
<1> QED BY <1>1, NlinkIs

\* The inode that open() truncates is the one of the file it has made.
LEMMA InFileTruncating ==
  ASSUME Good, NEW p \in Procs, pc[p] = "truncating"
  PROVE  InFile(ip[p])
<1>1. Typed /\ FilesOK BY TruncatingIs
<1>2. PICK d \in Fds : ofile[p][d] # None /\ ftable[ofile[p][d]].ip = ip[p] BY <1>1 DEF FilesOK
<1> QED BY <1>1, <1>2, DescriptorIs DEF InFile

\* iput() drops the last reference to an inode without links and truncates it.
LEMMA IputLastOrder ==
  ASSUME Good, Ordered, NEW p \in Procs, IputLast(p)
  PROVE  Ordered'
<1>1. Typed /\ Shape(p) /\ RefsOK /\ puts[p] # <<>> /\ put[p] = "no"
  BY TruncatingIs DEF Shaped, IputLast, Putting
<1>2. PICK i \in Inums : i = Head(puts[p]) BY <1>1 DEF Typed, ProcsTyped
<1>3. ref[i] = 1 /\ Put1(puts[p]) = i BY <1>1, <1>2 DEF IputLast, LastRef, Put1
<1>4. UNCHANGED <<durable, cwd, ofile, call, pc, cur, rest, ip, dp, puts, active>>
        /\ put' = [put EXCEPT ![p] = "freeing"]
      /\ disk'.ino = disk.ino
  BY <1>1 DEF IputLast, files, locals, walk, Typed, DiskTyped, IsDisk
<1>5. ASSUME NEW q \in Procs, NEW r \in Procs, NEW k \in Inums, Freeing(q, k)'
      PROVE  ~ Depends(r, k)'
  <2>1. Depends(r, k)' <=> Depends(r, k) BY <1>4 DEF Depends
  <2>2. CASE q # p
    <3>1. Freeing(q, k) BY <1>1, <1>4, <1>5, <2>2 DEF Freeing, Typed, ProcsTyped
    <3> QED BY <2>1, <3>1 DEF Ordered, FreesAlone
  <2>3. CASE q = p
    <3>1. k = i BY <1>2, <1>4, <1>5, <2>3 DEF Freeing
    <3>2. ~ InFile(i) /\ \A o \in Procs \ {p} : ~ Has(o, i) BY <1>1, <1>3, OnlyRef
    <3>3. dp[p] # i /\ ~ (ip[p] = i /\ pc[p] # "truncating") BY <1>1, <1>3, OnlyRef
    <3>4. ~ (pc[r] = "truncating" /\ ip[r] = i) BY <3>2, InFileTruncating
    <3>5. dp[r] # i /\ ~ (ip[r] = i /\ pc[r] # "truncating") BY <3>2, <3>3 DEF Has
    <3> QED BY <2>1, <3>1, <3>4, <3>5 DEF Depends
  <2> QED BY <2>2, <2>3
<1>6. FreesAlone' BY <1>5 DEF FreesAlone
<1>7. \A q \in Procs : Knows(q)' BY <1>4 DEF Ordered, Knows
<1>8. PICK rank \in [Inums -> Nat] : Ranks(rank) BY DEF Ordered
<1>9. Ranks(rank)' BY <1>4, <1>8 DEF Ranks
<1>11. \E r \in [Inums -> Nat] : Descends(durable'.ino, r) BY <1>4 DEF Ordered
<1> QED BY <1>6, <1>7, <1>8, <1>9, <1>11 DEF Ordered

\* namex() looks a name up.
LEMMA WalkOrder ==
  ASSUME Good, Ordered, NEW p \in Procs, Walk(p)
  PROVE  Ordered'
<1>1. Typed /\ Shape(p) /\ pc[p] = "walk" /\ cur[p] \in Inums
  BY DEF Good, Core, Shaped, Shape, WithCur, Typed, ProcsTyped, Walk, At
<1>2. Others(p)
  BY <1>1 DEF Typed, ProcsTyped, FilesTyped, Others, Walk, At, Goto, Iputs, files, bounds
<1>3. disk' = disk /\ durable' = durable /\ ip' = ip BY DEF Walk
<1>4. dp'[p] = dp[p] \/ (dp'[p] = cur[p] /\ Inode(cur[p]).type = "dir")
  BY <1>1 DEF Walk, Typed, ProcsTyped
<1>5. pc'[p] \in {"walk", "parent", "linkBad", "end"}
  BY <1>1 DEF Walk, Typed, ProcsTyped, Goto, Failed
<1>6. Knows(p) /\ disk.ino[cur[p]].type = Inode(cur[p]).type BY <1>1, PlainIs DEF Ordered
<1>7. Knows(p)' BY <1>1, <1>3, <1>4, <1>5, <1>6 DEF Knows, Linking
<1>8. put'[p] # "freeing" BY <1>1 DEF Walk, At, Shape
<1>9. \A i \in Inums : Depends(p, i)' => Depends(p, i) \/ lock[i] \in {p, Nobody}
  BY <1>1, <1>3, <1>4, <1>5 DEF Depends, Linking, Walk, Ilock
<1> QED BY <1>2, <1>3, <1>5, <1>7, <1>8, <1>9, TypesKeepOrder, SameNames

\* iupdate() after ip->nlink changed.
LEMMA UpdatesNlink ==
  ASSUME Good, NEW i \in Inums, NEW n \in Int, Inode(i).type # "free", ~ Busy(i),
         Updates(One(i, [Inode(i) EXCEPT !.nlink = n]))
  PROVE  FewerNames(disk.ino, disk'.ino)
<1>1. UpdatesWith(One(i, [Inode(i) EXCEPT !.nlink = n]), disk.used) BY TruncatingIs, UpdatesAre
<1> DEFINE y == [Inode(i) EXCEPT !.nlink = n]
<1>2. y.type = Inode(i).type /\ y.ents = Inode(i).ents BY CountIsSame
<1> HIDE DEF y
<1>3. UpdatesWith(One(i, y), disk.used) BY <1>1 DEF y
<1> QED BY <1>2, <1>3, UpdatesOneNames

\* Link counts are numbers.
LEMMA NlinkInt ==
  ASSUME Good, NEW i \in Inums
  PROVE  Inode(i).nlink \in Int /\ Inode(i).nlink + 1 \in Int /\ Inode(i).nlink - 1 \in Int
<1>1. IsInode(Inode(i)) BY InodeIs, TruncatingIs
<1> QED BY <1>1 DEF IsInode

\* link() takes its count back.
LEMMA LinkBadOrder ==
  ASSUME Good, Ordered, NEW p \in Procs, LinkBad(p)
  PROVE  Ordered'
<1>1. Typed /\ Shape(p) /\ pc[p] = "linkBad" /\ ip[p] \in Inums
  BY DEF Good, Core, Shaped, Shape, WithIp, Typed, ProcsTyped, LinkBad, At
<1>2. Others(p)
  BY <1>1 DEF Typed, ProcsTyped, FilesTyped, Others, LinkBad, At, Goto, Iputs, files, walk,
    bounds
<1>3. Calm(p) /\ durable' = durable
  BY <1>1 DEF Typed, ProcsTyped, Shape, Calm, Linking, LinkBad, At, Goto, Iputs
<1>4. ~ Busy(ip[p]) /\ Inode(ip[p]).type # "free"
  BY <1>1, NobodyBusy DEF LinkBad, Ilock, Shape, At
<1>5. FewerNames(disk.ino, disk'.ino) BY <1>1, <1>4, UpdatesNlink, NlinkInt DEF LinkBad
<1> QED BY <1>2, <1>3, <1>5, CalmKeepsOrder

\* unlink() counts the inode down.
LEMMA UnlinkInodeOrder ==
  ASSUME Good, Ordered, NEW p \in Procs, UnlinkInode(p)
  PROVE  Ordered'
<1>1. Typed /\ Shape(p) /\ pc[p] = "unlinked" /\ ip[p] \in Inums
  BY DEF Good, Core, Shaped, Shape, WithIp, Typed, ProcsTyped, UnlinkInode, At
<1>2. Others(p)
  BY <1>1 DEF Typed, ProcsTyped, FilesTyped, Others, UnlinkInode, At, Goto, Iputs, files, walk,
    bounds
<1>3. Calm(p) /\ durable' = durable
  BY <1>1 DEF Typed, ProcsTyped, Shape, Calm, Linking, UnlinkInode, At, Goto, Iputs
<1>4. lock[ip[p]] = p /\ copy[ip[p]] # NotRead
  BY <1>1, ProcsAssumption DEF Good, Core, Locks, HoldsLock, LocksIp
<1>5. copy[ip[p]] = Inode(ip[p]) /\ Inode(ip[p]).type # "free"
  BY <1>1, <1>4 DEF Good, Core, Coherent, Inode
<1>6. ~ Busy(ip[p]) BY <1>1, <1>4, NobodyBusy DEF UnlinkInode, Shape, At
<1>7. FewerNames(disk.ino, disk'.ino)
  BY <1>1, <1>5, <1>6, UpdatesNlink, NlinkInt DEF UnlinkInode
<1> QED BY <1>2, <1>3, <1>7, CalmKeepsOrder

\* link() counts the link.
LEMMA LinkOrder ==
  ASSUME Good, Ordered, NEW p \in Procs, Link(p)
  PROVE  Ordered'
<1>1. Typed /\ Shape(p) /\ pc[p] = "found" /\ cur[p] \in Inums /\ Ilock(cur[p])
  BY DEF Good, Core, Shaped, Shape, WithCur, Typed, ProcsTyped, Link, At
<1>2. Others(p)
  BY <1>1 DEF Typed, ProcsTyped, FilesTyped, Others, Link, At, Goto, Iputs, files, bounds
<1>3. durable' = durable /\ dp'[p] = dp[p] /\ Knows(p) BY DEF Link, Ordered
<1>7. put'[p] # "freeing" BY <1>1 DEF Link, At, Shape
<1>4. CASE disk' = disk /\ ip' = ip /\ pc'[p] = "end"
  <2>1. Knows(p)' BY <1>3, <1>4 DEF Knows, Linking
  <2>2. \A i \in Inums : Depends(p, i)' => Depends(p, i) BY <1>3, <1>4 DEF Depends, Linking
  <2> QED BY <1>2, <1>3, <1>4, <1>7, <2>1, <2>2, TypesKeepOrder, SameNames
<1>5. CASE /\ Inode(cur[p]).type # "dir" /\ ip'[p] = cur[p] /\ pc'[p] = "walk"
           /\ Updates(One(cur[p], [Inode(cur[p]) EXCEPT !.nlink = Inode(cur[p]).nlink + 1]))
  <2>1. ~ Busy(cur[p]) /\ Inode(cur[p]).type # "free"
    BY <1>1, NobodyBusy DEF Ilock, Shape, Link, At
  <2>2. FewerNames(disk.ino, disk'.ino) BY <1>1, <1>5, <2>1, UpdatesNlink, NlinkInt
  <2>3. disk'.ino[cur[p]].type = Inode(cur[p]).type
    BY <1>1, <2>2, PlainIs DEF FewerNames, SameTypes, FewerDirs
  <2>4. dp'[p] # None => disk'.ino[dp'[p]].type = "dir"
    BY <1>1, <1>3, <2>2 DEF Knows, FewerNames, SameTypes, FewerDirs, Typed, ProcsTyped
  <2>5. Knows(p)' BY <1>5, <2>1, <2>3, <2>4 DEF Knows, Linking
  <2>6. \A i \in Inums : Depends(p, i)' => Depends(p, i) \/ lock[i] \in {p, Nobody}
    BY <1>1, <1>3, <1>5 DEF Depends, Linking, Ilock
  <2> QED BY <1>2, <1>3, <1>5, <1>7, <2>2, <2>5, <2>6, TypesKeepOrder
<1>6. \/ disk' = disk /\ ip' = ip /\ pc'[p] = "end"
      \/ /\ Inode(cur[p]).type # "dir" /\ ip'[p] = cur[p] /\ pc'[p] = "walk"
         /\ Updates(One(cur[p], [Inode(cur[p]) EXCEPT !.nlink = Inode(cur[p]).nlink + 1]))
  BY <1>1 DEF Typed, ProcsTyped, Link, Goto
<1> QED BY <1>4, <1>5, <1>6

\* open(O_TRUNC) has emptied the inode.
LEMMA OpenTruncatedOrder ==
  ASSUME Good, Ordered, NEW p \in Procs, OpenTruncated(p)
  PROVE  Ordered'
<1>1. Typed /\ Shape(p) /\ pc[p] = "truncating" /\ ip[p] \in Inums
  BY DEF Good, Core, Shaped, Shape, WithIp, Typed, ProcsTyped, OpenTruncated, At
<1>2. Others(p)
  BY <1>1 DEF Typed, ProcsTyped, FilesTyped, Others, OpenTruncated, At, Goto, files, walk,
    bounds
<1>3. Calm(p) /\ durable' = durable
  BY <1>1 DEF Typed, ProcsTyped, Shape, Calm, Linking, OpenTruncated, At, Goto
<1>4. copy[ip[p]] # NotRead BY <1>1, ProcsAssumption DEF Good, Core, Locks, HoldsLock, LocksIp
<1>5. copy[ip[p]].type = disk.ino[ip[p]].type BY <1>1, <1>4 DEF Good, Core, Coherent
<1>6. disk'.ino = [disk.ino EXCEPT ![ip[p]] = copy[ip[p]]]
  BY <1>1 DEF OpenTruncated, Typed, DiskTyped, IsDisk
<1>7. \A i \in Inums : disk'.ino[i].type = disk.ino[i].type
        /\ (i # ip[p] => disk'.ino[i] = disk.ino[i])
  BY <1>1, <1>5, <1>6 DEF Typed, DiskTyped, IsDisk
<1>8. disk.ino[ip[p]].type = "file" BY <1>1 DEF Ordered, Knows
<1>9. FewerNames(disk.ino, disk'.ino) BY <1>7, <1>8, Zenon DEF FewerNames, SameTypes, FewerDirs
<1> QED BY <1>2, <1>3, <1>9, CalmKeepsOrder

\* writei() writes a chunk.
LEMMA WriteChunkOrder ==
  ASSUME Good, Ordered, NEW p \in Procs, WriteChunk(p)
  PROVE  Ordered'
<1>1. Typed /\ Shape(p) /\ pc[p] = "chunk" /\ call[p].op = "write" /\ FilesOK
  BY Zenon DEF Good, Core, Shaped, Shape, WriteChunk, At
<1>2. Others(p)
  BY <1>1, Zenon DEF Typed, ProcsTyped, FilesTyped, Others, WriteChunk, At, Goto, walk, bounds
<1>3. Calm(p) /\ durable' = durable
  BY <1>1, Zenon DEF Typed, ProcsTyped, Calm, Linking, WriteChunk, At, Goto, walk, Shape,
    WithIp, WithDp
<1> DEFINE i == ftable[call[p].f].ip
           x == Inode(i)
           off == ftable[call[p].f].off
           m == IF off < DataBlocks(x.addrs) THEN [addrs |-> x.addrs, used |-> disk.used]
                                             ELSE Bmap(x.addrs, disk.used)
           size == IF off >= x.size THEN off + 1 ELSE x.size
<1>4. i \in Inums
  <2>1. call[p] = [op |-> "write", f |-> call[p].f, left |-> call[p].left] /\ call[p].f \in Files
    BY <1>1 DEF Typed, ProcsTyped, IsCall
  <2>2. PICK d \in Fds : ofile[p][d] = call[p].f BY <1>1 DEF FilesOK
  <2>3. ofile[p][d] # None BY <2>1, <2>2, FilesAre
  <2> QED BY <1>1, <2>2, <2>3, DescriptorIs
<1>5. x = [type |-> x.type, nlink |-> x.nlink, size |-> x.size, addrs |-> x.addrs, ents |-> x.ents]
  BY <1>1, <1>4, InodeIs, Zenon DEF IsInode
<1>6. ~ Busy(i) BY <1>1, <1>4, NobodyBusy, Zenon DEF WriteChunk, Ilock, Shape, At
<1>7. \/ disk' = disk
      \/ UpdatesWith(One(i, [x EXCEPT !.addrs = m.addrs, !.size = size]), m.used)
      \/ UpdatesWith(One(i, [x EXCEPT !.addrs = m.addrs]), m.used)
  BY <1>1, Zenon DEF WriteChunk
<1>8. PICK a, s, used : a = m.addrs /\ s = size /\ used = m.used OBVIOUS
<1> HIDE DEF i, x, off, m, size
<1>9. PICK y, z : y = [x EXCEPT !.addrs = a, !.size = s] /\ z = [x EXCEPT !.addrs = a] OBVIOUS
<1>10. y.type = x.type /\ y.ents = x.ents /\ z.type = x.type /\ z.ents = x.ents BY <1>5, <1>9
<1>11. disk' = disk \/ UpdatesWith(One(i, y), used) \/ UpdatesWith(One(i, z), used)
  BY <1>7, <1>8, <1>9
<1>12. ASSUME NEW w, w.type = x.type, w.ents = x.ents, UpdatesWith(One(i, w), used)
       PROVE  FewerNames(disk.ino, disk'.ino)
  BY <1>4, <1>6, <1>12, UpdatesOneNames DEF x
<1>13. FewerNames(disk.ino, disk'.ino) BY <1>10, <1>11, <1>12, SameNames
<1> QED BY <1>2, <1>3, <1>13, CalmKeepsOrder

\* open() makes a file and a descriptor.
LEMMA OpenOrder ==
  ASSUME Good, Ordered, NEW p \in Procs, Open(p)
  PROVE  Ordered'
<1>1. Typed /\ Shape(p) /\ pc[p] = "opening" /\ ip[p] \in Inums
  BY DEF Good, Core, Shaped, Shape, WithIp, Typed, ProcsTyped, Open, At
<1>2. Others(p)
  BY <1>1 DEF Typed, ProcsTyped, FilesTyped, Others, Open, At, Goto, Iputs, walk, bounds
<1>3. durable' = durable /\ dp'[p] = dp[p] /\ Knows(p) BY DEF Open, Ordered
<1>4. disk'.ino = disk.ino BY <1>1 DEF Open, Typed, DiskTyped, IsDisk
<1>5. pc'[p] \in {"end", "truncating"} BY <1>1 DEF Open, Typed, ProcsTyped, Goto
<1>6. pc'[p] = "truncating" => ip' = ip /\ Inode(ip[p]).type = "file"
  BY <1>1 DEF Open, Typed, ProcsTyped, Goto
<1>7. Knows(p)' BY <1>1, <1>3, <1>4, <1>5, <1>6, PlainIs DEF Knows, Linking
<1>8. put'[p] # "freeing" BY <1>1 DEF Open, At, Shape
<1>9. lock[ip[p]] = p BY <1>1, TruncatingIs DEF Locks, HoldsLock, LocksIp
<1>10. \A i \in Inums : Depends(p, i)' => Depends(p, i) \/ lock[i] \in {p, Nobody}
  BY <1>3, <1>5, <1>6, <1>9 DEF Depends, Linking
<1> QED BY <1>2, <1>3, <1>4, <1>5, <1>7, <1>8, <1>10, TypesKeepOrder, SameNames

\* unlink() clears the entry.
LEMMA UnlinkEntryOrder ==
  ASSUME Good, Ordered, NEW p \in Procs, UnlinkEntry(p)
  PROVE  Ordered'
<1>1. Typed /\ Shape(p) /\ Locks /\ Coherent /\ pc[p] = "unlinking" /\ ip[p] \in Inums
        /\ dp[p] \in Inums
      /\ put[p] # "freeing" /\ Ilock(ip[p])
  BY DEF Good, Core, Shaped, Shape, WithIp, WithDp, Typed, ProcsTyped, UnlinkEntry, At
<1>2. Others(p)
  BY <1>1 DEF Typed, ProcsTyped, FilesTyped, Others, UnlinkEntry, At, Goto, Iputs, DropDp,
    files, walk, bounds
<1>3. Calm(p) /\ durable' = durable
  BY <1>1 DEF Typed, ProcsTyped, Shape, Calm, Linking, UnlinkEntry, At, Goto, Iputs, DropDp
<1>4. lock[dp[p]] = p /\ copy[dp[p]] # NotRead /\ lock[ip[p]] = Nobody
  BY <1>1, ProcsAssumption DEF Locks, HoldsLock, LocksDp, Ilock
<1>5. ~ Busy(dp[p]) /\ ~ Busy(ip[p]) /\ ip[p] # dp[p] BY <1>1, <1>4, NobodyBusy, ProcsAssumption
<1>6. Inode(dp[p]).type # "free" /\ IsInode(Inode(dp[p])) /\ IsInode(Inode(ip[p]))
  BY <1>1, <1>4, InodeIs DEF Coherent, Inode
<1>7. PICK x : /\ x = Unlinked(Inode(dp[p]), Name(p)) /\ IsInode(x) /\ x.type # "free"
               /\ x.type = Inode(dp[p]).type
               /\ x.ents = Left(Inode(dp[p]).ents, Name(p))
  BY <1>6, UnlinkedIs
<1>8. PICK n \in Int : n = IF Inode(ip[p]).type = "dir" THEN x.nlink - 1 ELSE x.nlink
  BY <1>7 DEF IsInode
<1>9. PICK y : y = [x EXCEPT !.nlink = n] /\ y.type = x.type /\ y.ents = x.ents BY <1>7, NlinkIs
<1>10. disk' = disk \/ Updates(Two(dp[p], y, ip[p], Inode(ip[p])))
  BY <1>7, <1>8, <1>9 DEF UnlinkEntry
<1> DEFINE new == Two(dp[p], y, ip[p], Inode(ip[p]))
<1>11. /\ DOMAIN new = {dp[p], ip[p]} /\ new[dp[p]] = y /\ new[ip[p]] = Inode(ip[p])
  BY <1>5 DEF Two
<1> HIDE DEF new
<1>12. \A m \in DOMAIN y.ents : m \in DOMAIN Inode(dp[p]).ents /\ y.ents[m] = Inode(dp[p]).ents[m]
  BY <1>7, <1>9 DEF Left
<1>13. ASSUME Updates(new) PROVE FewerNames(disk.ino, disk'.ino)
  <2>1. UpdatesWith(new, disk.used) BY <1>1, <1>13, UpdatesAre
  <2>2. \A i \in DOMAIN new : /\ i \in Inums /\ ~ Busy(i) /\ new[i].type = Inode(i).type
    BY <1>1, <1>5, <1>7, <1>9, <1>11
  <2>3. ASSUME NEW i \in DOMAIN new, NEW m \in DOMAIN new[i].ents \ Dots
        PROVE  m \in DOMAIN Inode(i).ents /\ new[i].ents[m] = Inode(i).ents[m]
    BY <1>11, <1>12
  <2> QED BY <2>1, <2>2, <2>3, UpdatesNames
<1>14. FewerNames(disk.ino, disk'.ino) BY <1>10, <1>13, SameNames DEF new
<1> QED BY <1>2, <1>3, <1>14, CalmKeepsOrder

\* iput() frees the inode.
LEMMA IputFreeOrder ==
  ASSUME Good, Ordered, NEW p \in Procs, IputFree(p)
  PROVE  Ordered'
<1>1. Typed /\ Shape(p) /\ Locks /\ Coherent /\ RefsOK /\ puts[p] # <<>> /\ put[p] = "freeing"
      /\ Shaped
  BY DEF Good, Core, Shaped, IputFree, Putting
<1>2. PICK i \in Inums : i = Head(puts[p]) BY <1>1 DEF Typed, ProcsTyped
<1>3. Others(p)
  BY <1>1 DEF Typed, ProcsTyped, FilesTyped, Others, IputFree, Putting, files, locals, walk,
    bounds
<1>4. durable' = durable /\ dp' = dp /\ ip' = ip /\ pc' = pc BY DEF IputFree, locals
<1>5. disk'.ino = [disk.ino EXCEPT ![i] = Fresh("free")]
  BY <1>1, <1>2 DEF IputFree, Typed, DiskTyped, IsDisk
<1>6. disk'.ino[i] = Fresh("free") /\ \A k \in Inums \ {i} : disk'.ino[k] = disk.ino[k]
  BY <1>1, <1>2, <1>5 DEF Typed, DiskTyped, IsDisk
<1>7. disk'.ino[i].type = "free" BY <1>6 DEF Fresh
<1>8. Freeing(p, i) BY <1>1, <1>2 DEF Freeing
<1>9. \A q \in Procs : ~ Depends(q, i) BY <1>8 DEF Ordered, FreesAlone
<1>10. ASSUME NEW q \in Procs PROVE Knows(q)'
  <2>1. Knows(q) /\ ip[q] \in Inums \cup {None} /\ dp[q] \in Inums \cup {None}
    BY <1>1 DEF Ordered, Typed, ProcsTyped
  <2>2. dp[q] # None => dp[q] \in Inums \ {i} BY <1>9, <2>1 DEF Depends
  <2>3. pc[q] \in Linking /\ ip[q] # None => ip[q] \in Inums \ {i} BY <1>9, <2>1 DEF Depends
  <2>4. pc[q] = "truncating" => ip[q] \in Inums \ {i} BY <1>9, <2>1, TruncatingIs DEF Depends
  <2> QED BY <1>4, <1>6, <2>1, <2>2, <2>3, <2>4 DEF Knows
<1>11. put'[p] # "freeing" /\ \A k \in Inums : Depends(p, k)' <=> Depends(p, k)
  BY <1>1, <1>4 DEF IputFree, Typed, ProcsTyped, Depends
<1>12. FreesAlone' BY <1>3, <1>11, FreesAloneKept DEF Ordered
<1>13. PICK rank \in [Inums -> Nat] : Ranks(rank) BY DEF Ordered
<1>14. FewerDirs(disk.ino, disk'.ino) BY <1>6, <1>7 DEF FewerDirs
<1>15. Descends(disk'.ino, rank) BY <1>1, <1>13, <1>14, DescendsKept, InodeIs DEF Ranks
<1>16. Ranks(rank)' BY <1>4, <1>13, <1>15 DEF Ranks
<1>17. \E r \in [Inums -> Nat] : Descends(durable'.ino, r) BY <1>4 DEF Ordered
<1> QED BY <1>10, <1>12, <1>13, <1>16, <1>17 DEF Ordered

-----
\* Those that make a name.
\* A step that makes a name in d, for t, that leads down.
LEMMA NameKeepsOrder ==
  ASSUME Good, Ordered, NEW p \in Procs, Others(p), durable' = durable, Calm(p), pc'[p] # "new",
         SameTypes(disk.ino, disk'.ino), NEW d \in Inums, NEW t \in Inums,
         OneNameMore(disk.ino, disk'.ino, d, t),
         \A rank \in [Inums -> Nat] :
           Ranks(rank) /\ disk.ino[t].type = "dir" => rank[t] < rank[d]
  PROVE  Ordered'
<1>1. Typed /\ \A q \in Procs : pc[q] = "truncating" => ip[q] # None BY TruncatingIs
<1>2. \A q \in Procs : Knows(q)' BY <1>1, CalmKnows, KnowsKept DEF Ordered, SameTypes
<1>3. PICK rank \in [Inums -> Nat] : Ranks(rank) BY DEF Ordered
<1>4. Descends(disk'.ino, rank) BY <1>1, <1>3, DescendsMore, InodeIs DEF Ranks
<1>5. \A q \in Procs : pc'[q] = "new" => rank[ip'[q]] < rank[dp'[q]] BY <1>3 DEF Ranks, Others
<1>6. \E r \in [Inums -> Nat] : Ranks(r)' BY <1>3, <1>4, <1>5 DEF Ranks
<1>7. \E r \in [Inums -> Nat] : Descends(durable'.ino, r) BY DEF Ordered
<1>8. \A i \in Inums : Depends(p, i)' => Depends(p, i) BY NoneIs DEF Calm, Depends
<1>9. FreesAlone' BY <1>8, FreesAloneKept DEF Ordered, Calm
<1> QED BY <1>2, <1>6, <1>7, <1>9 DEF Ordered

\* link() writes the entry.
LEMMA LinkEntryOrder ==
  ASSUME Good, Ordered, NEW p \in Procs, LinkEntry(p)
  PROVE  Ordered'
<1>0. /\ Typed /\ Shape(p) /\ puts[p] = <<>> /\ pc[p] = "parent" /\ call[p].op = "link"
      /\ Ilock(dp[p])
      /\ dp[p] \in Inums \cup {None} /\ ip[p] \in Inums \cup {None} /\ rest[p] \in Seq(STRING)
  BY TruncatingIs DEF Shaped, Typed, ProcsTyped, LinkEntry, At
<1>1. /\ Typed /\ Shape(p) /\ pc[p] = "parent" /\ call[p].op = "link" /\ dp[p] \in Inums
      /\ ip[p] \in Inums
      /\ rest[p] # <<>> /\ rest[p] \in Seq(STRING) /\ put[p] # "freeing" /\ Ilock(dp[p])
  BY <1>0 DEF Shape, WithDp
<1>2. Others(p)
  BY <1>1 DEF Typed, ProcsTyped, FilesTyped, Others, LinkEntry, At, Goto, Iputs, DropDp, files,
    walk, bounds
<1>3. Calm(p) /\ durable' = durable /\ pc'[p] # "new"
  BY <1>1 DEF Typed, ProcsTyped, Shape, Calm, Linking, LinkEntry, At, Goto, Iputs, DropDp
<1>4. Name(p) \in STRING BY <1>1, SeqsAre DEF Name
<1>5. IsInode(Inode(dp[p])) /\ Inode(dp[p]).type # "free" /\ disk.used \in SUBSET Blocks
  BY <1>1, InodeIs DEF Ilock, Typed, DiskTyped, IsDisk
<1>6. PICK w : w = [ok |-> TRUE, inode |-> Inode(dp[p]), used |-> disk.used] OBVIOUS
<1>7. /\ w = [ok |-> w.ok, inode |-> w.inode, used |-> w.used] /\ w.ok = TRUE
      /\ w.inode = Inode(dp[p]) /\ w.used = disk.used
  BY <1>6
<1>8. PICK v : IsEntered(w, Name(p), ip[p], v) BY <1>1, <1>4, <1>5, <1>7, DirlinkIs
<1>9. v = Dirlink([ok |-> TRUE, inode |-> Inode(dp[p]), used |-> disk.used], Name(p), ip[p])
        /\ v.ok \in BOOLEAN
  BY <1>6, <1>8 DEF IsEntered
<1>10. PICK y, m : y = v.inode /\ m = v.used OBVIOUS
<1>11. /\ y.type = Inode(dp[p]).type
       /\ y.ents = IF v.ok THEN Entered(Inode(dp[p]).ents, Name(p), ip[p]) ELSE Inode(dp[p]).ents
  BY <1>7, <1>8, <1>10 DEF IsEntered
<1>12. ~ Busy(dp[p]) BY <1>1, NobodyBusy DEF Ilock
<1>13. \/ disk' = disk
       \/ ~ v.ok /\ UpdatesWith(One(dp[p], y), m)
       \/ v.ok /\ UpdatesWith(One(dp[p], y), m)
  BY <1>9, <1>10 DEF LinkEntry
<1>14. CASE disk' = disk BY <1>2, <1>3, <1>14, CalmKeepsOrder, SameNames
<1>15. CASE ~ v.ok /\ UpdatesWith(One(dp[p], y), m)
  <2>1. FewerNames(disk.ino, disk'.ino) BY <1>1, <1>11, <1>12, <1>15, UpdatesOneNames
  <2> QED BY <1>2, <1>3, <2>1, CalmKeepsOrder
<1>16. CASE v.ok /\ UpdatesWith(One(dp[p], y), m)
  <2>4. y.type = Inode(dp[p]).type /\ y.ents = Entered(Inode(dp[p]).ents, Name(p), ip[p])
    BY <1>11, <1>16
  <2>5. Inode(dp[p]) = disk.ino[dp[p]] BY <1>1, <1>12, PlainIs
  <2>7. disk'.ino[dp[p]] = y /\ \A i \in Inums \ {dp[p]} : disk'.ino[i] = disk.ino[i]
    BY <1>1, <1>16 DEF UpdatesWith, One
  <2>8. SameTypes(disk.ino, disk'.ino) BY <1>1, <2>4, <2>5, <2>7 DEF SameTypes
  <2>9. \A n \in DOMAIN y.ents : (n \in DOMAIN disk.ino[dp[p]].ents /\ y.ents[n] = disk.ino[dp[p]].ents[n])
                                 \/ y.ents[n] = ip[p]
    BY <2>4, <2>5 DEF Entered
  <2>10. OneNameMore(disk.ino, disk'.ino, dp[p], ip[p])
    BY <1>1, <2>7, <2>8, <2>9 DEF OneNameMore, SameTypes
  <2>11. disk.ino[ip[p]].type # "dir" BY <1>1, NoneIs DEF Ordered, Knows, Linking
  <2> QED BY <1>1, <1>2, <1>3, <2>8, <2>10, <2>11, NameKeepsOrder
<1> QED BY <1>13, <1>14, <1>15, <1>16

\* create() looks the name up and takes a free inode.
LEMMA CreateOrder ==
  ASSUME Good, Ordered, NEW p \in Procs, Create(p)
  PROVE  Ordered'
<1>0. /\ Typed /\ Shape(p) /\ Coherent /\ Locks /\ puts[p] = <<>> /\ pc[p] = "parent" /\ Creates(p)
      /\ Ilock(dp[p]) /\ dp[p] \in Inums \cup {None}
  BY TruncatingIs DEF Shaped, Typed, ProcsTyped, Create, At
<1>1. /\ Typed /\ Shape(p) /\ Coherent /\ Locks /\ pc[p] = "parent" /\ dp[p] \in Inums /\ Creates(p)
      /\ put[p] # "freeing" /\ Ilock(dp[p])
  BY <1>0 DEF Shape, WithDp
<1>2. Others(p)
  BY <1>1 DEF Typed, ProcsTyped, FilesTyped, Others, Create, At, Goto, Iputs, DropDp, files,
    walk, bounds
<1>3. durable' = durable /\ put'[p] # "freeing" BY <1>1 DEF Create
<1>4. CASE disk' = disk /\ pc'[p] # "new"
  <2>1. Calm(p)
    BY <1>1, <1>4 DEF Typed, ProcsTyped, Shape, Calm, Linking, Create, At, Goto, Iputs, DropDp
  <2> QED BY <1>2, <1>3, <1>4, <2>1, CalmKeepsOrder, SameNames
<1>5. CASE pc'[p] = "new"
  <2>1. PICK i \in Inums : i = Min({k \in Inums : disk.ino[k].type = "free"})
          /\ disk.ino[i].type = "free"
    <3> DEFINE F == {k \in Inums : disk.ino[k].type = "free"}
    <3>1. F # {} BY <1>1, <1>5 DEF Create, DropDp, Goto, Typed, ProcsTyped
    <3>2. F \in SUBSET Nat BY SizesAssumption DEF Inums
    <3>3. Min(F) \in F BY <3>1, <3>2, MinIs
    <3> QED BY <3>3
  <2>2. /\ pc' = [pc EXCEPT ![p] = "new"] /\ ip' = [ip EXCEPT ![p] = i] /\ dp' = dp
        /\ puts' = puts /\ put' = put
        /\ disk' = [disk EXCEPT !.ino[i] = Fresh(Type(p))]
    BY <1>1, <1>5, <2>1 DEF Create, DropDp, Goto, Typed, ProcsTyped
  <2>3. disk'.ino[i] = Fresh(Type(p)) /\ \A k \in Inums \ {i} : disk'.ino[k] = disk.ino[k]
    BY <1>1, <2>1, <2>2 DEF Typed, DiskTyped, IsDisk
  <2>4. disk'.ino[i].ents = NoEntry BY <2>3 DEF Fresh
  <2>5. Knows(p) BY DEF Ordered
  <2>6. pc'[p] = "new" /\ ip'[p] = i /\ dp'[p] = dp[p] /\ dp[p] # i
    BY <1>1, <2>1, <2>2, <2>5, NoneIs DEF Typed, ProcsTyped, Knows
  <2>7. Knows(p)' BY <1>1, <2>3, <2>5, <2>6, NoneIs DEF Knows, Linking
  <2>8. \A q \in Procs : Knows(q)'
    BY <1>1, <1>2, <2>1, <2>3, <2>7, TruncatingIs, KnowsKept DEF Ordered
  <2>9. FreesAlone'
    <3>1. \A k \in Inums : Depends(p, k)' => Depends(p, k) BY <2>6 DEF Depends, Linking
    <3> QED BY <1>2, <1>3, <3>1, FreesAloneKept DEF Ordered
  <2>10. PICK rank \in [Inums -> Nat] : Ranks(rank) BY DEF Ordered
  <2> DEFINE lower == [k \in Inums |-> IF k = i THEN 0 ELSE rank[k] + 1]
  <2>11. lower \in [Inums -> Nat] /\ lower[i] = 0 /\ \A k \in Inums \ {i} : lower[k] = rank[k] + 1
    BY <2>10
  <2> HIDE DEF lower
  <2>12. Descends(disk'.ino, lower)
    <3>1. ASSUME NEW k \in Inums, NEW n \in DOMAIN disk'.ino[k].ents \ Dots,
                 disk'.ino[k].type = "dir", disk'.ino[disk'.ino[k].ents[n]].type = "dir"
          PROVE  lower[disk'.ino[k].ents[n]] < lower[k]
      <4>1. k # i BY <2>4, <3>1, NoEntryIs
      <4>2. disk'.ino[k] = disk.ino[k] BY <2>3, <4>1
      <4>3. PICK t \in Inums : t = disk.ino[k].ents[n]
        BY <1>1, <3>1, <4>2, InodeIs, EntsAre DEF Inos
      <4>4. rank[k] \in Nat /\ lower[k] = rank[k] + 1 BY <2>10, <2>11, <4>1
      <4>5. CASE t = i BY <2>11, <4>2, <4>3, <4>4, <4>5
      <4>6. CASE t # i
        <5>1. disk.ino[t].type = "dir" /\ disk.ino[k].type = "dir"
                /\ n \in DOMAIN disk.ino[k].ents \ Dots
          BY <2>3, <3>1, <4>2, <4>3, <4>6
        <5>2. rank[t] < rank[k] /\ rank[t] \in Nat BY <2>10, <4>3, <5>1 DEF Ranks, Descends
        <5> QED BY <2>11, <4>2, <4>3, <4>4, <4>6, <5>2
      <4> QED BY <4>5, <4>6
    <3> QED BY <3>1 DEF Descends
  <2>13. ASSUME NEW q \in Procs, pc'[q] = "new" PROVE lower[ip'[q]] < lower[dp'[q]]
    <3>1. CASE q = p BY <1>1, <2>6, <2>10, <2>11, <3>1
    <3>2. CASE q # p
      <4>1. pc[q] = "new" /\ ip'[q] = ip[q] /\ dp'[q] = dp[q] /\ Knows(q) /\ Shape(q)
        BY <1>2, <2>13, <3>2, TruncatingIs DEF Others, Ordered, Shaped
      <4>2. dp[q] \in Inums /\ ip[q] \in Inums
        BY <1>1, <4>1 DEF Shape, WithDp, WithIp, Typed, ProcsTyped
      <4>3. dp[q] # i BY <2>1, <4>1, <4>2, NoneIs DEF Knows
      <4>4. rank[ip[q]] < rank[dp[q]] /\ rank[ip[q]] \in Nat /\ rank[dp[q]] \in Nat
        BY <2>10, <4>1, <4>2 DEF Ranks
      <4> QED BY <2>11, <4>1, <4>2, <4>3, <4>4
    <3> QED BY <3>1, <3>2
  <2>14. Ranks(lower)' BY <2>12, <2>13 DEF Ranks
  <2>15. \E r \in [Inums -> Nat] : Descends(durable'.ino, r) BY <1>3 DEF Ordered
  <2> QED BY <2>8, <2>9, <2>11, <2>14, <2>15 DEF Ordered
<1>6. pc'[p] = "new" \/ disk' = disk BY <1>1 DEF Create, Typed, ProcsTyped, Goto
<1> QED BY <1>4, <1>5, <1>6

\* create() fills and links the inode.
LEMMA CreateNewOrder ==
  ASSUME Good, Ordered, NEW p \in Procs, CreateNew(p)
  PROVE  Ordered'
<1>0. /\ Typed /\ Shape(p) /\ Locks /\ puts[p] = <<>> /\ pc[p] = "new" /\ Ilock(ip[p])
      /\ dp[p] \in Inums \cup {None} /\ ip[p] \in Inums \cup {None} /\ rest[p] \in Seq(STRING)
  BY TruncatingIs DEF Shaped, Typed, ProcsTyped, CreateNew, At
<1>1. /\ dp[p] \in Inums /\ ip[p] \in Inums /\ rest[p] # <<>> /\ put[p] # "freeing"
  BY <1>0 DEF Shape, WithDp, WithIp
<1>2. lock[dp[p]] = p /\ lock[ip[p]] = Nobody /\ ip[p] # dp[p]
  BY <1>0, <1>1, ProcsAssumption DEF Ilock, Locks, HoldsLock, LocksDp
<1>3. ~ Busy(ip[p]) /\ ~ Busy(dp[p]) BY <1>0, <1>1, <1>2, NobodyBusy
<1>4. PICK x \in {Inode(ip[p])} : x = Inode(ip[p]) /\ IsInode(x) /\ x.type # "free"
        /\ x = disk.ino[ip[p]]
  BY <1>0, <1>1, <1>3, InodeIs, PlainIs DEF Ilock
<1>5. PICK d \in {Inode(dp[p])} : d = Inode(dp[p]) /\ IsInode(d) /\ d.type = "dir"
        /\ d = disk.ino[dp[p]]
  BY <1>0, <1>1, <1>3, InodeIs, PlainIs, NoneIs DEF Ordered, Knows
<1>6. disk.used \in SUBSET Blocks BY <1>0 DEF Typed, DiskTyped, IsDisk
<1>7. PICK z, u : IsNew(p, x, z, u) BY <1>1, <1>4, <1>6, NewIs
<1>8. /\ NewInode(p).inode = z /\ NewInode(p).used = u /\ u \in SUBSET Blocks /\ IsInode(z)
      /\ z.type # "free" /\ z.type = x.type /\ OnlyDots(x, z)
  BY <1>7 DEF IsNew
<1>9. durable' = durable /\ put'[p] # "freeing" BY <1>1 DEF CreateNew
<1>12. Name(p) \in STRING BY <1>0, <1>1, SeqsAre DEF Name
<1>13. PICK w, m : /\ w = NewEntry(p).inode /\ m = NewEntry(p).used
                   /\ NewEntry(p).ok \in BOOLEAN /\ IsInode(w) /\ w.type # "free"
                   /\ w.type = d.type
                   /\ w.ents = IF NewEntry(p).ok THEN Entered(d.ents, Name(p), ip[p]) ELSE d.ents
  <2>1. d.type # "free" /\ IsNew(p, x, z, u) /\ d = Inode(dp[p]) /\ IsInode(d) BY <1>5, <1>7
  <2>2. PICK w, m : /\ w = NewEntry(p).inode /\ m = NewEntry(p).used
                    /\ NewEntry(p).ok \in BOOLEAN /\ (NewEntry(p).ok => NewInode(p).ok)
                    /\ m \in SUBSET Blocks /\ IsInode(w) /\ w.type # "free" /\ w.type = d.type
                    /\ w.nlink = d.nlink /\ Takes(d.addrs, u, w.addrs, m)
                    /\ w.ents = IF NewEntry(p).ok THEN Entered(d.ents, Name(p), ip[p]) ELSE d.ents
    BY <1>1, <1>12, <2>1, NewEntryIs
  <2> QED BY <2>2
<1>14. w.type = "dir" /\ w.nlink \in Int BY <1>5, <1>13 DEF IsInode
<1>10. CASE NewEntry(p).ok
  <2>3. w.ents = Entered(d.ents, Name(p), ip[p]) BY <1>10, <1>13
  <2>4. PICK n \in Int : n = IF Type(p) = "dir" THEN w.nlink + 1 ELSE w.nlink BY <1>14
  <2>5. PICK y : y = [w EXCEPT !.nlink = n] /\ y.type = w.type /\ y.ents = w.ents
    BY <1>13, NlinkIs
  <2>6. y = [NewEntry(p).inode EXCEPT !.nlink = IF Type(p) = "dir" THEN @ + 1 ELSE @]
    BY <1>13, <2>4, <2>5
  <2>7. UpdatesWith(Two(dp[p], y, ip[p], z), m) /\ CreateDone(p) /\ UNCHANGED call
    BY <1>8, <1>10, <1>13, <2>6 DEF CreateNew
  <2>8. Others(p)
    BY <1>0, <2>7 DEF Typed, ProcsTyped, FilesTyped, Others, CreateNew, CreateDone, Goto, Iputs,
      DropDp, files, walk, bounds
  <2>9. Calm(p) /\ pc'[p] # "new"
    BY <1>0, <1>9, <2>7 DEF Typed, ProcsTyped, Calm, Linking, CreateDone, Goto, Iputs, DropDp
  <2>10. /\ disk'.ino[dp[p]] = y /\ disk'.ino[ip[p]] = z
         /\ \A i \in Inums \ {dp[p], ip[p]} : disk'.ino[i] = disk.ino[i]
    BY <1>1, <1>2, <2>7 DEF UpdatesWith, Two
  <2>11. SameTypes(disk.ino, disk'.ino)
    <3>1. disk'.ino[dp[p]].type = disk.ino[dp[p]].type BY <1>5, <1>13, <2>5, <2>10
    <3>2. disk'.ino[ip[p]].type = disk.ino[ip[p]].type BY <1>4, <1>8, <2>10
    <3> QED BY <2>10, <3>1, <3>2 DEF SameTypes
  <2>12. \A k \in DOMAIN y.ents : (k \in DOMAIN d.ents /\ y.ents[k] = d.ents[k])
           \/ y.ents[k] = ip[p]
    BY <2>3, <2>5 DEF Entered
  <2>13. OneNameMore(disk.ino, disk'.ino, dp[p], ip[p])
    BY <1>4, <1>5, <1>8, <2>10, <2>11, <2>12 DEF OneNameMore, SameTypes, OnlyDots
  <2>14. \A rank \in [Inums -> Nat] : Ranks(rank) => rank[ip[p]] < rank[dp[p]] BY <1>0 DEF Ranks
  <2> QED BY <1>1, <1>9, <2>8, <2>9, <2>11, <2>13, <2>14, NameKeepsOrder
<1>11. CASE ~ NewEntry(p).ok
  <2>1. 0 \in Int OBVIOUS
  <2>2. PICK y : y = [z EXCEPT !.nlink = 0] /\ y.type = z.type /\ y.ents = z.ents
    BY <1>8, <2>1, NlinkIs
  <2>3. CreateFails(p) /\ UNCHANGED call BY <1>11 DEF CreateNew
  <2>4. UpdatesWith(Two(dp[p], w, ip[p], y), m) BY <1>8, <1>13, <2>2, <2>3 DEF CreateFails
  <2>5. Others(p)
    BY <1>0, <2>3 DEF Typed, ProcsTyped, FilesTyped, Others, CreateNew, CreateFails, Goto,
      Iputs, files, walk, bounds
  <2>6. Calm(p)
    BY <1>0, <1>9, <2>3, NoneIs DEF Typed, ProcsTyped, Calm, Linking, CreateFails, Goto, Iputs
  <2>7. PICK new : new = Two(dp[p], w, ip[p], y) OBVIOUS
  <2>8. DOMAIN new = {dp[p], ip[p]} /\ new[dp[p]] = w /\ new[ip[p]] = y BY <1>2, <2>7 DEF Two
  <2>9. y.type = Inode(ip[p]).type /\ w.type = Inode(dp[p]).type /\ w.ents = Inode(dp[p]).ents
    BY <1>4, <1>5, <1>8, <1>11, <1>13, <2>2
  <2>10. \A k \in DOMAIN y.ents \ Dots :
           k \in DOMAIN Inode(ip[p]).ents /\ y.ents[k] = Inode(ip[p]).ents[k]
    BY <1>4, <1>8, <2>2 DEF OnlyDots
  <2>11. \A i \in DOMAIN new :
           /\ i \in Inums /\ ~ Busy(i) /\ new[i].type = Inode(i).type
           /\ \A n \in DOMAIN new[i].ents \ Dots :
                n \in DOMAIN Inode(i).ents /\ new[i].ents[n] = Inode(i).ents[n]
    BY <1>1, <1>3, <2>8, <2>9, <2>10
  <2>12. FewerNames(disk.ino, disk'.ino) BY <2>4, <2>7, <2>11, UpdatesNames
  <2> QED BY <1>9, <2>5, <2>6, <2>12, CalmKeepsOrder
<1> QED BY <1>10, <1>11, <1>13

\* A boot: nobody is in a call.
LEMMA BootedOrder == Booted /\ (\E rank \in [Inums -> Nat] : Descends(disk.ino, rank)) => Ordered
<1> SUFFICES ASSUME Booted, \E rank \in [Inums -> Nat] : Descends(disk.ino, rank) PROVE Ordered
  OBVIOUS
<1>1. \A p \in Procs : /\ pc[p] = "user" /\ dp[p] = None /\ put[p] = "no" BY DEF Booted
<1>2. \A p \in Procs : Knows(p) BY <1>1 DEF Knows, Linking
<1>3. FreesAlone BY <1>1 DEF FreesAlone, Freeing
<1>4. \A rank : Descends(disk.ino, rank) => Ranks(rank) BY <1>1 DEF Ranks
<1> QED BY <1>2, <1>3, <1>4 DEF Ordered, Booted

\* The initial states: ImageAssumption has the rank.
LEMMA InitOrder ==
  ASSUME Init
  PROVE  Ordered
<1>1. Booted BY ImageAssumption DEF Init, Booted
<1>2. PICK rank \in [Inums -> Inums] : Descends(Image.ino, rank) BY ImageAssumption
<1>3. rank \in [Inums -> Nat] BY <1>2 DEF Inums
<1> QED BY <1>1, <1>2, <1>3, BootedOrder DEF Init

\* A crash goes back to the durable disk, which has one.
LEMMA CrashOrder ==
  ASSUME Good, Ordered, Crash
  PROVE  Ordered'
<1>1. IsDisk(durable) /\ BlocksOwned(durable.ino, durable.used)
  BY DEF Good, Core, Typed, DiskTyped
<1>2. strayed \/ (Tree(durable.ino) /\ LinksCounted(durable.ino)) BY DEF Good, Sound
<1>3. Booted' /\ disk' = durable BY <1>1, <1>2 DEF Crash, D!Crash, Booted
<1>4. (\E rank \in [Inums -> Nat] : Descends(disk.ino, rank))' BY <1>3 DEF Ordered
<1> QED BY <1>3, <1>4, BootedOrder, PTL

\* A commit makes the disk durable.
LEMMA CommitOrder ==
  ASSUME Ordered, Commit
  PROVE  Ordered'
<1>1. durable' = disk /\ UNCHANGED <<disk, pc, ip, dp, puts, put>>
  BY DEF Commit, D!Commit, locals, walk
<1>2. (\A p \in Procs : Knows(p))' /\ FreesAlone'
  BY <1>1 DEF Ordered, Knows, FreesAlone, Freeing, Depends
<1>3. (\E rank \in [Inums -> Nat] : Ranks(rank))' BY <1>1 DEF Ordered, Ranks
<1>4. (\E rank \in [Inums -> Nat] : Descends(durable.ino, rank))' BY <1>1 DEF Ordered, Ranks
<1> QED BY <1>2, <1>3, <1>4 DEF Ordered

\* A step that changes none of what Ordered speaks of.
LEMMA KeepsOrder ==
  ASSUME Ordered, UNCHANGED <<durable, disk, pc, locals, puts, put>>
  PROVE  Ordered'
<1>1. UNCHANGED <<durable, disk, pc, ip, dp, puts, put>> BY DEF locals
<1>2. (\A p \in Procs : Knows(p))' /\ FreesAlone'
  BY <1>1 DEF Ordered, Knows, FreesAlone, Freeing, Depends
<1>3. (\E rank \in [Inums -> Nat] : Ranks(rank))' BY <1>1 DEF Ordered, Ranks
<1> QED BY <1>1, <1>2, <1>3 DEF Ordered

-----
\* Ordered is an invariant, and nobody waits for ever for others who wait.
\* The steps of the calls with a path.
LEMMA PathOrder ==
  ASSUME Good, Ordered, NEW p \in Procs, Path(p)
  PROVE  Ordered'
<1>1. CASE WalkEnd(p) \/ Walk(p) \/ GiveUp(p) \/ Made(p)
  BY <1>1, WalkEndOrder, WalkOrder, GiveUpOrder, MadeOrder
<1>2. CASE Create(p) \/ CreateExists(p) \/ CreateNew(p)
  BY <1>2, CreateOrder, CreateExistsOrder, CreateNewOrder
<1>3. CASE OpenFound(p) \/ Open(p) \/ OpenTruncated(p)
  BY <1>3, OpenFoundOrder, OpenOrder, OpenTruncatedOrder
<1>4. CASE Unlink(p) \/ UnlinkEntry(p) \/ UnlinkInode(p)
  BY <1>4, UnlinkOrder, UnlinkEntryOrder, UnlinkInodeOrder
<1>5. CASE Link(p) \/ LinkEntry(p) \/ LinkBad(p)
  BY <1>5, LinkOrder, LinkEntryOrder, LinkBadOrder
<1>6. CASE Chdir(p) \/ ChdirEnd(p) BY <1>6, ChdirOrder, ChdirEndOrder
<1>7. CASE \E c \in Calls : "path" \in DOMAIN c /\ SysPath(p, c) BY <1>7, SysPathOrder
<1> QED BY <1>1, <1>2, <1>3, <1>4, <1>5, <1>6, <1>7 DEF Path

\* The steps of the calls with a descriptor.
LEMMA DescriptorOrder ==
  ASSUME Good, Ordered, NEW p \in Procs, Descriptor(p)
  PROVE  Ordered'
<1>1. ASSUME NEW d \in Fds, Dup(p, d) \/ Close(p, d) \/ Read(p, d) \/ Write(p, d)
      PROVE  Ordered'
  BY <1>1, DupOrder, CloseOrder, ReadOrder, WriteOrder
<1> QED BY <1>1, CloseInodeOrder, WriteBeginOrder, WriteChunkOrder DEF Descriptor

\* Ordered is inductive, with Good.
LEMMA NextOrder ==
  ASSUME Good, Ordered, [Next]_vars
  PROVE  Ordered'
<1>1. ASSUME NEW p \in Procs, Step(p) PROVE Ordered'
  <2>1. CASE IlockPanics(p) BY <2>1, KeepsOrder DEF IlockPanics
  <2> QED BY <1>1, <2>1, PathOrder, DescriptorOrder, EndOpOrder, IputLastOrder, IputFreeOrder,
    IputDropOrder DEF Step
<1>2. CASE UNCHANGED vars BY <1>2, KeepsOrder DEF vars
<1>3. CASE Quiet BY <1>2, <1>3 DEF Quiet
<1> QED BY <1>1, <1>2, <1>3, CommitOrder, CrashOrder DEF Next

\* Both hold in every state.
LEMMA OrderedAlways == Spec => [](Good /\ Ordered)
<1>1. Init => Good /\ Ordered BY InitGood, InitOrder
<1>2. Good /\ Ordered /\ [Next]_vars => (Good /\ Ordered)' BY NextGood, NextOrder
<1> QED BY <1>1, <1>2, PTL DEF Spec

\* The iput() of the last reference to an inode finds it unlocked.
LEMMA IputDoesNotWait ==
  ASSUME Good, NEW p \in Procs, puts[p] # <<>>
  PROVE  ~ Blocked(p)
<1> SUFFICES ASSUME put[p] = "no", LastRef(Head(puts[p])), lock[Head(puts[p])] # Nobody PROVE FALSE
  BY DEF Blocked, Wants
<1>1. Typed /\ RefsOK /\ Locks BY TruncatingIs
<1>2. PICK i \in Inums : i = Head(puts[p]) BY <1>1 DEF Typed, ProcsTyped
<1>3. ref[i] = 1 /\ Put1(puts[p]) = i /\ lock[i] # Nobody BY <1>2 DEF LastRef, Put1
<1>4. PICK q \in Procs : lock[i] = q BY <1>1, <1>3 DEF Typed, TableTyped
<1>5. /\ ~ InFile(i) /\ (q # p => ~ Has(q, i))
      /\ dp[p] # i /\ ~ (ip[p] = i /\ pc[p] # "truncating")
  BY <1>1, <1>3, OnlyRef
<1>6. HoldsLock(q, i) BY <1>1, <1>4 DEF Locks
<1>7. ~ (pc[q] = "truncating" /\ ip[q] = i) BY <1>5, InFileTruncating
<1>8. dp[q] # i /\ (ip[q] # i \/ pc[q] = "truncating") BY <1>5 DEF Has
<1>9. Freeing(q, i) BY <1>6, <1>7, <1>8 DEF HoldsLock
<1>10. puts[q] # <<>> BY <1>9, TruncatingIs DEF Freeing, Shaped, Shape
<1>11. Put1(puts[q]) = i /\ q # p BY <1>9, <1>10 DEF Freeing, Put1
<1> QED BY <1>5, <1>11 DEF Has

\* A process that is waited for, and waits itself, holds the lock of a directory and waits for an
\* inode of lower rank.
Holding(q) == pc[q] \in {"new", "unlinking"}

\* If everybody in a call waits for a lock, then each waits for such a process.
LEMMA WaitsForHolder ==
  ASSUME Good, \A p \in Procs : pc[p] # "user" => Blocked(p), NEW p \in Procs, pc[p] # "user"
  PROVE  /\ Wants(p) \in Inums
         /\ \E q \in Procs : Holding(q) /\ dp[q] = Wants(p) /\ lock[Wants(p)] = q
<1>1. Typed /\ Shaped /\ Locks /\ FilesOK BY TruncatingIs
<1>2. Blocked(p) /\ puts[p] = <<>> BY IputDoesNotWait
<1>3. Wants(p) \in Inums
  <2>1. Wants(p) # None BY <1>2 DEF Blocked
  <2>2. cur[p] \in Inums \cup {None} /\ ip[p] \in Inums \cup {None} /\ dp[p] \in Inums \cup {None}
    BY <1>1 DEF Typed, ProcsTyped
  <2>3. CASE pc[p] = "chunk"
    <3>1. PICK d \in Fds : ofile[p][d] = call[p].f /\ call[p].f \in Files
      BY <1>1, <2>3 DEF FilesOK, Shaped, Shape, Typed, ProcsTyped, IsCall
    <3>2. ftable[call[p].f].ip \in Inums BY <1>1, <3>1, FilesAre, DescriptorIs
    <3> QED BY <1>2, <2>3, <3>2 DEF Wants
  <2>4. CASE pc[p] # "chunk" BY <1>2, <2>1, <2>2, <2>4 DEF Wants
  <2> QED BY <2>3, <2>4
<1>4. PICK q \in Procs : lock[Wants(p)] = q BY <1>1, <1>2, <1>3 DEF Blocked, Typed, TableTyped
<1>5. HoldsLock(q, Wants(p)) BY <1>1, <1>3, <1>4 DEF Locks
<1>6. pc[q] # "user"
  BY <1>1, <1>5 DEF HoldsLock, LocksIp, LocksDp, Freeing, Shaped, Shape, NoPuts
<1>7. puts[q] = <<>> /\ Wants(q) # None BY <1>6, IputDoesNotWait DEF Blocked
<1>8. put[q] = "no" BY <1>1, <1>7 DEF Shaped, Shape
<1>9. pc[q] \in {"new", "unlinking"} /\ dp[q] = Wants(p)
  BY <1>5, <1>7, <1>8 DEF HoldsLock, LocksIp, LocksDp, Freeing, Wants
<1> QED BY <1>3, <1>4, <1>9 DEF Holding

\* Its inode has a lower rank than the directory it holds.
LEMMA RankFalls ==
  ASSUME Good, NEW rank \in [Inums -> Nat], Ranks(rank), NEW q \in Procs, Holding(q), Knows(q),
         disk.ino[ip[q]].type = "dir"
  PROVE  rank[ip[q]] < rank[dp[q]]
<1>1. CASE pc[q] = "new" BY <1>1 DEF Ranks
<1>2. CASE pc[q] = "unlinking"
  <2>1. Typed /\ Shape(q) /\ Locks BY TruncatingIs DEF Shaped
  <2>2. dp[q] \in Inums /\ puts[q] = <<>> /\ put[q] = "no"
    BY <1>2, <2>1 DEF Shape, WithDp, NoPuts, Typed, ProcsTyped
  <2>3. lock[dp[q]] = q BY <1>2, <2>1, <2>2 DEF Locks, HoldsLock, LocksDp
  <2>4. View[dp[q]] = disk.ino[dp[q]] BY <1>2, <2>1, <2>2, <2>3, NobodyBusy, PlainIs, InodeIs
  <2>5. PICK n \in DOMAIN disk.ino[dp[q]].ents \ Dots : disk.ino[dp[q]].ents[n] = ip[q]
    BY <1>2, <2>4 DEF Good, Core, UnlinkOK
  <2>6. disk.ino[dp[q]].type = "dir" BY <2>2, NoneIs DEF Knows
  <2> QED BY <2>2, <2>5, <2>6 DEF Ranks, Descends
<1> QED BY <1>1, <1>2 DEF Holding

\* So not everybody in a call waits: a process that waits for the lowest rank would
\* wait for one that waits for a lower one.
LEMMA SomebodyAlwaysRuns ==
  ASSUME Good, Ordered
  PROVE  SomebodyRuns
<1> SUFFICES ASSUME NEW p \in Procs, pc[p] # "user", \A q \in Procs : pc[q] # "user" => Blocked(q)
             PROVE  FALSE
  BY DEF SomebodyRuns
<1>1. PICK rank \in [Inums -> Nat] : Ranks(rank) BY DEF Ordered
<1>2. Typed /\ Shaped BY TruncatingIs
<1>3. \A q \in Procs : Holding(q) => dp[q] \in Inums /\ puts[q] = <<>>
  BY <1>2 DEF Holding, Shaped, Shape, WithDp, NoPuts, Typed, ProcsTyped
<1> DEFINE W == {q \in Procs : Holding(q)}
           R == {rank[dp[q]] : q \in W}
<1>4. ASSUME NEW q \in W PROVE \E r \in W : rank[dp[r]] < rank[dp[q]]
  <2>1. PICK r \in Procs : Holding(r) /\ dp[r] = Wants(q) BY <1>4, WaitsForHolder DEF Holding
  <2>2. Wants(q) = ip[q] BY <1>3, <1>4 DEF Holding, Wants
  <2>3. disk.ino[dp[r]].type = "dir" BY <1>3, <2>1, NoneIs DEF Ordered, Knows
  <2>4. rank[ip[q]] < rank[dp[q]] BY <1>1, <1>4, <2>1, <2>2, <2>3, RankFalls DEF Ordered
  <2> QED BY <2>1, <2>2, <2>4
<1>5. W # {} BY WaitsForHolder
<1>6. R \in SUBSET Nat /\ R # {} BY <1>1, <1>3, <1>5
<1>7. PICK q \in W : \A r \in W : rank[dp[q]] <= rank[dp[r]]
  <2>1. PICK m \in R : \A y \in R : m <= y
    <3> HIDE DEF R
    <3> QED BY <1>6, MinIs
  <2>2. PICK q \in W : m = rank[dp[q]] BY <2>1
  <2> QED BY <2>1, <2>2
<1>8. PICK r \in W : rank[dp[r]] < rank[dp[q]] BY <1>4
<1>9. rank[dp[q]] \in Nat /\ rank[dp[r]] \in Nat BY <1>1, <1>3
<1> QED BY <1>7, <1>8, <1>9

-----
\* Panics, and the theorem on both.
\* The inode that p is about to lock is referred to.
LEMMA WantsReferenced ==
  ASSUME Good, NEW p \in Procs, puts[p] = <<>>, Wants(p) # None
  PROVE  Wants(p) \in Inums /\ ref[Wants(p)] >= 1 /\ Held(Wants(p))
<1>1. Typed /\ Shape(p) /\ RefsOK /\ FilesOK BY TruncatingIs DEF Shaped
<1>2. CASE pc[p] = "chunk"
  <2>1. PICK d \in Fds : ofile[p][d] = call[p].f /\ call[p].f \in Files
    BY <1>1, <1>2 DEF FilesOK, Shape, Typed, ProcsTyped, IsCall
  <2>2. ftable[call[p].f].ip \in Inums /\ InFile(ftable[call[p].f].ip)
    BY <1>1, <2>1, FilesAre, DescriptorIs
  <2>3. Wants(p) = ftable[call[p].f].ip BY <1>2 DEF Wants
  <2> QED BY <1>1, <2>2, <2>3, Referenced DEF Held
<1>3. CASE pc[p] # "chunk"
  <2>1. /\ pc[p] # "truncating"
        /\ \/ cur[p] = Wants(p) \/ dp[p] = Wants(p) \/ ip[p] = Wants(p)
    BY <1>3 DEF Wants
  <2>2. Wants(p) \in Inums BY <1>1, <2>1 DEF Typed, ProcsTyped
  <2> QED BY <1>1, <2>1, <2>2, Referenced DEF Has, Held, Holds
<1> QED BY <1>2, <1>3

\* "ilock: no type" only after a path has led through the ".." of a removed directory.
LEMMA IlockPanicsRarely ==
  ASSUME Good, NEW p \in Procs, IlockPanics(p)
  PROVE  PanicsRare'
<1>1. puts[p] = <<>> /\ Wants(p) # None /\ strayed' = strayed BY DEF IlockPanics
<1>2. PICK i \in Inums : i = Wants(p) /\ ref[i] >= 1 /\ Held(i) BY <1>1, WantsReferenced
<1>3. ref[i] \in Int BY <1>2, TruncatingIs DEF Typed, TableTyped
<1>4. Inode(i).type = "free" /\ panic' = "ilock: no type"
  <2>1. ~ (ref[i] < 1) BY <1>2, <1>3
  <2> QED BY <1>2, <2>1, Zenon DEF IlockPanics
<1>5. ~ Sound BY <1>2, <1>4, TruncatingIs, InodeIs DEF Sound, Alive
<1> QED BY <1>1, <1>4, <1>5 DEF Good, PanicsRare

\* The blocks of an inode are marked used.
LEMMA IputLastPanicsNot ==
  ASSUME Good, NEW p \in Procs, IputLast(p)
  PROVE  panic' = panic
<1>1. PICK i \in Inums : i = Head(puts[p])
  <2>1. puts[p] \in Seq(Inums) /\ puts[p] # <<>>
    BY TruncatingIs DEF IputLast, Putting, Typed, ProcsTyped
  <2> QED BY <2>1
<1>2. copy[i] # NotRead BY <1>1 DEF IputLast, LastRef
<1>3. View[i] = copy[i] BY <1>2, TruncatingIs, InodeIs DEF Inode
<1>4. Range(copy[i].addrs) \subseteq disk.used BY <1>1, <1>3 DEF Good, Core, BlocksOwned
<1> QED BY <1>1, <1>4 DEF IputLast

\* An inode with a name has a link.
LEMMA UnlinkEntryPanicsRarely ==
  ASSUME Good, NEW p \in Procs, UnlinkEntry(p), PanicsRare
  PROVE  PanicsRare'
<1>1. strayed' = strayed /\ panic = "none" BY DEF UnlinkEntry, At
<1>2. CASE panic' = panic BY <1>1, <1>2 DEF PanicsRare
<1>3. CASE panic' # panic
  <2>1. Typed /\ Shape(p) /\ pc[p] = "unlinking" /\ panic' = "unlink: nlink < 1"
          /\ Inode(ip[p]).nlink < 1
    BY <1>3, TruncatingIs DEF UnlinkEntry, At, Shaped
  <2>2. dp[p] \in Inums /\ ip[p] \in Inums BY <2>1 DEF Shape, WithDp, WithIp, Typed, ProcsTyped
  <2>3. PICK n \in DOMAIN View[dp[p]].ents \ Dots : View[dp[p]].ents[n] = ip[p]
    BY <2>1 DEF Good, Core, UnlinkOK
  <2>4. <<dp[p], n>> \in LinksTo(View, ip[p])
    BY <2>2, <2>3, EntriesAre DEF LinksTo, Target, Dots
  <2>5. View[ip[p]].nlink < 1 BY <2>1, <2>2, InodeIs
  <2>6. ~ Sound BY <2>1, <2>2, <2>4, <2>5, Unlinkedness DEF Sound
  <2> QED BY <1>1, <2>1, <2>6 DEF Good, PanicsRare
<1> QED BY <1>2, <1>3

\* A step that leaves panic alone, and the references once it is set.
LEMMA StaysRare ==
  ASSUME PanicsRare, panic' = panic, panic = "none" \/ ref' = ref, strayed => strayed'
  PROVE  PanicsRare'
BY DEF PanicsRare, InUse

\* iget() panics when NINODE other inodes are in use.
LEMMA IgetRare ==
  ASSUME Good, PanicsRare, panic = "none", NEW i \in Inums, Iget(i), strayed => strayed'
  PROVE  PanicsRare'
<1>1. ref \in [Inums -> Int] /\ IsFiniteSet(Inums) /\ IsFiniteSet(InUse)
  <2>1. IsFiniteSet(Inums) /\ InUse \subseteq Inums
    BY FS_Interval, SizesAssumption DEF Inums, InUse
  <2> QED BY <2>1, FS_Subset, TruncatingIs DEF Typed, TableTyped
<1>2. CASE panic' = panic BY <1>2 DEF PanicsRare
<1>3. CASE panic' # panic
  <2>1. panic' = "iget: no inodes" /\ ref[i] = 0 /\ Cardinality(InUse) >= NINODE
    BY <1>3 DEF Iget
  <2>2. ref' = [ref EXCEPT ![i] = @ + 1] BY DEF Iget
  <2>11. ref[i] = 0 /\ ref \in [Inums -> Int] BY <1>1, <2>1, Zenon
  <2>3. ref'[i] = 1 /\ \A k \in Inums \ {i} : ref'[k] = ref[k] BY <2>2, <2>11
  <2>4. i \notin InUse BY <2>11 DEF InUse
  <2>5. InUse' = InUse \cup {i} BY <2>3 DEF InUse
  <2>6. PICK n \in Nat : n = Cardinality(InUse) BY <1>1, FS_CardinalityType
  <2>7. Cardinality(InUse \cup {i}) = n + 1 BY <1>1, <2>4, <2>6, FS_AddElement
  <2>8. n >= NINODE BY <2>1, <2>6
  <2>9. n + 1 > NINODE BY <2>8, SizesAssumption
  <2>10. Cardinality(InUse') > NINODE BY <2>5, <2>7, <2>9
  <2> QED BY <2>1, <2>10 DEF PanicsRare
<1> QED BY <1>2, <1>3

\* An entry of a directory that is locked leads to an inode.
LEMMA EntryIs ==
  ASSUME Good, NEW i \in Inums, NEW n \in DOMAIN Inode(i).ents
  PROVE  Inode(i).ents[n] \in Inums
<1>1. IsInode(Inode(i)) BY InodeIs, TruncatingIs
<1> QED BY <1>1 DEF IsInode, Range

\* The walks look up their start, or the name in the directory that is locked.
LEMMA WalksRare ==
  ASSUME Good, PanicsRare, NEW p \in Procs,
         (\E c \in Calls : "path" \in DOMAIN c /\ SysPath(p, c)) \/ Walk(p)
  PROVE  PanicsRare'
<1>1. panic = "none" /\ cwd[p] \in Inums /\ cur[p] \in Inums \cup {None} /\ ROOTINO \in Inums
  BY TruncatingIs, SizesAssumption DEF SysPath, Walk, At, Typed, FilesTyped, ProcsTyped, Inums,
    ROOTINO
<1>2. ASSUME NEW c \in Calls, SysPath(p, c) PROVE PanicsRare'
  <2>1. PICK i \in Inums : Iget(i) BY <1>1, <1>2 DEF SysPath, Start
  <2> QED BY <1>1, <1>2, <2>1, IgetRare DEF SysPath
<1>3. CASE Walk(p)
  <2>1. strayed => strayed' BY <1>3, Zenon DEF Walk, Looks
  <2>2. CASE panic' = panic BY <1>1, <2>1, <2>2, StaysRare
  <2>3. CASE panic' # panic
    <3>1. /\ Head(rest[p]) \in DOMAIN Inode(cur[p]).ents /\ Iget(Inode(cur[p]).ents[Head(rest[p])])
          /\ pc[p] = "walk" /\ rest[p] # <<>> /\ puts[p] = <<>>
      BY <1>3, <2>3, Zenon DEF Walk, At
    <3>2. cur[p] \in Inums BY <1>1, <3>1, TruncatingIs DEF Shaped, Shape, WithCur
    <3> QED BY <1>1, <2>1, <3>1, <3>2, EntryIs, IgetRare
  <2> QED BY <2>2, <2>3
<1> QED BY <1>2, <1>3

\* The calls look up a name in the parent, or take an inode from the disk.
LEMMA LookupsRare ==
  ASSUME Good, PanicsRare, NEW p \in Procs, Create(p) \/ Unlink(p) \/ LinkEntry(p)
  PROVE  PanicsRare'
<1>1. panic = "none" /\ puts[p] = <<>> /\ pc[p] = "parent" /\ (strayed => strayed')
  <2>1. panic = "none" /\ puts[p] = <<>> /\ pc[p] = "parent"
    BY DEF Create, Unlink, LinkEntry, At
  <2>2. Create(p) => (strayed => strayed') BY Zenon DEF Create, Looks
  <2>3. Unlink(p) => (strayed => strayed') BY Zenon DEF Unlink
  <2>4. LinkEntry(p) => (strayed => strayed') BY Zenon DEF LinkEntry, Looks
  <2> QED BY <2>1, <2>2, <2>3, <2>4, Zenon
<1>2. dp[p] \in Inums BY <1>1, TruncatingIs DEF Shaped, Shape, WithDp, Typed, ProcsTyped
<1>3. CASE panic' = panic BY <1>1, <1>3, StaysRare
<1>4. CASE panic' # panic
  <2>1. \/ Name(p) \in DOMAIN Inode(dp[p]).ents /\ Iget(Inode(dp[p]).ents[Name(p)])
        \/ LET free == {i \in Inums : disk.ino[i].type = "free"} IN free # {} /\ Iget(Min(free))
    BY <1>4 DEF Create, Unlink, LinkEntry
  <2>2. PICK i \in Inums : Iget(i)
    <3>1. CASE Name(p) \in DOMAIN Inode(dp[p]).ents /\ Iget(Inode(dp[p]).ents[Name(p)])
      BY <1>2, <3>1, EntryIs
    <3>2. ASSUME NEW free \in SUBSET Inums, free # {} PROVE Min(free) \in Inums
      <4>1. free \in SUBSET Nat BY <3>2, SizesAssumption DEF Inums
      <4> QED BY <3>2, <4>1, MinIs DEF Min
    <3> QED BY <2>1, <3>1, <3>2
  <2> QED BY <1>1, <2>2, IgetRare
<1> QED BY <1>3, <1>4

\* link() looks up the start of its second path.
LEMMA LinkRare ==
  ASSUME Good, PanicsRare, NEW p \in Procs, Link(p)
  PROVE  PanicsRare'
<1>1. panic = "none" /\ cwd[p] \in Inums /\ ROOTINO \in Inums /\ strayed' = strayed
  BY TruncatingIs, SizesAssumption DEF Link, At, Typed, FilesTyped, Inums, ROOTINO
<1>2. CASE panic' = panic BY <1>1, <1>2, StaysRare
<1>3. CASE panic' # panic
  <2>1. Iget(Start(p, call[p].new)) BY <1>3 DEF Link
  <2>2. PICK i \in Inums : Iget(i) BY <1>1, <2>1 DEF Start
  <2> QED BY <1>1, <2>2, IgetRare
<1> QED BY <1>2, <1>3

\* No other step panics.
LEMMA StepRare ==
  ASSUME Good, PanicsRare, NEW p \in Procs, Step(p)
  PROVE  PanicsRare'
<1>1. CASE WalkEnd(p) \/ CreateExists(p) \/ CreateNew(p) \/ GiveUp(p) \/ Made(p)
  <2>1. panic' = panic /\ strayed' = strayed /\ panic = "none"
    BY <1>1 DEF WalkEnd, CreateExists, CreateNew, GiveUp, Made, At
  <2> QED BY <2>1, StaysRare, Zenon
<1>2. CASE OpenFound(p) \/ Open(p) \/ OpenTruncated(p) \/ UnlinkInode(p)
  <2>1. panic' = panic /\ strayed' = strayed /\ panic = "none"
    BY <1>2 DEF OpenFound, Open, OpenTruncated, UnlinkInode, At
  <2> QED BY <2>1, StaysRare
<1>3. CASE LinkBad(p) \/ Chdir(p) \/ ChdirEnd(p)
  <2>1. panic' = panic /\ strayed' = strayed /\ panic = "none"
    BY <1>3 DEF LinkBad, Chdir, ChdirEnd, At
  <2> QED BY <2>1, StaysRare
<1>4. CASE Descriptor(p) \/ EndOp(p) \/ IputFree(p) \/ IputDrop(p)
  <2>1. panic' = panic /\ strayed' = strayed /\ panic = "none"
    BY <1>4, Zenon DEF Descriptor, Dup, Close, Read, Write, CloseInode, WriteBegin, WriteChunk,
      EndOp, IputFree, IputDrop, OnFile, At, Putting
  <2> QED BY <2>1, StaysRare
<1>5. CASE IputLast(p)
  <2>1. strayed' = strayed /\ panic = "none" BY <1>5 DEF IputLast, Putting
  <2> QED BY <1>5, <2>1, IputLastPanicsNot, StaysRare
<1> QED BY <1>1, <1>2, <1>3, <1>4, <1>5, WalksRare, LookupsRare, LinkRare,
  UnlinkEntryPanicsRarely, IlockPanicsRarely DEF Step, Path

\* With the invariants: a panic only after such a path, or with too many inodes in use.
LEMMA RareAlways == Spec => [](Good /\ Ordered /\ PanicsRare)
<1>1. Init => PanicsRare BY DEF Init, PanicsRare
<1>2. Good /\ PanicsRare /\ [Next]_vars => PanicsRare'
  <2> SUFFICES ASSUME Good, PanicsRare, [Next]_vars PROVE PanicsRare'
    OBVIOUS
  <2>1. CASE UNCHANGED vars BY <2>1, StaysRare DEF vars, table
  <2>2. CASE Quiet BY <2>1, <2>2 DEF Quiet
  <2>3. CASE Commit BY <2>3, StaysRare DEF Commit, table
  <2>4. CASE Crash BY <2>4 DEF Crash, PanicsRare
  <2> QED BY <2>1, <2>2, <2>3, <2>4, StepRare DEF Next
<1> QED BY <1>1, <1>2, OrderedAlways, PTL DEF Spec

\* CallsGoOn: no call panics, unless iget() finds NINODE other inodes in use or a path has
\* led through the ".." of a removed directory; and the sleep-locks of inodes never close a cycle: as long as a process is
\* in a call, one of those is not waiting for a lock.
THEOREM CallsAlwaysGoOn == Spec => []CallsGoOn
<1>1. Good /\ Ordered /\ PanicsRare => CallsGoOn BY SomebodyAlwaysRuns DEF CallsGoOn
<1> QED BY <1>1, RareAlways, PTL

=============================================================================
