---------------------------- MODULE XvMem_proofs -----------------------------
(***************************************************************************)
(* Proofs about the memory of the xv6 kernel (XvMem), which go on where    *)
(* Memory_proofs ends: the calls that add pages, take them away and give   *)
(* them back, the inductive invariant, and that XvMem implements           *)
(* AddressSpaces. What kalloc.c, vm.c and exec.c do with frames and page   *)
(* tables is to each process a memory of its own.                          *)
(***************************************************************************)
EXTENDS Memory_proofs

-----
\* Pages that are added: uvmalloc() and uvmcopy().
\* The pages below j are in the page table r as they were, and hold what they held.
Still(m, m2, r, j) ==
  \A k \in 0 .. j - 1 : Ent(m2, r, k) = Ent(m, r, k) /\ m2[Ent(m, r, k).pa] = m[Ent(m, r, k).pa]

\* A page that the owner o of the page table root gets, at the end of what it has.
Grown(root, o, va, contents, perm) ==
  \E g1, g0, F :
    /\ PageMade(root, va, contents, perm, g1, g0, F)
    /\ Stays({<<"free", 0>>, o}, TablesOf(ram, root) \cup F)
    /\ Maps(ram', root, va + 1)
    /\ UserPages(ram, root, va) /\ "U" \in perm => UserPages(ram', root, va + 1)
    /\ Still(ram, ram', root, va)
    /\ Ent(ram', root, va).perm = perm /\ ram'[Ent(ram', root, va).pa] = contents

\* uvmalloc() and uvmcopy() map the next page.
LEMMA Grows ==
  ASSUME Good, NEW o \in Owners, o # <<"free", 0>>, NEW root, Holding[o] = SpaceOf(ram, root), Tree(ram, root),
         NEW va \in Nat, va < PageLimit, Maps(ram, root, va), NEW contents, contents # Data("kernel"),
         NEW perm, "R" \in perm, NewPage(root, va, contents, perm)
  PROVE  Grown(root, o, va, contents, perm)
<1>1. va \in Addresses \ Top /\ free \subseteq Managed(ram) /\ ram = [f \in Frames |-> ram[f]]
        /\ free \subseteq Frames
  BY PageIn, Parts DEF Typed
<1>2. Ent(ram, root, va).pa = NoFrame BY <1>1 DEF Maps
<1> DEFINE e == <<"free", 0>>
           S == {e, o}
<1>3. e \in Owners /\ Holding[e] = free BY HoldingIs, OwnersAre
<1>4. free \cap SpaceOf(ram, root) = {} BY <1>3, Parts DEF Partition
<1>5. PICK g1, g0, F : PageMade(root, va, contents, perm, g1, g0, F) BY <1>1, <1>2, <1>4, Paged
<1>6. TablesOf(ram, root) \subseteq SpaceOf(ram, root) BY Constants DEF SpaceOf, Tree
<1>7. Stays(S, TablesOf(ram, root) \cup F) BY <1>3, <1>5, <1>6 DEF Stays, PageMade
<1>8. Frame1 # NoFrame BY <1>1, <1>5, Constants DEF PageMade
<1>9. /\ Maps(ram', root, va + 1)
      /\ UserPages(ram, root, va) /\ "U" \in perm => UserPages(ram', root, va + 1)
  <2> DEFINE pte == [pa |-> Frame1, perm |-> perm]
  <2>1. Extends(ram, ram', root, va, g1, g0, pte) BY <1>5 DEF PageMade
  <2>2. pte.pa # NoFrame /\ "R" \in pte.perm /\ pte.perm = perm BY <1>8
  <2> HIDE DEF pte
  <2> QED BY <2>1, <2>2, MapsMore
<1>10. PageMade(root, va, contents, perm, g1, g0, F) /\ Stays({<<"free", 0>>, o}, TablesOf(ram, root) \cup F)
  BY <1>5, <1>7
<1>11. Ent(ram', root, va).perm = perm /\ ram'[Ent(ram', root, va).pa] = contents
  BY <1>1, <1>5 DEF PageMade, Extends
<1>12. ASSUME NEW k \in 0 .. va - 1
       PROVE  Ent(ram', root, k) = Ent(ram, root, k) /\ ram'[Ent(ram, root, k).pa] = ram[Ent(ram, root, k).pa]
  <2>1. k \in Addresses \ Top /\ k # va /\ Ent(ram, root, k).pa # NoFrame
    <3>1. k \in Nat /\ k < PageLimit /\ k # va BY <1>1, Constants
    <3>2. k \in Addresses \ Top BY <3>1, PageIn
    <3> QED BY <3>1, <3>2 DEF Maps
  <2>2. Ent(ram', root, k) = Ent(ram, root, k) BY <1>5, <2>1 DEF PageMade, Extends
  <2>3. PICK x : x = Ent(ram, root, k).pa OBVIOUS
  <2>4. x \in LeavesOf(ram, root) /\ x \in Frames /\ x \notin TablesOf(ram, root)
    BY <2>1, <2>3 DEF LeavesOf, Tree
  <2>5. x \in SpaceOf(ram, root) BY <2>4, Constants DEF SpaceOf, Tree
  <2>6. x \notin F BY <1>4, <1>5, <2>5 DEF PageMade
  <2>7. ram'[x] = ram[x] BY <1>5, <2>4, <2>6 DEF PageMade
  <2> QED BY <2>2, <2>3, <2>7
<1>13. Still(ram, ram', root, va) BY <1>12 DEF Still
<1> QED BY <1>9, <1>10, <1>11, <1>13, Zenon DEF Grown

\* What that does to the frames.
LEMMA GrownParts ==
  ASSUME Good, NEW o \in Owners, o # <<"free", 0>>, NEW root, NEW F, Holding[o] = SpaceOf(ram, root),
         F \subseteq free, free' = free \ F, Managed(ram') = Managed(ram),
         NEW C, Stays({<<"free", 0>>, o}, C), Holding'[o] = SpaceOf(ram, root) \cup F,
         \A q \in Procs : /\ <<"space", q>> # o => pagetable'[q] = pagetable[q]
                          /\ <<"image", q>> # o => NewRoot(q)' = NewRoot(q)
                          /\ <<"trapframe", q>> # o => trapframe'[q] = trapframe[q]
                          /\ <<"args", q>> # o => loc'[q].argv = loc[q].argv
  PROVE  Partition(Holding, Managed(ram))'
<1> DEFINE e == <<"free", 0>>
           S == {e, o}
<1>1. e \in Owners /\ Holding[e] = free /\ Holding'[e] = free \ F
  BY HoldingIs, HoldingNext, OwnersAre
<1>2. free \cap SpaceOf(ram, root) = {} BY <1>1, Parts DEF Partition
<1>3. \A q \in Procs : /\ <<"space", q>> \notin S => pagetable'[q] = pagetable[q]
                       /\ <<"image", q>> \notin S => NewRoot(q)' = NewRoot(q)
                       /\ <<"trapframe", q>> \notin S => trapframe'[q] = trapframe[q]
                       /\ <<"args", q>> \notin S => loc'[q].argv = loc[q].argv
  OBVIOUS
<1>4. \A a, b \in S : a # b => Holding'[a] \cap Holding'[b] = {} BY <1>1, <1>2
<1>5. \A f : (\E a \in S : f \in Holding'[a]) <=> (\E a \in S : f \in Holding[a]) BY <1>1, <1>2
<1>6. <<"free", 0>> \in S /\ Stays(S, C) OBVIOUS
<1> HIDE DEF S
<1> QED BY <1>3, <1>4, <1>5, <1>6, PartitionStep

\* What holds while uvmalloc() runs.
InUvmalloc(p, m, root) ==
  /\ state[p] = "runnable" /\ Process(p) /\ Caller(p) /\ IsLoc(m) /\ Typed /\ ~ panic
  /\ m.then \in {"sbrk", "load", "stack"}
  /\ pagetable[p] \in Frames /\ pagetable[p] # NoFrame /\ Tree(ram, pagetable[p])
  /\ PagesOf(sz[p]) \in Nat /\ PagesOf(sz[p]) <= PageLimit
  /\ (Idle(p) => Maps(ram, pagetable[p], PagesOf(sz[p])))
  /\ m.at \in Nat /\ m.old \in Nat /\ m.new \in Nat /\ m.size \in Nat /\ m.argv \subseteq Frames
  /\ PagesOf(m.new) \in Nat /\ PagesOf(m.size) \in Nat
  /\ DOMAIN m = {"np", "root", "at", "old", "new", "perm", "then", "segs", "size", "argv"}
  /\ (m.then = "sbrk" => InSbrk(p)) /\ (m.then # "sbrk" => InExec(p) /\ Idle(p))
  /\ Growing(p) /\ Tree(ram, root) /\ root # NoFrame /\ root = m.root
  /\ m.old <= m.at /\ m.at * PGSIZE < m.new /\ Maps(ram, root, m.at)
  /\ (UserPages(ram, root, m.at) \/ m.then = "sbrk")
  /\ m.at * PGSIZE \in Nat /\ (m.at + 1) * PGSIZE = m.at * PGSIZE + PGSIZE /\ m.new # 0
  /\ m.at < PagesOf(m.new) /\ m.at < PageLimit /\ PagesOf(m.new) <= PageLimit

\* What Good says of a process in uvmalloc().
LEMMA Uvmallocs ==
  ASSUME Good, NEW p \in Procs, pc[p] = "uvmalloc"
  PROVE  InUvmalloc(p, loc[p], loc[p].root)
<1> DEFINE m == loc[p]
           root == m.root
<1>1. /\ pc[p] = "uvmalloc" /\ state[p] = "runnable" /\ Process(p) /\ Caller(p) /\ IsLoc(m) /\ Typed /\ ~ panic
      /\ m.then \in {"sbrk", "load", "stack"}
  <2>1. pc[p] = "uvmalloc" OBVIOUS
  <2>2. Process(p) /\ Caller(p) /\ Typed /\ ~ panic BY Zenon DEF Good
  <2>3. IsLoc(m) BY <2>2 DEF Typed
  <2>4. m.then \in {"sbrk", "load", "stack"} BY <2>1, <2>2 DEF Caller
  <2>5. state[p] = "runnable" BY <2>1, <2>2 DEF Process
  <2> QED BY <2>1, <2>2, <2>3, <2>4, <2>5
<1>2. /\ pagetable[p] \in Frames /\ pagetable[p] # NoFrame /\ Tree(ram, pagetable[p])
      /\ PagesOf(sz[p]) \in Nat /\ PagesOf(sz[p]) <= PageLimit
      /\ (Idle(p) => Maps(ram, pagetable[p], PagesOf(sz[p])))
  BY <1>1, Runs
<1>3. /\ m.at \in Nat /\ m.old \in Nat /\ m.new \in Nat /\ m.size \in Nat /\ m.argv \subseteq Frames
      /\ PagesOf(m.new) \in Nat /\ PagesOf(m.size) \in Nat
      /\ DOMAIN m = {"np", "root", "at", "old", "new", "perm", "then", "segs", "size", "argv"}
  BY <1>1, PagesAre DEF IsLoc
<1>4. (m.then = "sbrk" => InSbrk(p)) /\ (m.then # "sbrk" => InExec(p) /\ Idle(p))
  BY <1>1 DEF Caller, Idle
<1>5. Growing(p) /\ root # NoFrame /\ Tree(ram, root) /\ m.new # 0 => PagesOf(m.new) <= PageLimit
  <2>1. CASE m.then = "sbrk" BY <1>1, <1>4, <2>1 DEF InSbrk
  <2>2. CASE m.then = "load" BY <1>1, <1>3, <1>4, <2>2, Constants DEF InExec
  <2>3. CASE m.then = "stack"
    <3>1. m.size % PGSIZE = 0 /\ PagesOf(m.size) + 2 <= PageLimit /\ (m.new # 0 => m.new = m.size + 2 * PGSIZE)
      BY <1>1, <1>4, <2>3 DEF InExec
    <3> QED BY <1>3, <3>1, TwoMore
  <2> QED BY <1>1, <2>1, <2>2, <2>3
<1>6. Growing(p) /\ Tree(ram, root) /\ root # NoFrame
  <2>1. CASE m.then = "sbrk" BY <1>1, <1>2, <1>4, <2>1 DEF InSbrk
  <2>2. CASE m.then # "sbrk" BY <1>1, <1>4, <2>2 DEF InExec
  <2> QED BY <2>1, <2>2
<1>7. /\ m.old <= m.at /\ m.at * PGSIZE < m.new /\ Maps(ram, root, m.at)
      /\ (UserPages(ram, root, m.at) \/ m.then = "sbrk")
  BY <1>6 DEF Growing
<1>8. m.at * PGSIZE \in Nat /\ (m.at + 1) * PGSIZE = m.at * PGSIZE + PGSIZE /\ m.new # 0
  <2>1. m.at * PGSIZE \in Nat /\ (m.at + 1) * PGSIZE = m.at * PGSIZE + PGSIZE BY <1>3, Constants
  <2> DEFINE y == m.at * PGSIZE
  <2>2. y \in Nat /\ y < m.new BY <1>7, <2>1
  <2> HIDE DEF y
  <2>3. m.new # 0 BY <1>3, <2>2
  <2> QED BY <2>1, <2>3
<1>9. m.at < PagesOf(m.new) /\ m.at < PageLimit /\ PagesOf(m.new) <= PageLimit
  <2>1. m.at < PagesOf(m.new) BY <1>3, <1>7, PagesCover
  <2>2. PagesOf(m.new) <= PageLimit BY <1>5, <1>6, <1>8
  <2> QED BY <1>3, <2>1, <2>2, Constants
<1>10. root = m.root OBVIOUS
<1> HIDE DEF m, root
<1>11. InUvmalloc(p, m, root)
  BY <1>1, <1>2, <1>3, <1>4, <1>6, <1>7, <1>8, <1>9, <1>10 DEF InUvmalloc
<1> QED BY <1>11 DEF m, root

\* The page table in which it maps belongs to the process or to the image it is making.
LEMMA UvmallocOwner ==
  ASSUME Good, NEW p \in Procs, pc[p] = "uvmalloc", pagetable' = pagetable, NewRoot(p)' = NewRoot(p)
  PROVE  \E o \in Owners :
           /\ o \in {<<"space", p>>, <<"image", p>>}
           /\ Holding[o] = SpaceOf(ram, loc[p].root) /\ Holding'[o] = SpaceOf(ram', loc[p].root)
           /\ loc[p].then # "sbrk" => o = <<"image", p>>
<1>1. PICK m, root : m = loc[p] /\ root = m.root OBVIOUS
<1>2. InUvmalloc(p, m, root) BY <1>1, Uvmallocs
<1>3. CASE m.then = "sbrk"
  <2>1. root = pagetable[p] BY <1>1, <1>2, <1>3 DEF InSbrk, InUvmalloc
  <2>2. Holding[<<"space", p>>] = SpaceOf(ram, root) BY <2>1, HoldingIs
  <2>3. Holding'[<<"space", p>>] = SpaceOf(ram', root)
    <3>1. Holding'[<<"space", p>>] = SpaceOf(ram', pagetable'[p]) BY HoldingNext
    <3>2. pagetable'[p] = root BY <2>1
    <3> QED BY <3>1, <3>2
  <2>4. <<"space", p>> \in Owners BY OwnersAre
  <2> QED BY <1>1, <1>3, <2>2, <2>3, <2>4
<1>4. CASE m.then # "sbrk"
  <2>1. root # pagetable[p] BY <1>1, <1>2, <1>4 DEF InExec, InUvmalloc
  <2>2. NewRoot(p) = root BY <1>1, <2>1 DEF NewRoot
  <2>3. Holding[<<"image", p>>] = SpaceOf(ram, root) BY <2>2, HoldingIs
  <2>4. Holding'[<<"image", p>>] = SpaceOf(ram', root)
    <3>1. Holding'[<<"image", p>>] = SpaceOf(ram', NewRoot(p)') BY HoldingNext
    <3>2. NewRoot(p)' = root BY <2>2
    <3> QED BY <3>1, <3>2
  <2>5. <<"image", p>> \in Owners BY OwnersAre
  <2> QED BY <1>1, <2>3, <2>4, <2>5
<1> QED BY <1>3, <1>4

\* uvmalloc() has got another page.
GotPage(p) ==
  \E o \in {<<"space", p>>, <<"image", p>>} :
    /\ Grown(loc[p].root, o, loc[p].at, Zero, {"R", "U"} \cup loc[p].perm)
    /\ OthersRest({p}, {<<"free", 0>>, o})
    /\ loc[p].then # "sbrk" => o = <<"image", p>>

\* uvmalloc() has got another page.
LEMMA UvmallocPageKeeps ==
  ASSUME Good, NEW p \in Procs, UvmallocPage(p)
  PROVE  Good' /\ GotPage(p)
<1> DEFINE m == loc[p]
           root == m.root
           l == [m EXCEPT !.at = @ + 1]
           t == IF (m.at + 1) * PGSIZE >= m.new THEN m.then ELSE "uvmalloc"
           perm == {"R", "U"} \cup m.perm
<1>1. InUvmalloc(p, m, root) /\ pc[p] = "uvmalloc" BY Uvmallocs DEF UvmallocPage
<1>2. /\ state[p] = "runnable" /\ Process(p) /\ Caller(p) /\ IsLoc(m) /\ Typed /\ ~ panic
      /\ m.then \in {"sbrk", "load", "stack"}
      /\ pagetable[p] \in Frames /\ pagetable[p] # NoFrame /\ Tree(ram, pagetable[p])
      /\ (Idle(p) => Maps(ram, pagetable[p], PagesOf(sz[p])))
  BY <1>1 DEF InUvmalloc
<1>3. /\ m.at \in Nat /\ m.old \in Nat /\ m.new \in Nat /\ m.size \in Nat /\ m.argv \subseteq Frames
      /\ PagesOf(m.new) \in Nat /\ PagesOf(m.size) \in Nat
      /\ DOMAIN m = {"np", "root", "at", "old", "new", "perm", "then", "segs", "size", "argv"}
  BY <1>1 DEF InUvmalloc
<1>4. (m.then = "sbrk" => InSbrk(p)) /\ (m.then # "sbrk" => InExec(p) /\ Idle(p))
  BY <1>1 DEF InUvmalloc
<1>6. Growing(p) /\ Tree(ram, root) /\ root # NoFrame BY <1>1 DEF InUvmalloc
<1>7. /\ m.old <= m.at /\ m.at * PGSIZE < m.new /\ Maps(ram, root, m.at)
      /\ (UserPages(ram, root, m.at) \/ m.then = "sbrk")
  BY <1>1 DEF InUvmalloc
<1>8. m.at * PGSIZE \in Nat /\ (m.at + 1) * PGSIZE = m.at * PGSIZE + PGSIZE /\ m.new # 0
  BY <1>1 DEF InUvmalloc
<1>9. m.at < PagesOf(m.new) /\ m.at < PageLimit /\ PagesOf(m.new) <= PageLimit
  BY <1>1 DEF InUvmalloc
<1>10. t # "uvmalloc" => PagesOf(m.new) = m.at + 1
  <2>1. ASSUME t # "uvmalloc" PROVE PagesOf(m.new) = m.at + 1
    <3>1. (m.at + 1) * PGSIZE >= m.new BY <2>1
    <3> DEFINE y == m.at * PGSIZE
               z == (m.at + 1) * PGSIZE
               k == m.at + 1
    <3>2. y \in Nat /\ z = y + PGSIZE /\ y < m.new /\ z >= m.new /\ k \in Nat /\ z = k * PGSIZE
      BY <1>3, <1>7, <1>8, <3>1
    <3> HIDE DEF y, z, k
    <3>3. z < m.new + PGSIZE BY <1>3, <3>2, Constants
    <3>4. PagesOf(m.new) = k BY <1>3, <3>2, <3>3, PagesIs, Constants
    <3> QED BY <3>4 DEF k
  <2> QED BY <2>1
<1>11. t = "uvmalloc" => (m.at + 1) * PGSIZE < m.new
  <2>1. (m.at + 1) * PGSIZE \in Nat BY <1>3, Constants
  <2> QED BY <1>1, <1>2, <1>3, <2>1
<1>12. /\ NewPage(root, m.at, Zero, perm) /\ loc' = [loc EXCEPT ![p] = l] /\ pc' = [pc EXCEPT ![p] = t]
       /\ UNCHANGED procs /\ "R" \in perm /\ "U" \in perm /\ Zero # Data("kernel")
  BY Kinds DEF UvmallocPage, Goto
<1>13. IsLoc(l) /\ l.root = root /\ l.at = m.at + 1 /\ l.old = m.old /\ l.new = m.new /\ l.size = m.size
       /\ l.segs = m.segs /\ l.argv = m.argv /\ l.then = m.then
  <2>1. DOMAIN l = DOMAIN m /\ l.segs = m.segs /\ l.root = m.root
        /\ l.np = m.np /\ l.at = m.at + 1 /\ l.old = m.old
        /\ l.new = m.new /\ l.size = m.size /\ l.argv = m.argv /\ l.then = m.then
    BY <1>3
  <2> HIDE DEF l
  <2> QED BY <1>1, <1>2, <1>3, <2>1 DEF IsLoc
<1> HIDE DEF l, perm
<1>14. /\ loc'[p] = l /\ pc'[p] = t /\ t \in {m.then, "uvmalloc"} /\ t \in Pc
       /\ t \notin {"copy", "user", "reap"}
       /\ \A q \in Procs \ {p} : pc'[q] = pc[q] /\ loc'[q] = loc[q]
  BY <1>1, <1>2, <1>12 DEF Typed, Pc
<1>15. /\ state' = state /\ parent' = parent /\ trapframe' = trapframe
       /\ sz' = [sz EXCEPT ![p] = sz[p]] /\ pagetable' = [pagetable EXCEPT ![p] = pagetable[p]]
       /\ sz' = sz /\ pagetable' = pagetable /\ sz[p] \in Nat /\ pagetable[p] \in Frames
  BY <1>1, <1>2, <1>12, ProcsSame
<1> HIDE DEF t
<1>16. \A q \in Procs : NewRoot(q)' = NewRoot(q) /\ loc'[q].argv = loc[q].argv
  <2>1. NewRoot(p)' = NewRoot(p) /\ loc'[p].argv = loc[p].argv
    BY <1>13, <1>14, <1>15 DEF NewRoot
  <2>2. ASSUME NEW q \in Procs \ {p} PROVE NewRoot(q)' = NewRoot(q) /\ loc'[q].argv = loc[q].argv
    <3>1. loc'[q] = loc[q] /\ pagetable'[q] = pagetable[q] BY <1>14, <1>15
    <3> QED BY <3>1 DEF NewRoot
  <2> QED BY <2>1, <2>2
<1>17. PICK o \in Owners :
         /\ o \in {<<"space", p>>, <<"image", p>>}
         /\ Holding[o] = SpaceOf(ram, root) /\ Holding'[o] = SpaceOf(ram', root)
         /\ m.then # "sbrk" => o = <<"image", p>>
  BY <1>1, <1>15, <1>16, UvmallocOwner
<1>18. o \in Owners /\ o # <<"free", 0>> /\ \A q \in Procs : o \notin {<<"trapframe", q>>, <<"args", q>>}
  <2>1. o[1] \in {"space", "image"} BY <1>17
  <2> QED BY <1>17, <2>1
<1>19. Grown(root, o, m.at, Zero, perm) BY <1>3, <1>6, <1>7, <1>9, <1>12, <1>17, <1>18, Grows
<1>20. PICK g1, g0, F :
    /\ PageMade(root, m.at, Zero, perm, g1, g0, F)
    /\ Stays({<<"free", 0>>, o}, TablesOf(ram, root) \cup F)
    /\ Maps(ram', root, m.at + 1)
    /\ UserPages(ram, root, m.at) /\ "U" \in perm => UserPages(ram', root, m.at + 1)
  BY <1>19 DEF Grown
<1>21. /\ F \subseteq free /\ free' = free \ F /\ Tree(ram', root)
       /\ SpaceOf(ram', root) = SpaceOf(ram, root) \cup F
       /\ ram' = [f \in Frames |-> ram'[f]] /\ Managed(ram') = Managed(ram) /\ panic' = FALSE
  BY <1>20 DEF PageMade
<1> DEFINE S == {<<"free", 0>>, o}
           C == TablesOf(ram, root) \cup F
<1>22. Partition(Holding, Managed(ram))'
  <2>1. Stays({<<"free", 0>>, o}, C) BY <1>20
  <2> HIDE DEF C
  <2> QED BY <1>15, <1>16, <1>17, <1>18, <1>21, <2>1, GrownParts
<1>23. Idle(p) <=> m.then # "sbrk" BY <1>1, <1>2 DEF Idle
<1>24. Idle(p)' <=> m.then # "sbrk" BY <1>1, <1>2, <1>13, <1>14 DEF Idle
<1>25. Process(p)'
  <2>1. Tree(ram', pagetable[p]) /\ (Idle(p) => Maps(ram', pagetable[p], PagesOf(sz[p])))
    <3>1. CASE m.then = "sbrk" BY <1>4, <1>21, <1>23, <3>1 DEF InSbrk
    <3>2. CASE m.then # "sbrk"
      <4>1. <<"space", p>> \notin S /\ Stays(S, C) BY <1>17, <1>20, <3>2
      <4> HIDE DEF S, C
      <4>2. Alike(ram, ram', pagetable[p]) BY <1>2, <1>15, <4>1, KeptSpace
      <4>3. Tree(ram', pagetable[p]) /\ \A n : Maps(ram, pagetable[p], n) => Maps(ram', pagetable[p], n)
        BY <4>2, Zenon DEF Alike
      <4> QED BY <1>2, <4>3
    <3> QED BY <3>1, <3>2
  <2> QED BY <1>1, <1>2, <1>14, <1>15, <1>23, <1>24, <2>1 DEF Process
<1>26. t = "uvmalloc" => Growing(p)'
  <2>1. UserPages(ram', root, m.at + 1) \/ m.then = "sbrk" BY <1>7, <1>12, <1>20
  <2> QED BY <1>3, <1>6, <1>7, <1>11, <1>13, <1>14, <1>20, <2>1 DEF Growing
<1>27. t # "uvmalloc" => Maps(ram', root, PagesOf(m.new))
         /\ (m.then # "sbrk" => UserPages(ram', root, PagesOf(m.new)))
  BY <1>7, <1>10, <1>12, <1>20
<1>28. m.then = "sbrk" => InSbrk(p)'
  <2>1. ASSUME m.then = "sbrk" PROVE InSbrk(p)'
    <3>1. root = pagetable[p] /\ m.argv = {} /\ m.old = PagesOf(sz[p])
      BY <1>1, <1>2, <1>4, <2>1 DEF InSbrk
    <3>2. t = "sbrk" => Maps(ram', root, PagesOf(IF m.new = 0 THEN sz[p] ELSE m.new))
      BY <1>8, <1>27
    <3> QED BY <1>9, <1>13, <1>14, <1>15, <1>26, <3>1, <3>2 DEF InSbrk
  <2> QED BY <2>1
<1>29. m.then # "sbrk" => InExec(p)'
  <2>1. ASSUME m.then # "sbrk" PROVE InExec(p)'
    <3>1. InExec(p) /\ m.then \in {"load", "stack"} BY <1>1, <1>2, <1>4, <2>1
    <3>2. root # pagetable[p] /\ PagesOf(m.size) + 2 <= PageLimit /\ m.old = PagesOf(m.size)
      BY <1>1, <1>2, <3>1 DEF InExec
    <3>3. m.then = "load" =>
            /\ m.segs # <<>>
            /\ m.new # 0 => Head(m.segs).vaddr + Head(m.segs).memsz <= m.new /\ PagesOf(m.new) + 2 <= PageLimit
      BY <1>1, <1>2, <3>1 DEF InExec
    <3>4. m.then = "stack" => m.size % PGSIZE = 0 /\ (m.new # 0 => m.new = m.size + 2 * PGSIZE)
      BY <1>1, <1>2, <3>1 DEF InExec
    <3>5. t # "uvmalloc" =>
            \E n \in {PagesOf(IF m.new = 0 THEN m.size ELSE m.new)} : Maps(ram', root, n)
              /\ UserPages(ram', root, n)
      BY <1>8, <1>27, <2>1
    <3> QED BY <1>6, <1>13, <1>14, <1>15, <1>21, <1>26, <3>1, <3>2, <3>3, <3>4, <3>5 DEF InExec
  <2> QED BY <2>1
<1>30. Caller(p)' BY <1>1, <1>2, <1>13, <1>14, <1>24, <1>28, <1>29 DEF Caller
<1>31. \A q \in Procs \ {p} : <<"space", q>> \notin S /\ <<"image", q>> \notin S BY <1>17
<1>32. Stays(S, C) /\ free' \subseteq Frames BY <1>1, <1>2, <1>20, <1>21 DEF Typed
<1>33. S = {<<"free", 0>>, o} /\ root = loc[p].root /\ m = loc[p] OBVIOUS
<1> HIDE DEF S, C
<1>34. Good' /\ OthersRest({p}, S)
  BY <1>1, <1>2, <1>12, <1>13, <1>14, <1>15, <1>21, <1>22, <1>25, <1>30, <1>31, <1>32, Alone
<1>35. GotPage(p) BY <1>17, <1>19, <1>33, <1>34 DEF GotPage, perm
<1> QED BY <1>34, <1>35

\* A page of a process holds data of its own.
LEMMA OwnPage ==
  ASSUME Good, NEW p \in Procs, state[p] = "runnable", Idle(p), NEW k \in Nat, k < PagesOf(sz[p])
  PROVE  /\ Pte(pagetable[p], k) = Ent(ram, pagetable[p], k) /\ "R" \in Pte(pagetable[p], k).perm
         /\ ram[Pte(pagetable[p], k).pa] # Data("kernel")
<1>1. /\ Tree(ram, pagetable[p]) /\ Maps(ram, pagetable[p], PagesOf(sz[p])) /\ PagesOf(sz[p]) \in Nat
      /\ PagesOf(sz[p]) <= PageLimit /\ pagetable[p] # NoFrame
  BY Runs
<1>2. k < PageLimit BY <1>1, Constants
<1>3. k \in Addresses \ Top BY <1>2, PageIn
<1>4. Pte(pagetable[p], k) = Ent(ram, pagetable[p], k) BY PteIs
<1>5. k \in 0 .. PagesOf(sz[p]) - 1 BY <1>1
<1>6. Ent(ram, pagetable[p], k).pa # NoFrame /\ "R" \in Ent(ram, pagetable[p], k).perm
  BY <1>1, <1>3, <1>5 DEF Maps
<1>7. Ent(ram, pagetable[p], k).pa \in SpaceOf(ram, pagetable[p])
  BY <1>1, <1>3, <1>6 DEF SpaceOf, LeavesOf
<1>8. Holding[<<"space", p>>] = SpaceOf(ram, pagetable[p]) /\ <<"space", p>> \in Owners
  BY HoldingIs, OwnersAre
<1>9. Ent(ram, pagetable[p], k).pa \in Managed(ram) BY <1>7, <1>8, Parts
<1> QED BY <1>4, <1>6, <1>9 DEF Managed

\* uvmcopy() copies another page.
CopiedPage(p) ==
  \E root, pte : /\ root = pagetable[loc[p].np] /\ pte = Pte(pagetable[p], loc[p].at)
                 /\ Grown(root, <<"space", loc[p].np>>, loc[p].at, ram[pte.pa], pte.perm)

\* uvmcopy() copies another page.
LEMMA CopyPageKeeps ==
  ASSUME Good, NEW p \in Procs, CopyPage(p)
  PROVE  /\ Good' /\ CopiedPage(p)
         /\ Footprint({p, loc[p].np}, <<"space", p>>)
<1>1. pc[p] = "copy" /\ state[p] = "runnable" /\ InFork(p) /\ IsLoc(loc[p])
      /\ PagesOf(sz[p]) \in Nat /\ PagesOf(sz[p]) <= PageLimit /\ sz[p] \in Nat
  BY PcApart DEF CopyPage, Good, Caller
<1>2. PICK x, k : x = loc[p].np /\ k = loc[p].at /\ x \in Procs /\ state[x] = "used" /\ k <= PagesOf(sz[p])
                  /\ Maps(ram, pagetable[x], k) /\ k \in Nat
  BY <1>1 DEF InFork, IsLoc
<1>3. Typed /\ Process(p) /\ Process(x) /\ Forks /\ ~ panic BY <1>2 DEF Good
<1>4. Tree(ram, pagetable[x]) /\ trapframe[x] # NoFrame /\ pagetable[x] # NoFrame /\ x # p /\ pc[x] = "user"
      /\ loc[x] = NoCall /\ sz[x] = 0 /\ pagetable[x] \in Frames
  BY <1>1, <1>2, <1>3 DEF Process, Typed
<1>5. k * PGSIZE < sz[p] /\ k < PagesOf(sz[p]) /\ k < PageLimit
  <2>1. k * PGSIZE < sz[p] BY <1>2 DEF CopyPage
  <2>2. k < PagesOf(sz[p]) BY <1>1, <1>2, <2>1, PagesCover
  <2> QED BY <1>1, <1>2, <2>1, <2>2, Constants
<1>6. PICK root, contents, perm : root = pagetable[x] /\ perm = Pte(pagetable[p], k).perm
                                  /\ contents = ram[Pte(pagetable[p], k).pa]
  OBVIOUS
<1>7. NewPage(root, k, contents, perm) BY <1>2, <1>6 DEF CopyPage
<1>8. Idle(p) BY <1>1 DEF Idle
<1>9. "R" \in perm /\ contents # Data("kernel") BY <1>1, <1>2, <1>5, <1>6, <1>8, OwnPage
<1> DEFINE m == loc[p]
           l == [m EXCEPT !.at = @ + 1]
<1>10. loc' = [loc EXCEPT ![p] = l] /\ pc' = pc /\ UNCHANGED procs BY DEF CopyPage
<1>11. IsLoc(l) /\ l.np = x /\ l.root = NoFrame /\ l.argv = {} /\ l.at = k + 1
  <2>1. DOMAIN m = {"np", "root", "at", "old", "new", "perm", "then", "segs", "size", "argv"}
        /\ m.np = x /\ m.root = NoFrame /\ m.argv = {} /\ m.at = k
    BY <1>1, <1>2 DEF IsLoc, InFork
  <2>2. DOMAIN l = DOMAIN m /\ l.segs = m.segs /\ l.root = m.root
        /\ l.np = m.np /\ l.at = k + 1 /\ l.old = m.old
        /\ l.new = m.new /\ l.size = m.size /\ l.argv = m.argv
    BY <2>1
  <2> HIDE DEF l
  <2> QED BY <1>1, <1>2, <2>1, <2>2 DEF IsLoc
<1> HIDE DEF l
<1>12. loc'[p] = l /\ \A q \in Procs \ {p} : loc'[q] = loc[q] BY <1>3, <1>10 DEF Typed
<1>13. /\ state' = state /\ parent' = parent /\ trapframe' = trapframe
       /\ sz' = sz /\ pagetable' = pagetable
  BY <1>1, <1>10, ProcsSame
<1>14. \A q \in Procs : NewRoot(q)' = NewRoot(q) /\ loc'[q].argv = loc[q].argv
  <2>1. NewRoot(p)' = NewRoot(p) /\ loc'[p].argv = loc[p].argv
    BY <1>1, <1>11, <1>12, <1>13 DEF NewRoot, InFork
  <2>2. ASSUME NEW q \in Procs \ {p} PROVE NewRoot(q)' = NewRoot(q) /\ loc'[q].argv = loc[q].argv
    <3>1. loc'[q] = loc[q] /\ pagetable'[q] = pagetable[q] BY <1>12, <1>13
    <3> QED BY <3>1 DEF NewRoot
  <2> QED BY <2>1, <2>2
<1> DEFINE o == <<"space", x>>
           S == {<<"free", 0>>, o}
           X == {p, x}
<1>15. o \in Owners /\ o # <<"free", 0>> /\ Holding[o] = SpaceOf(ram, root)
  BY <1>2, <1>6, OwnersAre, HoldingIs
<1>16. Grown(root, o, k, contents, perm)
  <2> HIDE DEF o
  <2> QED BY <1>2, <1>4, <1>5, <1>6, <1>7, <1>9, <1>15, Grows
<1>17. PICK g1, g0, F :
    /\ PageMade(root, k, contents, perm, g1, g0, F)
    /\ Stays({<<"free", 0>>, o}, TablesOf(ram, root) \cup F)
    /\ Maps(ram', root, k + 1)
  BY <1>16 DEF Grown
<1>18. /\ F \subseteq free /\ free' = free \ F /\ Tree(ram', root)
       /\ SpaceOf(ram', root) = SpaceOf(ram, root) \cup F
       /\ ram' = [f \in Frames |-> ram'[f]] /\ Managed(ram') = Managed(ram) /\ panic' = FALSE
  BY <1>17 DEF PageMade
<1> DEFINE C == TablesOf(ram, root) \cup F
<1>19. Stays(S, C) BY <1>17
<1>20. Partition(Holding, Managed(ram))'
  <2>1. Holding'[o] = SpaceOf(ram, root) \cup F
    <3>1. Holding'[o] = SpaceOf(ram', pagetable'[x]) BY <1>2, HoldingNext
    <3>2. pagetable'[x] = root BY <1>6, <1>13
    <3> QED BY <1>18, <3>1, <3>2
  <2>2. \A q \in Procs : pagetable'[q] = pagetable[q] /\ trapframe'[q] = trapframe[q] BY <1>13
  <2>3. Stays({<<"free", 0>>, o}, C) BY <1>19
  <2> HIDE DEF C, o
  <2> QED BY <1>14, <1>15, <1>18, <2>1, <2>2, <2>3, GrownParts, ZenonT(40)
<1>21. Typed'
  <2>1. \A q \in Procs : IsLoc(loc'[q]) BY <1>3, <1>11, <1>12 DEF Typed
  <2>2. loc' = [q \in Procs |-> loc'[q]] BY <1>3, <1>10 DEF Typed
  <2>3. free' \subseteq Frames BY <1>3, <1>18 DEF Typed
  <2> QED BY <1>3, <1>10, <1>13, <1>18, <2>1, <2>2, <2>3 DEF Typed
<1>22. Forks'
  <2>1. \A q \in Procs : pc'[q] = pc[q] /\ loc'[q].np = loc[q].np BY <1>2, <1>10, <1>11, <1>12
  <2> QED BY <1>3, <2>1 DEF Forks
<1>23. OthersRest(X, S)
  <2>1. ASSUME NEW q \in Procs \ {p, x}, pc[q] = "copy" PROVE loc[q].np \notin {p, x}
    <3>1. state[loc[q].np] = "used" BY <2>1, PcApart
    <3> QED BY <1>1, <1>2, <1>3, <2>1, <3>1 DEF Forks
  <2>2. ASSUME NEW q \in Procs \ {p, x}, pc[q] = "reap"
        PROVE  loc[q].np \notin {p, x} /\ parent'[loc[q].np] = parent[loc[q].np]
    <3>1. loc[q].np \in Procs /\ state[loc[q].np] = "zombie" BY <2>2, PcApart
    <3> QED BY <1>1, <1>2, <1>13, <3>1
  <2>3. ASSUME NEW q \in Procs \ {p, x} PROVE <<"space", q>> \notin S /\ <<"image", q>> \notin S
    OBVIOUS
  <2> HIDE DEF S
  <2> QED BY <1>10, <1>12, <1>13, <2>1, <2>2, <2>3 DEF OthersRest
<1>24. Process(p)' /\ Caller(p)'
  <2>1. Idle(p)' BY <1>1, <1>10 DEF Idle
  <2>2. <<"space", p>> \notin S BY <1>4
  <2>3. Alike(ram, ram', pagetable[p])
    <3>1. pagetable[p] # NoFrame BY <1>1, <1>3 DEF Process
    <3> HIDE DEF S, C
    <3> QED BY <1>13, <1>19, <2>2, <3>1, KeptSpace
  <2>4. Tree(ram', pagetable[p]) /\ \A n : Maps(ram, pagetable[p], n) => Maps(ram', pagetable[p], n)
    BY <2>3, Zenon DEF Alike
  <2>5. Process(p)' BY <1>1, <1>3, <1>8, <1>10, <1>13, <2>1, <2>4 DEF Process
  <2>6. InFork(p)'
    <3>1. loc'[p].root = NoFrame /\ loc'[p].argv = {} /\ loc'[p].np = x /\ loc'[p].at = k + 1
      BY <1>11, <1>12
    <3>2. k + 1 <= PagesOf(sz'[p]) BY <1>1, <1>2, <1>5, <1>13
    <3>3. state'[loc'[p].np] = "used" /\ Maps(ram', pagetable'[loc'[p].np], loc'[p].at)
      BY <1>2, <1>6, <1>13, <1>17, <3>1
    <3> QED BY <1>2, <3>1, <3>2, <3>3 DEF InFork
  <2> QED BY <1>1, <1>10, <2>1, <2>5, <2>6 DEF Caller
<1>25. Process(x)' /\ Caller(x)'
  <2>1. PagesOf(0) <= PageLimit BY ZeroPages, Constants
  <2>2. loc'[x] = NoCall /\ pc'[x] = "user" BY <1>2, <1>4, <1>10, <1>12
  <2> QED BY <1>2, <1>4, <1>6, <1>13, <1>18, <2>1, <2>2 DEF Process, Caller, Idle
<1>26. \A q \in X : Process(q)' /\ Caller(q)' BY <1>24, <1>25
<1>30. o = <<"space", x>> OBVIOUS
<1>27. <<"space", p>> \notin S BY <1>4
<1> HIDE DEF X, S, C, o
<1>28. Good' BY <1>18, <1>19, <1>20, <1>21, <1>22, <1>23, <1>26, Together
<1>29. X = {p, loc[p].np} BY <1>2 DEF X
<1>31. CopiedPage(p) BY <1>2, <1>6, <1>16, <1>30 DEF CopiedPage
<1>32. Footprint({p, loc[p].np}, <<"space", p>>) BY <1>19, <1>23, <1>27, <1>29 DEF Footprint
<1> QED BY <1>28, <1>31, <1>32

-----
\* Pages that are taken away: uvmdealloc().
\* The pages from j of a page table that has n go back.
LEMMA Unmaps ==
  ASSUME NEW r, ram = [f \in Frames |-> ram[f]], Tree(ram, r), SpaceOf(ram, r) \subseteq Managed(ram),
         NEW j \in Nat, NEW n \in Nat, j <= n, n <= PageLimit, Maps(ram, r, n),
         NEW K, \A x : x \in K <=> x \in j .. n - 1, NEW m2, m2 = Unmapped(r, K)
  PROVE  /\ Tree(m2, r) /\ SpaceOf(m2, r) = SpaceOf(ram, r) \ FramesAt(r, K)
         /\ TablesOf(m2, r) = TablesOf(ram, r) /\ FramesAt(r, K) \subseteq SpaceOf(ram, r)
         /\ \A va \in Addresses : /\ Mid(m2, r, va) = Mid(ram, r, va) /\ Low(m2, r, va) = Low(ram, r, va)
                                  /\ Ent(m2, r, va) = IF va \in K THEN NoPte ELSE Ent(ram, r, va)
         /\ \A x \in Frames \ (TablesOf(ram, r) \cup FramesAt(r, K)) : m2[x] = ram[x]
         /\ Managed(m2) = Managed(ram) /\ m2 = [f \in Frames |-> m2[f]]
         /\ Maps(m2, r, j) /\ (UserPages(ram, r, n) => UserPages(m2, r, j))
         /\ Still(ram, m2, r, j)
<1>1. \A k \in 0 .. n - 1 : k \in Addresses \ Top BY PageIn, Constants
<1>2. K \in SUBSET (Addresses \ Top) /\ K \subseteq 0 .. n - 1 BY <1>1
<1>3. \A k \in K : Ent(ram, r, k).pa # NoFrame BY <1>2 DEF Maps
<1>4. /\ Tree(m2, r) /\ SpaceOf(m2, r) = SpaceOf(ram, r) \ FramesAt(r, K)
      /\ TablesOf(m2, r) = TablesOf(ram, r) /\ FramesAt(r, K) \subseteq LeavesOf(ram, r)
      /\ \A va \in Addresses : /\ Mid(m2, r, va) = Mid(ram, r, va) /\ Low(m2, r, va) = Low(ram, r, va)
                               /\ Ent(m2, r, va) = IF va \in K THEN NoPte ELSE Ent(ram, r, va)
      /\ \A x \in Frames \ (TablesOf(ram, r) \cup FramesAt(r, K)) : m2[x] = ram[x]
      /\ Managed(m2) = Managed(ram) /\ m2 = [f \in Frames |-> m2[f]]
  BY <1>2, <1>3, UnmappedIs
<1>5. LeavesOf(ram, r) \subseteq SpaceOf(ram, r) BY Constants DEF SpaceOf, Tree
<1>6. Maps(m2, r, j)
  <2>1. \A va \in Addresses : va \in 0 .. j - 1 \cup Top <=> va \in 0 .. n - 1 \cup Top /\ va \notin K
    BY <1>1
  <2>2. 0 .. j - 1 \subseteq 0 .. n - 1 /\ \A va \in 0 .. j - 1 \cup Top : va \notin K
    BY <1>1, <1>2
  <2>3. NoPte.pa = NoFrame BY Ptes
  <2> QED BY <1>4, <2>1, <2>2, <2>3 DEF Maps
<1>7. UserPages(ram, r, n) => UserPages(m2, r, j)
  <2>1. \A va \in 0 .. j - 1 : va \in Addresses /\ va \in 0 .. n - 1 /\ va \notin K BY <1>1
  <2> QED BY <1>4, <2>1 DEF UserPages
<1>8. ASSUME NEW k \in 0 .. j - 1
      PROVE  Ent(m2, r, k) = Ent(ram, r, k) /\ m2[Ent(ram, r, k).pa] = ram[Ent(ram, r, k).pa]
  <2>1. k \in Addresses \ Top /\ k \notin K /\ k \in 0 .. n - 1 BY <1>1
  <2>2. PICK x : x = Ent(ram, r, k).pa OBVIOUS
  <2>3. x # NoFrame BY <2>1, <2>2 DEF Maps
  <2>4. x \in Frames \ TablesOf(ram, r) BY <2>1, <2>2, <2>3 DEF Tree
  <2>5. x \notin FramesAt(r, K)
    <3>1. SUFFICES ASSUME NEW h \in K, x = Pte(r, h).pa PROVE FALSE BY DEF FramesAt
    <3>2. Ent(ram, r, h).pa = x /\ h \in Addresses \ Top /\ h # k BY <1>2, <2>1, <3>1, PteIs
    <3> QED BY <2>1, <2>2, <2>3, <3>2 DEF Tree
  <2> QED BY <1>4, <2>1, <2>2, <2>4, <2>5
<1>9. Still(ram, m2, r, j) BY <1>8 DEF Still
<1> QED BY <1>4, <1>5, <1>6, <1>7, <1>9

\* The owner o of the page table root has given back all pages from j of n; it may have
\* taken a frame for a page-table page.
Shrunk(root, o, j, n, C, G, T) ==
    /\ G \subseteq SpaceOf(ram, root) /\ T \subseteq free /\ free' = (free \ T) \cup G
    /\ Tree(ram', root) /\ SpaceOf(ram', root) = (SpaceOf(ram, root) \ G) \cup T
    /\ Managed(ram') = Managed(ram) /\ ram' = [f \in Frames |-> ram'[f]]
    /\ Stays({<<"free", 0>>, o}, C)
    /\ Maps(ram', root, j) /\ (UserPages(ram, root, n) => UserPages(ram', root, j))
    /\ Still(ram, ram', root, j)

\* uvmdealloc() of the pages from j.
LEMMA Shrinks ==
  ASSUME Good, NEW o \in Owners, o # <<"free", 0>>, NEW root, Holding[o] = SpaceOf(ram, root), Tree(ram, root),
         NEW j \in Nat, NEW n \in Nat, j <= n, n <= PageLimit, Maps(ram, root, n),
         NEW K, K = j .. n - 1, ram' = Unmapped(root, K), free' = free \cup FramesAt(root, K)
  PROVE  \E C, G, T : Shrunk(root, o, j, n, C, G, T)
<1>1. ram = [f \in Frames |-> ram[f]] /\ SpaceOf(ram, root) \subseteq Managed(ram)
  BY Parts DEF Typed
<1>2. PICK m2 : m2 = ram' /\ m2 = Unmapped(root, K) OBVIOUS
<1>2a. \A x : x \in K <=> x \in j .. n - 1 OBVIOUS
<1> DEFINE G == FramesAt(root, K)
           C == TablesOf(ram, root) \cup G
<1>3. /\ Tree(m2, root) /\ SpaceOf(m2, root) = SpaceOf(ram, root) \ FramesAt(root, K)
      /\ FramesAt(root, K) \subseteq SpaceOf(ram, root)
      /\ \A x \in Frames \ (TablesOf(ram, root) \cup FramesAt(root, K)) : m2[x] = ram[x]
      /\ Managed(m2) = Managed(ram) /\ m2 = [f \in Frames |-> m2[f]]
      /\ Maps(m2, root, j) /\ (UserPages(ram, root, n) => UserPages(m2, root, j))
      /\ Still(ram, m2, root, j)
  BY <1>1, <1>2, <1>2a, Unmaps
<1>4. TablesOf(ram, root) \subseteq SpaceOf(ram, root) BY Constants DEF SpaceOf, Tree
<1>5. Stays({<<"free", 0>>, o}, C) BY <1>2, <1>3, <1>4, OwnersAre DEF Stays
<1>6. /\ G \subseteq SpaceOf(ram, root) /\ {} \subseteq free /\ free' = (free \ {}) \cup G
      /\ Tree(ram', root) /\ SpaceOf(ram', root) = (SpaceOf(ram, root) \ G) \cup {}
      /\ Managed(ram') = Managed(ram) /\ ram' = [f \in Frames |-> ram'[f]]
      /\ Stays({<<"free", 0>>, o}, C)
      /\ Maps(ram', root, j) /\ (UserPages(ram, root, n) => UserPages(ram', root, j))
      /\ Still(ram, ram', root, j)
  BY <1>2, <1>3, <1>5
<1>7. Shrunk(root, o, j, n, C, G, {}) BY <1>6 DEF Shrunk
<1> QED BY <1>7, Zenon

\* The same when walk() had made a page-table page before the memory ran out.
LEMMA ShrinksTable ==
  ASSUME Good, NEW o \in Owners, o # <<"free", 0>>, NEW root, Holding[o] = SpaceOf(ram, root), Tree(ram, root),
         NEW j \in Nat, NEW n \in Nat, j <= n, n < PageLimit, Maps(ram, root, n),
         NEW K, K = j .. n - 1, Mid(ram, root, n) = NoFrame, FreeFrames(2),
         free' = (free \ {Frame2}) \cup FramesAt(root, K),
         ram' = [Unmapped(root, K) EXCEPT ![root].table[PX(2, n)] = Pointer(Frame2),
                                          ![Frame2] = [table |-> [e \in Entries |-> NoPte]]]
  PROVE  \E C, G, T : Shrunk(root, o, j, n, C, G, T)
<1>1. ram = [f \in Frames |-> ram[f]] /\ SpaceOf(ram, root) \subseteq Managed(ram) /\ free \subseteq Frames
  BY Parts DEF Typed
<1>2. PICK m2, g, m3 : m2 = Unmapped(root, K) /\ g = Frame2 /\ m3 = ram' OBVIOUS
<1>3. g \in free /\ g \in Frames /\ g # NoFrame /\ g \in Managed(ram)
  BY <1>1, <1>2, Taken, Parts, Constants
<1>4. free \cap SpaceOf(ram, root) = {} BY HoldingIs, OwnersAre, Parts DEF Partition
<1>5. n <= PageLimit /\ n \in Addresses \ Top BY PageIn, Constants
<1> DEFINE G == FramesAt(root, K)
           C == (TablesOf(ram, root) \cup G) \cup {g}
<1>6. /\ Tree(m2, root) /\ SpaceOf(m2, root) = SpaceOf(ram, root) \ FramesAt(root, K)
      /\ TablesOf(m2, root) = TablesOf(ram, root) /\ FramesAt(root, K) \subseteq SpaceOf(ram, root)
      /\ \A va \in Addresses : /\ Mid(m2, root, va) = Mid(ram, root, va)
                               /\ Low(m2, root, va) = Low(ram, root, va)
                               /\ Ent(m2, root, va) = IF va \in K THEN NoPte ELSE Ent(ram, root, va)
      /\ \A x \in Frames \ (TablesOf(ram, root) \cup FramesAt(root, K)) : m2[x] = ram[x]
      /\ Managed(m2) = Managed(ram) /\ m2 = [f \in Frames |-> m2[f]]
      /\ Maps(m2, root, j) /\ (UserPages(ram, root, n) => UserPages(m2, root, j))
      /\ Still(ram, m2, root, j)
  BY <1>1, <1>2, <1>5, Unmaps, SMTT(30)
<1>7. TablesOf(ram, root) \subseteq SpaceOf(ram, root) /\ root \in TablesOf(ram, root) /\ root \in Frames
  BY Constants DEF SpaceOf, Tree, TablesOf
<1>8. g # root /\ g \notin TablesOf(m2, root) /\ g \notin SpaceOf(m2, root)
  BY <1>3, <1>4, <1>6, <1>7
<1>9. IsTable(m2[root]) BY <1>6, <1>7 DEF Tree
<1>10. PX(2, n) \in Entries BY <1>5, PxIn
<1>11. /\ m3 = [f \in Frames |-> m3[f]] /\ m3[root] = [m2[root] EXCEPT !.table[PX(2, n)] = Pointer(g)]
       /\ m3[g] = [table |-> [e \in Entries |-> NoPte]]
       /\ \A x \in Frames \ {root, g} : m3[x] = m2[x]
  <2>1. m3 = [m2 EXCEPT ![root].table[PX(2, n)] = Pointer(g), ![g] = [table |-> [e \in Entries |-> NoPte]]]
    BY <1>2
  <2> QED BY <1>3, <1>6, <1>7, <1>8, <2>1
<1>12. /\ IsTable(m3[root])
       /\ \A e \in Entries : m3[root].table[e] = IF e = PX(2, n) THEN Pointer(g) ELSE m2[root].table[e]
  <2>1. IsPte(Pointer(g)) BY <1>3, Ptes
  <2>2. PICK k, pte, x : k = PX(2, n) /\ pte = Pointer(g) /\ x = m2[root] OBVIOUS
  <2>3. IsTable([x EXCEPT !.table[k] = pte])
        /\ \A e \in Entries : [x EXCEPT !.table[k] = pte].table[e] = IF e = k THEN pte ELSE x.table[e]
    BY <1>9, <1>10, <2>1, <2>2, TableSet
  <2>4. m3[root] = [x EXCEPT !.table[k] = pte] BY <1>11, <2>2
  <2> QED BY <2>2, <2>3, <2>4
<1>13. /\ IsTable(m3[g]) /\ \A e \in Entries : m3[g].table[e] = NoPte
  <2>1. IsPte(NoPte) /\ NoPte = Pointer(NoFrame) BY Ptes
  <2>2. PICK t : t = m3[g] OBVIOUS
  <2>3. t = [table |-> [e \in Entries |-> NoPte]] BY <1>11, <2>2
  <2>4. t.table = [e \in Entries |-> NoPte] /\ t = [table |-> t.table] BY <2>3
  <2>5. \A e \in Entries : t.table[e] = NoPte BY <2>4
  <2>6. t.table = [e \in Entries |-> t.table[e]] BY <2>4
  <2> QED BY <2>1, <2>2, <2>4, <2>5, <2>6 DEF IsTable
<1>14. Pointer(NoFrame) = NoPte BY Ptes
<1>15. /\ Extends(m2, m3, root, n, g, NoFrame, NoPte)
       /\ \A x \in TablesOf(m2, root) \cup ({g, NoFrame} \ {NoFrame}) : IsTable(m3[x])
  <2>1. g \in Frames \ TablesOf(m2, root) /\ NoFrame \in (Frames \cup {NoFrame}) \ (TablesOf(m2, root) \cup {g})
    BY <1>3, <1>8 DEF TablesOf
  <2>2. Mid(m2, root, n) = NoFrame /\ n \in Addresses BY <1>5, <1>6
  <2>3. \A x \in TablesOf(m2, root) \ {root} : m3[x] = m2[x] BY <1>6, <1>8, <1>11 DEF Tree
  <2>4. Tree(m2, root) /\ IsTable(m3[root]) /\ IsTable(m3[g]) /\ n \in Addresses
          /\ g \in Frames \ TablesOf(m2, root)
        /\ Mid(m2, root, n) = NoFrame
    BY <1>6, <1>12, <1>13, <2>1, <2>2
  <2>5. \A e \in Entries : m3[root].table[e] = IF e = PX(2, n) THEN Pointer(g) ELSE m2[root].table[e]
    BY <1>12
  <2>6. \A e \in Entries : m3[g].table[e] = NoPte BY <1>13
  <2> QED BY <2>3, <2>4, <2>5, <2>6, ExtendsEmpty, Zenon
<1>16. Low(m2, root, n) = NoFrame /\ Ent(m2, root, n) = NoPte
  <2>1. Mid(m2, root, n) = NoFrame BY <1>5, <1>6
  <2> QED BY <2>1 DEF Low, Ent
<1>17. Added(m2, root, n, g, NoFrame, NoPte)
  <2>1. Mid(m2, root, n) = NoFrame BY <1>5, <1>6
  <2> QED BY <1>3, <1>8, <1>16, <2>1 DEF Added
<1>18. NewFrames(n, g, NoFrame, NoPte) = {g} BY <1>3, <1>5, Ptes DEF NewFrames
<1>19. Tree(m3, root) /\ SpaceOf(m3, root) = SpaceOf(m2, root) \cup {g}
  BY <1>5, <1>6, <1>15, <1>17, <1>18, Extended
<1>20. \A va \in Addresses : Ent(m3, root, va) = Ent(m2, root, va) BY <1>15, <1>16 DEF Extends
<1>21. Maps(m3, root, j) /\ (UserPages(ram, root, n) => UserPages(m3, root, j))
  <2>1. Maps(m3, root, j) BY <1>6, <1>20 DEF Maps
  <2>2. \A k \in 0 .. j - 1 : k \in Addresses BY <1>5, PageIn, Constants
  <2> QED BY <1>6, <1>20, <2>1, <2>2 DEF UserPages
<1>22. \A x \in Frames \ C : m3[x] = ram[x] BY <1>6, <1>7, <1>11
<1>23. Managed(m3) = Managed(ram)
  <2>1. \A x : IsTable(x) => x # Data("kernel") BY Kinds
  <2>2. m3[root] # Data("kernel") /\ m3[g] # Data("kernel") /\ m2[root] # Data("kernel")
    BY <1>9, <1>12, <1>13, <2>1
  <2>3. Managed(m3) = Managed(m2)
    <3>1. \A x \in Frames : m3[x] # Data("kernel") <=> m2[x] # Data("kernel")
      BY <1>3, <1>6, <1>7, <1>11, <2>2 DEF Managed
    <3> QED BY <3>1 DEF Managed
  <2> QED BY <1>6, <2>3
<1>24. Stays({<<"free", 0>>, o}, C)
  <2>1. \A x \in C : \E y \in {<<"free", 0>>, o} : x \in Holding[y]
    <3>1. Holding[<<"free", 0>>] = free BY HoldingIs
    <3> QED BY <1>3, <1>6, <1>7, <3>1
  <2> HIDE DEF C
  <2> QED BY <1>2, <1>22, <2>1, OwnersAre DEF Stays
<1>25. SpaceOf(m3, root) = (SpaceOf(ram, root) \ G) \cup {g} /\ free' = (free \ {g}) \cup G
  BY <1>2, <1>6, <1>19
<1>26. /\ G \subseteq SpaceOf(ram, root) /\ {g} \subseteq free /\ free' = (free \ {g}) \cup G
       /\ Tree(ram', root) /\ SpaceOf(ram', root) = (SpaceOf(ram, root) \ G) \cup {g}
       /\ Managed(ram') = Managed(ram) /\ ram' = [f \in Frames |-> ram'[f]]
       /\ Stays({<<"free", 0>>, o}, C)
       /\ Maps(ram', root, j) /\ (UserPages(ram, root, n) => UserPages(ram', root, j))
       /\ Still(ram, ram', root, j)
  <2>1. ASSUME NEW k \in 0 .. j - 1
        PROVE  Ent(m3, root, k) = Ent(ram, root, k) /\ m3[Ent(ram, root, k).pa] = ram[Ent(ram, root, k).pa]
    <3>1. k \in Addresses \ Top /\ k \in 0 .. n - 1 BY <1>5, PageIn, Constants
    <3>2. PICK x : x = Ent(ram, root, k).pa OBVIOUS
    <3>3. x # NoFrame BY <3>1, <3>2 DEF Maps
    <3>4. x \in Frames \ TablesOf(ram, root) /\ x \in LeavesOf(ram, root)
      BY <3>1, <3>2, <3>3 DEF Tree, LeavesOf
    <3>5. x \in SpaceOf(ram, root) BY <3>4, Constants DEF SpaceOf, Tree
    <3>6. x # root /\ x # g BY <1>3, <1>4, <1>7, <3>4, <3>5
    <3>7. Ent(m2, root, k) = Ent(ram, root, k) /\ m2[x] = ram[x] BY <1>6, <3>2 DEF Still
    <3> QED BY <1>11, <1>20, <3>1, <3>2, <3>4, <3>6, <3>7
  <2>2. Still(ram, m3, root, j) BY <2>1 DEF Still
  <2> QED BY <1>2, <1>3, <1>6, <1>11, <1>19, <1>21, <1>23, <1>24, <1>25, <2>2
<1>27. Shrunk(root, o, j, n, C, G, {g}) BY <1>26 DEF Shrunk
<1> QED BY <1>27, Zenon

\* What that does to the frames.
LEMMA ShrunkParts ==
  ASSUME Good, NEW o \in Owners, o # <<"free", 0>>, NEW root, Holding[o] = SpaceOf(ram, root),
         NEW G, NEW T, NEW C, G \subseteq SpaceOf(ram, root), T \subseteq free, free' = (free \ T) \cup G,
         Managed(ram') = Managed(ram), Stays({<<"free", 0>>, o}, C),
         Holding'[o] = (SpaceOf(ram, root) \ G) \cup T,
         \A q \in Procs : /\ <<"space", q>> # o => pagetable'[q] = pagetable[q]
                          /\ <<"image", q>> # o => NewRoot(q)' = NewRoot(q)
                          /\ <<"trapframe", q>> # o => trapframe'[q] = trapframe[q]
                          /\ <<"args", q>> # o => loc'[q].argv = loc[q].argv
  PROVE  Partition(Holding, Managed(ram))'
<1> DEFINE e == <<"free", 0>>
           S == {e, o}
<1>1. e \in Owners /\ Holding[e] = free /\ Holding'[e] = (free \ T) \cup G
  BY HoldingIs, HoldingNext, OwnersAre
<1>2. free \cap SpaceOf(ram, root) = {} BY <1>1, Parts DEF Partition
<1>3. \A q \in Procs : /\ <<"space", q>> \notin S => pagetable'[q] = pagetable[q]
                       /\ <<"image", q>> \notin S => NewRoot(q)' = NewRoot(q)
                       /\ <<"trapframe", q>> \notin S => trapframe'[q] = trapframe[q]
                       /\ <<"args", q>> \notin S => loc'[q].argv = loc[q].argv
  OBVIOUS
<1>4. \A a, b \in S : a # b => Holding'[a] \cap Holding'[b] = {} BY <1>1, <1>2
<1>5. \A f : (\E a \in S : f \in Holding'[a]) <=> (\E a \in S : f \in Holding[a]) BY <1>1, <1>2
<1>6. <<"free", 0>> \in S /\ Stays(S, C) BY SMTT(30)
<1> HIDE DEF S
<1> QED BY <1>3, <1>4, <1>5, <1>6, PartitionStep

\* uvmalloc() has not got a page and has given back those it had.
LEMMA UvmallocShrinks ==
  ASSUME Good, NEW p \in Procs, UvmallocFails(p), NEW o \in Owners, o # <<"free", 0>>,
         Holding[o] = SpaceOf(ram, loc[p].root)
  PROVE  \E C, G, T : Shrunk(loc[p].root, o, loc[p].old, loc[p].at, C, G, T)
<1>1. PICK m, root, K : m = loc[p] /\ root = m.root /\ K = m.old .. m.at - 1 OBVIOUS
<1>2. InUvmalloc(p, m, root) BY <1>1, Uvmallocs DEF UvmallocFails
<1>3. /\ Tree(ram, root) /\ m.old \in Nat /\ m.at \in Nat /\ m.old <= m.at /\ m.at < PageLimit
      /\ m.at <= PageLimit /\ Maps(ram, root, m.at)
  BY <1>2, Constants DEF InUvmalloc
<1>4. CASE /\ Missing(root, m.at) = 2 /\ FreeFrames(2)
           /\ free' = (free \ {Frame2}) \cup FramesAt(root, K)
           /\ ram' = [Unmapped(root, K) EXCEPT
                       ![root].table[PX(2, m.at)] = Pointer(Frame2),
                       ![Frame2] = [table |-> [e \in Entries |-> NoPte]]]
  <2>1. Mid(ram, root, m.at) = NoFrame BY <1>4, PteIs DEF Missing
  <2>2. PICK j, n : j = m.old /\ n = m.at BY SMTT(30)
  <2>3. \E C, G, T : Shrunk(root, o, j, n, C, G, T)
    BY <1>1, <1>3, <1>4, <2>1, <2>2, ShrinksTable
  <2> QED BY <1>1, <2>2, <2>3
<1>5. CASE free' = free \cup FramesAt(root, K) /\ ram' = Unmapped(root, K)
  <2>1. PICK j, n : j = m.old /\ n = m.at OBVIOUS
  <2>2. \E C, G, T : Shrunk(root, o, j, n, C, G, T) BY <1>1, <1>3, <1>5, <2>1, Shrinks
  <2> QED BY <1>1, <2>1, <2>2
<1> QED BY <1>1, <1>4, <1>5 DEF UvmallocFails

\* It has the pages it had before the call.
GaveBack(p) ==
  \E o \in {<<"space", p>>, <<"image", p>>} : \E C, G, T :
    /\ Shrunk(loc[p].root, o, loc[p].old, loc[p].at, C, G, T)
    /\ OthersRest({p}, {<<"free", 0>>, o})
    /\ loc[p].then # "sbrk" => o = <<"image", p>>

\* uvmalloc() fails and the call goes on with what it had.
LEMMA UvmallocFailsKeeps ==
  ASSUME Good, NEW p \in Procs, UvmallocFails(p)
  PROVE  Good' /\ GaveBack(p)
<1> DEFINE m == loc[p]
           root == m.root
           l == [m EXCEPT !.new = 0]
<1>1. InUvmalloc(p, m, root) /\ pc[p] = "uvmalloc" BY Uvmallocs DEF UvmallocFails
<1>2. /\ state[p] = "runnable" /\ Process(p) /\ Caller(p) /\ IsLoc(m) /\ Typed /\ panic = FALSE
      /\ m.then \in {"sbrk", "load", "stack"}
      /\ pagetable[p] \in Frames /\ pagetable[p] # NoFrame /\ Tree(ram, pagetable[p])
      /\ (Idle(p) => Maps(ram, pagetable[p], PagesOf(sz[p])))
  BY <1>1 DEF InUvmalloc, Typed
<1>3. /\ m.at \in Nat /\ m.old \in Nat /\ m.size \in Nat
      /\ DOMAIN m = {"np", "root", "at", "old", "new", "perm", "then", "segs", "size", "argv"}
  BY <1>1 DEF InUvmalloc
<1>4. (m.then = "sbrk" => InSbrk(p)) /\ (m.then # "sbrk" => InExec(p) /\ Idle(p))
  BY <1>1 DEF InUvmalloc
<1>5. UserPages(ram, root, m.at) \/ m.then = "sbrk" BY <1>1 DEF InUvmalloc
<1>6. loc' = [loc EXCEPT ![p] = l] /\ pc' = [pc EXCEPT ![p] = m.then] /\ UNCHANGED procs /\ panic' = FALSE
  BY <1>2 DEF UvmallocFails, Goto
<1>7. IsLoc(l) /\ l.root = root /\ l.new = 0 /\ l.size = m.size /\ l.segs = m.segs /\ l.argv = m.argv
      /\ l.then = m.then
  <2>1. DOMAIN l = DOMAIN m /\ l.segs = m.segs /\ l.root = m.root
        /\ l.np = m.np /\ l.at = m.at /\ l.old = m.old
        /\ l.new = 0 /\ l.size = m.size /\ l.argv = m.argv /\ l.then = m.then
    BY <1>3
  <2> HIDE DEF l
  <2> QED BY <1>2, <1>3, <2>1 DEF IsLoc
<1> HIDE DEF l
<1>8. /\ loc'[p] = l /\ pc'[p] = m.then /\ m.then \in Pc /\ m.then # "copy"
      /\ \A q \in Procs \ {p} : pc'[q] = pc[q] /\ loc'[q] = loc[q]
  BY <1>2, <1>6 DEF Typed, Pc
<1>9. /\ state' = state /\ parent' = parent /\ trapframe' = trapframe
      /\ sz' = [sz EXCEPT ![p] = sz[p]] /\ pagetable' = [pagetable EXCEPT ![p] = pagetable[p]]
      /\ sz' = sz /\ pagetable' = pagetable /\ sz[p] \in Nat /\ pagetable[p] \in Frames
  BY <1>2, <1>6, ProcsSame
<1>10. \A q \in Procs : NewRoot(q)' = NewRoot(q) /\ loc'[q].argv = loc[q].argv
  <2>1. NewRoot(p)' = NewRoot(p) /\ loc'[p].argv = loc[p].argv BY <1>7, <1>8, <1>9 DEF NewRoot
  <2>2. ASSUME NEW q \in Procs \ {p} PROVE NewRoot(q)' = NewRoot(q) /\ loc'[q].argv = loc[q].argv
    <3>1. loc'[q] = loc[q] /\ pagetable'[q] = pagetable[q] BY <1>8, <1>9
    <3> QED BY <3>1 DEF NewRoot
  <2> QED BY <2>1, <2>2
<1>11. PICK o \in Owners :
         /\ o \in {<<"space", p>>, <<"image", p>>}
         /\ Holding[o] = SpaceOf(ram, root) /\ Holding'[o] = SpaceOf(ram', root)
         /\ m.then # "sbrk" => o = <<"image", p>>
  BY <1>1, <1>9, <1>10, UvmallocOwner
<1>12. o \in Owners /\ o # <<"free", 0>> /\ \A q \in Procs : o \notin {<<"trapframe", q>>, <<"args", q>>}
  <2>1. o[1] \in {"space", "image"} BY <1>11
  <2> QED BY <1>11, <2>1
<1>13. PICK C, G, T : Shrunk(root, o, m.old, m.at, C, G, T) BY <1>11, <1>12, UvmallocShrinks
<1>14. /\ G \subseteq SpaceOf(ram, root) /\ T \subseteq free /\ free' = (free \ T) \cup G
       /\ Tree(ram', root) /\ SpaceOf(ram', root) = (SpaceOf(ram, root) \ G) \cup T
       /\ Managed(ram') = Managed(ram) /\ ram' = [f \in Frames |-> ram'[f]]
       /\ Stays({<<"free", 0>>, o}, C)
       /\ Maps(ram', root, m.old) /\ (UserPages(ram, root, m.at) => UserPages(ram', root, m.old))
  BY <1>13 DEF Shrunk
<1>15. Partition(Holding, Managed(ram))'
  <2>1. Holding'[o] = (SpaceOf(ram, root) \ G) \cup T BY <1>11, <1>14
  <2>2. \A q \in Procs : pagetable'[q] = pagetable[q] /\ trapframe'[q] = trapframe[q] BY <1>9
  <2> QED BY <1>10, <1>11, <1>12, <1>14, <2>1, <2>2, ShrunkParts, ZenonT(40)
<1> DEFINE S == {<<"free", 0>>, o}
<1>16. Stays(S, C) BY <1>14
<1>17. (Idle(p) <=> m.then # "sbrk") /\ (Idle(p)' <=> m.then # "sbrk")
  BY <1>1, <1>2, <1>7, <1>8 DEF Idle
<1>18. Process(p)'
  <2>1. Tree(ram', pagetable[p]) /\ (Idle(p) => Maps(ram', pagetable[p], PagesOf(sz[p])))
    <3>1. CASE m.then = "sbrk" BY <1>4, <1>14, <1>17, <3>1 DEF InSbrk
    <3>2. CASE m.then # "sbrk"
      <4>1. <<"space", p>> \notin S BY <1>11, <3>2
      <4> HIDE DEF S
      <4>2. Alike(ram, ram', pagetable[p]) BY <1>2, <1>9, <1>16, <4>1, KeptSpace
      <4>3. Tree(ram', pagetable[p]) /\ \A n : Maps(ram, pagetable[p], n) => Maps(ram', pagetable[p], n)
        BY <4>2, Zenon DEF Alike
      <4> QED BY <1>2, <4>3
    <3> QED BY <3>1, <3>2
  <2> QED BY <1>1, <1>2, <1>8, <1>9, <1>17, <2>1 DEF Process
<1>19. m.then = "sbrk" => InSbrk(p)'
  <2>1. ASSUME m.then = "sbrk" PROVE InSbrk(p)'
    <3>1. root = pagetable[p] /\ m.argv = {} /\ m.old = PagesOf(sz[p])
      BY <1>1, <1>4, <2>1 DEF InSbrk
    <3>2. PagesOf(0) <= PageLimit BY ZeroPages, Constants
    <3> QED BY <1>7, <1>8, <1>9, <1>14, <2>1, <3>1, <3>2 DEF InSbrk
  <2> QED BY <2>1
<1>20. m.then # "sbrk" => InExec(p)'
  <2>1. ASSUME m.then # "sbrk" PROVE InExec(p)'
    <3>1. InExec(p) /\ m.then \in {"load", "stack"} /\ root # NoFrame
      BY <1>1, <1>2, <1>4, <2>1 DEF InUvmalloc
    <3>2. root # pagetable[p] /\ PagesOf(m.size) + 2 <= PageLimit /\ m.old = PagesOf(m.size)
      BY <1>1, <3>1 DEF InExec
    <3>3. m.then = "load" => m.segs # <<>> BY <1>1, <3>1 DEF InExec
    <3>4. m.then = "stack" => m.size % PGSIZE = 0 BY <1>1, <3>1 DEF InExec
    <3>5. Maps(ram', root, PagesOf(m.size)) /\ UserPages(ram', root, PagesOf(m.size))
      BY <1>5, <1>14, <2>1, <3>2
    <3> QED BY <1>7, <1>8, <1>9, <1>14, <3>1, <3>2, <3>3, <3>4, <3>5 DEF InExec
  <2> QED BY <2>1
<1>21. Caller(p)' BY <1>2, <1>8, <1>17, <1>19, <1>20 DEF Caller
<1>22. \A q \in Procs \ {p} : <<"space", q>> \notin S /\ <<"image", q>> \notin S BY <1>11
<1>23. free' \subseteq Frames
  <2>1. SpaceOf(ram, root) \subseteq Frames BY <1>11, Parts
  <2> QED BY <1>2, <1>14, <2>1 DEF Typed
<1>24. S = {<<"free", 0>>, o} /\ root = loc[p].root /\ m = loc[p] OBVIOUS
<1> HIDE DEF S
<1>25. Good' /\ OthersRest({p}, S)
  BY <1>2, <1>6, <1>7, <1>8, <1>9, <1>14, <1>15, <1>16, <1>18, <1>21, <1>22, <1>23, Alone,
    ZenonT(40)
<1>26. GaveBack(p) BY <1>11, <1>13, <1>24, <1>25 DEF GaveBack
<1> QED BY <1>25, <1>26

\* sbrk() below zero.
LEMMA SbrkShrinks ==
  ASSUME Good, NEW p \in Procs, NEW d \in Int, state[p] = "runnable", pc[p] = "user", d < 0, sz[p] + d >= 0,
         NEW K, K = PagesFrom(sz[p] + d, sz[p]),
         ram' = Unmapped(pagetable[p], K), free' = free \cup FramesAt(pagetable[p], K),
         sz' = [sz EXCEPT ![p] = @ + d], UNCHANGED <<panic, pc, loc, state, parent, pagetable, trapframe>>
  PROVE  /\ Good' /\ OthersRest({p}, {<<"free", 0>>, <<"space", p>>})
         /\ \E C, G, T : Shrunk(pagetable[p], <<"space", p>>, PagesOf(sz[p] + d), PagesOf(sz[p]), C, G, T)
<1>1. PICK root, s, j, n : root = pagetable[p] /\ s = sz[p] + d /\ j = PagesOf(s) /\ n = PagesOf(sz[p])
  OBVIOUS
<1>2. /\ pagetable[p] \in Frames /\ pagetable[p] # NoFrame /\ Tree(ram, root) /\ sz[p] \in Nat
      /\ n \in Nat /\ n <= PageLimit /\ IsLoc(loc[p]) /\ pc[p] \in Pc /\ root \in Frames
  BY <1>1, Runs
<1>3. loc[p] = NoCall /\ NewRoot(p) = NoFrame /\ Idle(p) /\ Maps(ram, root, n) BY <1>1, User
<1>4. Typed /\ Process(p) /\ Caller(p) /\ panic = FALSE BY DEF Good, Typed
<1>5. s \in Nat /\ s <= sz[p] /\ j \in Nat /\ j <= n
  <2>1. s \in Nat /\ s <= sz[p] BY <1>1, <1>2
  <2> QED BY <1>1, <1>2, <2>1, PagesAre, PagesGrow
<1>6. K = j .. n - 1 BY <1>1 DEF PagesFrom
<1> DEFINE o == <<"space", p>>
           S == {<<"free", 0>>, o}
<1>7. o \in Owners /\ o # <<"free", 0>> /\ Holding[o] = SpaceOf(ram, root)
  BY <1>1, HoldingIs, OwnersAre
<1>8. PICK C, G, T : Shrunk(root, o, j, n, C, G, T)
  <2>1. ram' = Unmapped(root, K) /\ free' = free \cup FramesAt(root, K) BY <1>1
  <2> HIDE DEF o
  <2> QED BY <1>2, <1>3, <1>5, <1>6, <1>7, <2>1, Shrinks
<1>9. /\ G \subseteq SpaceOf(ram, root) /\ T \subseteq free /\ free' = (free \ T) \cup G
      /\ Tree(ram', root) /\ SpaceOf(ram', root) = (SpaceOf(ram, root) \ G) \cup T
      /\ Managed(ram') = Managed(ram) /\ ram' = [f \in Frames |-> ram'[f]]
      /\ Stays({<<"free", 0>>, o}, C) /\ Maps(ram', root, j)
  BY <1>8 DEF Shrunk
<1>10. /\ state' = state /\ parent' = parent /\ trapframe' = trapframe /\ panic' = FALSE
       /\ pagetable' = pagetable /\ pc' = pc /\ loc' = loc /\ sz' = [sz EXCEPT ![p] = s] /\ sz'[p] = s
       /\ pagetable' = [pagetable EXCEPT ![p] = root] /\ pc' = [pc EXCEPT ![p] = pc[p]]
       /\ loc' = [loc EXCEPT ![p] = loc[p]]
  BY <1>1, <1>4 DEF Typed
<1>11. Partition(Holding, Managed(ram))'
  <2>1. Holding'[o] = (SpaceOf(ram, root) \ G) \cup T
    <3>1. Holding'[o] = SpaceOf(ram', pagetable'[p]) BY HoldingNext
    <3> QED BY <1>1, <1>9, <1>10, <3>1
  <2>2. \A q \in Procs : /\ pagetable'[q] = pagetable[q] /\ trapframe'[q] = trapframe[q]
                         /\ NewRoot(q)' = NewRoot(q) /\ loc'[q].argv = loc[q].argv
    BY <1>10 DEF NewRoot
  <2> HIDE DEF o
  <2> QED BY <1>7, <1>9, <2>1, <2>2, ShrunkParts
<1>12. Process(p)'
  <2>1. PagesOf(s) <= PageLimit BY <1>1, <1>2, <1>5, Constants
  <2> QED BY <1>1, <1>4, <1>9, <1>10, <2>1 DEF Process
<1>13. Caller(p)' BY <1>10 DEF Caller, Idle
<1>14. \A q \in Procs \ {p} : <<"space", q>> \notin S /\ <<"image", q>> \notin S OBVIOUS
<1>15. Stays(S, C) /\ free' \subseteq Frames
  <2>1. SpaceOf(ram, root) \subseteq Frames BY <1>7, Parts
  <2> QED BY <1>4, <1>9, <2>1 DEF Typed
<1>18. S = {<<"free", 0>>, <<"space", p>>} /\ o = <<"space", p>> OBVIOUS
<1> HIDE DEF S
<1>16. PICK t, l : t = pc[p] /\ l = loc[p] OBVIOUS
<1>17. /\ pc' = [pc EXCEPT ![p] = t] /\ loc' = [loc EXCEPT ![p] = l] /\ t \in Pc /\ t # "copy" /\ IsLoc(l)
  BY <1>2, <1>10, <1>16
<1>19. Good' /\ OthersRest({p}, S)
  BY <1>2, <1>5, <1>9, <1>10, <1>11, <1>12, <1>13, <1>14, <1>15, <1>17, Alone
<1>20. Shrunk(pagetable[p], o, PagesOf(sz[p] + d), PagesOf(sz[p]), C, G, T) BY <1>1, <1>8
<1> QED BY <1>18, <1>19, <1>20

\* sbrk().
LEMMA SbrkKeeps ==
  ASSUME Good, NEW p \in Procs, NEW d \in Int, Sbrk(p, d)
  PROVE  Good'
<1>1. CASE /\ d > 0
           /\ Uvmalloc(p, [NoCall EXCEPT !.root = pagetable[p]], sz[p], sz[p] + d, {"W"}, "sbrk")
           /\ UNCHANGED <<memory, sz>>
  <2>1. UNCHANGED <<memory, procs>> /\ Calls(p) /\ PagesOf(sz[p] + d) <= PageLimit
    BY <1>1 DEF Sbrk, procs
  <2> QED BY <1>1, <2>1, SbrkGrows
<1>2. CASE /\ d < 0 /\ sz[p] + d >= 0
           /\ \E K \in {PagesFrom(sz[p] + d, sz[p])} :
                /\ ram' = Unmapped(pagetable[p], K) /\ free' = free \cup FramesAt(pagetable[p], K)
           /\ sz' = [sz EXCEPT ![p] = @ + d]
           /\ UNCHANGED <<panic, pc, loc>>
  <2>1. state[p] = "runnable" /\ pc[p] = "user"
          /\ UNCHANGED <<panic, pc, loc, state, parent, pagetable, trapframe>>
    BY <1>2 DEF Sbrk, Calls
  <2> QED BY <1>2, <2>1, SbrkShrinks
<1>3. CASE d < 0 /\ sz[p] + d < 0 /\ UNCHANGED <<memory, sz, pc, loc>>
  <2>1. UNCHANGED <<memory, procs, pc, loc>> BY <1>3 DEF Sbrk, procs
  <2> QED BY <2>1, Same
<1> QED BY <1>1, <1>2, <1>3 DEF Sbrk

-----
\* exec() commits.
\* An entry that keeps its page and may be read.
LEMMA Protects ==
  ASSUME NEW m, NEW m2, NEW r, Tree(m, r), NEW n, Maps(m, r, n), NEW va \in Addresses \ Top, NEW q,
         q.pa = Ent(m, r, va).pa, "R" \in q.perm,
         Extends(m, m2, r, va, Mid(m, r, va), Low(m, r, va), q), \A x \in TablesOf(m, r) : IsTable(m2[x])
  PROVE  Tree(m2, r) /\ SpaceOf(m2, r) = SpaceOf(m, r) /\ Maps(m2, r, n)
<1>1. ASSUME NEW vb \in Addresses
      PROVE  /\ Mid(m2, r, vb) = Mid(m, r, vb) /\ Low(m2, r, vb) = Low(m, r, vb)
             /\ Ent(m2, r, vb) = (IF vb = va THEN q ELSE Ent(m, r, vb))
             /\ Ent(m2, r, vb).pa = Ent(m, r, vb).pa
  <2>1. /\ Mid(m2, r, vb) = IF PX(2, vb) = PX(2, va) THEN Mid(m, r, va) ELSE Mid(m, r, vb)
        /\ Low(m2, r, vb) =
             IF PX(2, vb) = PX(2, va) /\ PX(1, vb) = PX(1, va) THEN Low(m, r, va) ELSE Low(m, r, vb)
        /\ Ent(m2, r, vb) = IF vb = va THEN q ELSE Ent(m, r, vb)
    BY DEF Extends
  <2>2. PX(2, vb) = PX(2, va) => Mid(m, r, va) = Mid(m, r, vb) BY DEF Mid
  <2>3. PX(2, vb) = PX(2, va) /\ PX(1, vb) = PX(1, va) => Low(m, r, va) = Low(m, r, vb)
    BY <2>2 DEF Low
  <2> QED BY <2>1, <2>2, <2>3
<1>2. Tree(m2, r) /\ TablesOf(m2, r) = TablesOf(m, r)
  <2>1. \A vb \in Addresses : /\ Mid(m2, r, vb) = Mid(m, r, vb) /\ Low(m2, r, vb) = Low(m, r, vb)
                              /\ Ent(m2, r, vb).pa \in {NoFrame, Ent(m, r, vb).pa}
    BY <1>1
  <2> QED BY <2>1, Changed
<1>3. LeavesOf(m2, r) = LeavesOf(m, r) BY <1>1 DEF LeavesOf
<1>4. SpaceOf(m2, r) = SpaceOf(m, r) BY <1>2, <1>3 DEF SpaceOf
<1>5. Maps(m2, r, n) BY <1>1 DEF Maps
<1> QED BY <1>2, <1>4, <1>5

\* The memory that exec() commits: the frames F are given back.
Cleared(root, guard, F) ==
  ram' = [f \in Frames |->
            IF f \in F THEN Junk ELSE
              [Copyout(root, {guard + 1}, "args") EXCEPT
                 ![Next0(root, guard)].table[PX(0, guard)].perm = @ \ {"U"}][f]]

\* What the first n pages have become.
ClearedPages(root, guard, n) ==
  \A k \in 0 .. n - 1 :
    /\ Ent(ram', root, k)
         = IF k = guard
             THEN [pa |-> Ent(ram, root, k).pa, perm |-> Ent(ram, root, k).perm \ {"U"}]
             ELSE Ent(ram, root, k)
    /\ ram'[Ent(ram, root, k).pa]
         = IF k = guard + 1 /\ "U" \in Ent(ram, root, k).perm
             THEN Data("args") ELSE ram[Ent(ram, root, k).pa]

\* uvmclear() and copyout() for the stack of the new image, while the old one is freed.
LEMMA Clears ==
  ASSUME Good, NEW root, Tree(ram, root), SpaceOf(ram, root) \subseteq Managed(ram),
    NEW n \in Nat, n <= PageLimit,
         Maps(ram, root, n), NEW guard \in Nat, guard + 1 < n,
         NEW F, F \subseteq Managed(ram), F \cap SpaceOf(ram, root) = {},
         Cleared(root, guard, F)
  PROVE  /\ Tree(ram', root) /\ SpaceOf(ram', root) = SpaceOf(ram, root) /\ Maps(ram', root, n)
         /\ ram' = [f \in Frames |-> ram'[f]] /\ Managed(ram') = Managed(ram)
         /\ \A x \in Frames \ (F \cup SpaceOf(ram, root)) : ram'[x] = ram[x]
         /\ ClearedPages(root, guard, n)
<1>1. guard \in Addresses \ Top /\ guard + 1 \in Addresses \ Top /\ guard \in 0 .. n - 1
        /\ guard + 1 \in 0 .. n - 1
  BY PageIn, Constants
<1>2. PICK low, k, mm, pte : /\ low = Low(ram, root, guard) /\ k = PX(0, guard)
                             /\ mm = Copyout(root, {guard + 1}, "args") /\ pte = Ent(ram, root, guard)
  OBVIOUS
<1>3. pte.pa # NoFrame /\ "R" \in pte.perm /\ IsPte(pte) BY <1>1, <1>2, TreeFacts DEF Maps
<1>4. low # NoFrame /\ low \in TablesOf(ram, root) /\ low \in Frames /\ IsTable(ram[low]) /\ k \in Entries
      /\ pte = ram[low].table[k] /\ low \in SpaceOf(ram, root)
  <2>1. low # NoFrame BY <1>1, <1>2, <1>3, TreeFacts
  <2>2. low \in TablesOf(ram, root) /\ low \in Frames /\ IsTable(ram[low])
    BY <1>1, <1>2, <2>1, TreeFacts
  <2>3. pte = ram[low].table[k] /\ k \in Entries BY <1>1, <1>2, <2>1, PxIn DEF Ent
  <2>4. root # NoFrame BY Constants DEF Tree
  <2> QED BY <2>1, <2>2, <2>3, <2>4 DEF SpaceOf
<1>5. /\ mm = [f \in Frames |-> mm[f]] /\ \A f \in Frames \ LeavesOf(ram, root) : mm[f] = ram[f]
      /\ \A f \in Frames : mm[f] = ram[f] \/ mm[f] # Data("kernel")
  <2>1. PICK G : G = FramesAt(root, Reached(root, {guard + 1})) OBVIOUS
  <2>2. mm = [f \in Frames |-> IF f \in G THEN Data("args") ELSE ram[f]]
    BY <1>2, <2>1 DEF Copyout
  <2>3. G \subseteq LeavesOf(ram, root)
    <3>1. \A x \in Reached(root, {guard + 1}) : x \in Addresses /\ IsUser(root, x)
      BY <1>1 DEF Reached
    <3>2. \A x \in Reached(root, {guard + 1}) : Pte(root, x).pa \in LeavesOf(ram, root)
      BY <3>1, UserLeaf
    <3> QED BY <2>1, <3>2 DEF FramesAt
  <2>4. Data("args") # Data("kernel") BY Kinds
  <2> QED BY <2>2, <2>3, <2>4
<1>6. TablesOf(ram, root) \cap LeavesOf(ram, root) = {} /\ TablesOf(ram, root) \subseteq Frames
  BY DEF Tree, LeavesOf
<1>7. LeavesOf(ram, root) \subseteq SpaceOf(ram, root) /\ TablesOf(ram, root) \subseteq SpaceOf(ram, root)
  <2>1. root # NoFrame BY Constants DEF Tree
  <2> QED BY <2>1 DEF SpaceOf
<1> DEFINE q == [pte EXCEPT !.perm = @ \ {"U"}]
<1>8. IsPte(q) /\ q.pa = pte.pa /\ "R" \in q.perm /\ q = [pa |-> pte.pa, perm |-> pte.perm \ {"U"}]
  <2>1. pte = [pa |-> pte.pa, perm |-> pte.perm] /\ pte.pa \in 0 .. NFRAMES + 1
    BY <1>3 DEF IsPte
  <2>2. q = [pa |-> pte.pa, perm |-> pte.perm \ {"U"}]
    <3>1. PICK a, b : a = pte.pa /\ b = pte.perm OBVIOUS
    <3>2. pte = [pa |-> a, perm |-> b] BY <2>1, <3>1
    <3>3. PICK w : w = [[pa |-> a, perm |-> b] EXCEPT !.perm = @ \ {"U"}] OBVIOUS
    <3>4. w = [pa |-> a, perm |-> b \ {"U"}] BY <3>3
    <3>5. q = w BY <3>2, <3>3
    <3> HIDE DEF q
    <3> QED BY <3>1, <3>4, <3>5
  <2>3. q.pa = pte.pa /\ q.perm = pte.perm \ {"U"} /\ q = [pa |-> q.pa, perm |-> q.perm] BY <2>2
  <2> HIDE DEF q
  <2> QED BY <1>3, <2>1, <2>2, <2>3 DEF IsPte
<1>9. mm[low] = ram[low] BY <1>4, <1>5, <1>6
<1>10. ram' = [f \in Frames |-> IF f \in F THEN Junk ELSE [mm EXCEPT ![low].table[k].perm = @ \ {"U"}][f]]
  <2> DEFINE w == [Copyout(root, {guard + 1}, "args") EXCEPT
                     ![Next0(root, guard)].table[PX(0, guard)].perm = @ \ {"U"}]
             w2 == [mm EXCEPT ![low].table[k].perm = @ \ {"U"}]
  <2>1. ram' = [f \in Frames |-> IF f \in F THEN Junk ELSE w[f]] BY DEF Cleared
  <2>2. Next0(root, guard) = low BY <1>2, PteIs
  <2>3. w = w2 BY <1>2, <2>2
  <2>4. PICK v : v = w OBVIOUS
  <2>5. ram' = [f \in Frames |-> IF f \in F THEN Junk ELSE v[f]] BY <2>1, <2>4
  <2> HIDE DEF w
  <2>6. v = w2 BY <2>3, <2>4
  <2> HIDE DEF w2
  <2> QED BY <2>5, <2>6 DEF w2
<1>11. /\ ram'[low] = [ram[low] EXCEPT !.table[k] = q]
       /\ \A f \in F \cap Frames : ram'[f] = Junk
       /\ \A f \in Frames \ (F \cup {low}) : ram'[f] = mm[f]
       /\ ram' = [f \in Frames |-> ram'[f]]
  <2>1. low \notin F BY <1>4
  <2>2. PICK x : x = mm[low] OBVIOUS
  <2>3. [mm EXCEPT ![low].table[k].perm = @ \ {"U"}]
          = [mm EXCEPT ![low] = [x EXCEPT !.table[k].perm = @ \ {"U"}]]
    BY <2>2
  <2>4. [x EXCEPT !.table[k].perm = @ \ {"U"}] = [x EXCEPT !.table[k] = q]
    <3>1. IsTable(x) /\ x.table[k] = pte BY <1>4, <1>9, <2>2
    <3>2. x = [table |-> x.table] /\ x.table = [e \in Entries |-> x.table[e]]
      BY <3>1 DEF IsTable
    <3> QED BY <1>4, <3>1, <3>2
  <2>5. PICK y : y = [x EXCEPT !.table[k] = q] OBVIOUS
  <2>6. ram' = [f \in Frames |-> IF f \in F THEN Junk ELSE [mm EXCEPT ![low] = y][f]]
    <3>1. PICK v : v = [mm EXCEPT ![low].table[k].perm = @ \ {"U"}] OBVIOUS
    <3>2. ram' = [f \in Frames |-> IF f \in F THEN Junk ELSE v[f]] BY <1>10, <3>1
    <3>3. [x EXCEPT !.table[k].perm = @ \ {"U"}] = y BY <2>4, <2>5
    <3>4. v = [mm EXCEPT ![low] = [x EXCEPT !.table[k].perm = @ \ {"U"}]] BY <2>3, <3>1
    <3>5. v = [mm EXCEPT ![low] = y] BY <3>3, <3>4
    <3> QED BY <3>2, <3>5
  <2> HIDE DEF q
  <2>7. \A f \in Frames : ram'[f] = IF f \in F THEN Junk ELSE [mm EXCEPT ![low] = y][f] BY <2>6
  <2>8. low \in Frames /\ low \in DOMAIN mm /\ DOMAIN mm = Frames BY <1>4, <1>5
  <2>9. [mm EXCEPT ![low] = y][low] = y /\ \A f \in Frames \ {low} : [mm EXCEPT ![low] = y][f] = mm[f]
    BY <2>8
  <2>10. y = [ram[low] EXCEPT !.table[k] = q] BY <1>9, <2>2, <2>5
  <2>11. ram'[low] = [ram[low] EXCEPT !.table[k] = q] BY <2>1, <2>7, <2>8, <2>9, <2>10
  <2>12. ram' = [f \in Frames |-> ram'[f]] BY <2>6
  <2>13. \A f \in Frames \ (F \cup {low}) : ram'[f] = mm[f] BY <2>7, <2>9
  <2>14. \A f \in F \cap Frames : ram'[f] = Junk BY <2>7
  <2> QED BY <2>11, <2>12, <2>13, <2>14
<1> HIDE DEF q
<1>12. IsTable(ram'[low]) /\ \A e \in Entries : ram'[low].table[e] = IF e = k THEN q ELSE ram[low].table[e]
  <2>1. PICK x, w : x = ram[low] /\ w = q OBVIOUS
  <2>3. IsTable(x) /\ k \in Entries /\ IsPte(w) BY <1>4, <1>8, <2>1
  <2>2. IsTable([x EXCEPT !.table[k] = w])
        /\ \A e \in Entries : [x EXCEPT !.table[k] = w].table[e] = IF e = k THEN w ELSE x.table[e]
    BY <2>3, TableSet
  <2> QED BY <1>11, <2>1, <2>2
<1>13. \A x \in TablesOf(ram, root) \ {low} : ram'[x] = ram[x] BY <1>5, <1>6, <1>7, <1>11
<1>14. /\ Extends(ram, ram', root, guard, Mid(ram, root, guard), low, q)
       /\ \A x \in TablesOf(ram, root) : IsTable(ram'[x])
  <2>1. PICK m2 : m2 = ram' OBVIOUS
  <2>2. /\ IsTable(m2[low]) /\ guard \in Addresses /\ low # NoFrame
        /\ \A e \in Entries : m2[low].table[e] = IF e = PX(0, guard) THEN q ELSE ram[low].table[e]
    BY <1>1, <1>2, <1>4, <1>12, <2>1
  <2>3. \A x \in TablesOf(ram, root) \ {low} : m2[x] = ram[x] BY <1>13, <2>1
  <2>4. /\ Extends(ram, m2, root, guard, Mid(ram, root, guard), low, q)
        /\ \A x \in TablesOf(ram, root) : IsTable(m2[x])
    BY <1>2, <2>2, <2>3, ExtendsHere
  <2> QED BY <2>1, <2>4
<1>15. Tree(ram', root) /\ SpaceOf(ram', root) = SpaceOf(ram, root) /\ Maps(ram', root, n)
  <2>1. PICK m2, w : m2 = ram' /\ w = q OBVIOUS
  <2>2. Extends(ram, m2, root, guard, Mid(ram, root, guard), Low(ram, root, guard), w)
    BY <1>2, <1>14, <2>1
  <2>3. (\A x \in TablesOf(ram, root) : IsTable(m2[x])) /\ guard \in Addresses \ Top
        /\ w.pa = Ent(ram, root, guard).pa /\ "R" \in w.perm
    BY <1>1, <1>2, <1>8, <1>14, <2>1
  <2>4. Tree(m2, root) /\ SpaceOf(m2, root) = SpaceOf(ram, root) /\ Maps(m2, root, n)
    BY <2>2, <2>3, Protects
  <2> QED BY <2>1, <2>4
<1>16. \A x \in Frames \ (F \cup SpaceOf(ram, root)) : ram'[x] = ram[x]
  BY <1>4, <1>5, <1>7, <1>11
<1>17. Managed(ram') = Managed(ram)
  <2>1. ram'[low] # Data("kernel") /\ ram[low] # Data("kernel") /\ Junk # Data("kernel")
    BY <1>4, <1>12, Kinds
  <2>2. ASSUME NEW x \in Frames PROVE ram'[x] # Data("kernel") <=> ram[x] # Data("kernel")
    <3>1. CASE x \in F BY <1>11, <2>1, <3>1 DEF Managed
    <3>2. CASE x = low BY <2>1, <3>2
    <3>3. CASE x \notin F /\ x # low /\ x \in LeavesOf(ram, root)
      BY <1>5, <1>7, <1>11, <3>3 DEF Managed
    <3>4. CASE x \notin F /\ x # low /\ x \notin LeavesOf(ram, root) BY <1>5, <1>11, <3>4
    <3> QED BY <3>1, <3>2, <3>3, <3>4
  <2> QED BY <2>2 DEF Managed
<1>18. ASSUME NEW c \in 0 .. n - 1
       PROVE  /\ Ent(ram', root, c)
                   = IF c = guard
                       THEN [pa |-> Ent(ram, root, c).pa, perm |-> Ent(ram, root, c).perm \ {"U"}]
                       ELSE Ent(ram, root, c)
              /\ ram'[Ent(ram, root, c).pa]
                   = IF c = guard + 1 /\ "U" \in Ent(ram, root, c).perm
                       THEN Data("args") ELSE ram[Ent(ram, root, c).pa]
  <2>1. c \in Addresses \ Top BY PageIn, Constants
  <2>2. PICK f : f = Ent(ram, root, c).pa OBVIOUS
  <2>3. f # NoFrame /\ f \in LeavesOf(ram, root) /\ f \in Frames
    <3>1. Ent(ram, root, c).pa # NoFrame BY <2>1 DEF Maps
    <3>2. Ent(ram, root, c).pa \in LeavesOf(ram, root) BY <2>1, <3>1 DEF LeavesOf
    <3>3. Ent(ram, root, c).pa \in Frames BY <2>1, <3>1 DEF Tree
    <3> QED BY <2>2, <3>1, <3>2, <3>3
  <2>4. ram'[f] = mm[f] BY <1>4, <1>6, <1>7, <1>11, <2>3
  <2>5. PICK G : G = FramesAt(root, Reached(root, {guard + 1})) OBVIOUS
  <2>6. mm[f] = IF f \in G THEN Data("args") ELSE ram[f] BY <1>2, <2>3, <2>5 DEF Copyout
  <2>7. f \in G <=> c = guard + 1 /\ "U" \in Ent(ram, root, c).perm
    <3>1. \A x : x \in Reached(root, {guard + 1}) <=> x = guard + 1 /\ IsUser(root, guard + 1)
      BY <1>1, Constants DEF Reached
    <3>2. f \in G <=> IsUser(root, guard + 1) /\ f = Pte(root, guard + 1).pa
      BY <2>5, <3>1 DEF FramesAt
    <3>3. Pte(root, guard + 1) = Ent(ram, root, guard + 1) BY PteIs
    <3>4. Ent(ram, root, guard + 1).pa = f => guard + 1 = c BY <1>1, <2>1, <2>2, <2>3 DEF Tree
    <3> QED BY <2>2, <3>2, <3>3, <3>4 DEF IsUser
  <2>8. Ent(ram', root, c) = IF c = guard THEN q ELSE Ent(ram, root, c)
    BY <1>14, <2>1 DEF Extends
  <2>9. c = guard => q = [pa |-> Ent(ram, root, c).pa, perm |-> Ent(ram, root, c).perm \ {"U"}]
    BY <1>2, <1>8
  <2> QED BY <2>2, <2>4, <2>6, <2>7, <2>8, <2>9
<1>19. ClearedPages(root, guard, n) BY <1>18 DEF ClearedPages
<1> QED BY <1>11, <1>15, <1>16, <1>17, <1>19

\* What Commit does to the pages of the new image.
Clearing(p) ==
  \E F : /\ F \subseteq Managed(ram) /\ F \cap SpaceOf(ram, loc[p].root) = {}
         /\ Cleared(loc[p].root, PagesOf(loc[p].size), F)

\* exec() has its new image.
LEMMA CommitKeeps ==
  ASSUME Good, NEW p \in Procs, Commit(p)
  PROVE  Good' /\ Footprint({p}, <<"trapframe", p>>) /\ Clearing(p)
<1>1. /\ pc[p] = "stack" /\ state[p] = "runnable" /\ InExec(p) /\ IsLoc(loc[p]) /\ NewRoot(p) = loc[p].root
      /\ Idle(p) /\ Maps(ram, pagetable[p], PagesOf(sz[p])) /\ loc[p].root # pagetable[p] /\ Process(p)
  BY Execs DEF Commit
<1>2. PICK root, argv, new, size, old :
        root = loc[p].root /\ argv = loc[p].argv /\ new = loc[p].new /\ size = loc[p].size /\ old = pagetable[p]
  OBVIOUS
<1>3. /\ Typed /\ panic = FALSE /\ old \in Frames /\ old # NoFrame /\ Tree(ram, old) /\ sz[p] \in Nat
      /\ PagesOf(sz[p]) <= PageLimit
  BY <1>1, <1>2, Runs DEF Good, Typed
<1>4. /\ root \in Frames /\ root # NoFrame /\ Tree(ram, root) /\ PagesOf(size) + 2 <= PageLimit
      /\ size % PGSIZE = 0 /\ new = size + 2 * PGSIZE /\ size \in Nat /\ argv \subseteq Frames
      /\ Maps(ram, root, PagesOf(new))
  <2>1. loc[p].new # 0 BY DEF Commit
  <2> QED BY <1>1, <1>2, <2>1 DEF InExec, IsLoc
<1>5. PICK n, guard : n = PagesOf(new) /\ guard = PagesOf(size) OBVIOUS
<1>6. /\ n = guard + 2 /\ new \div PGSIZE - 2 = guard
      /\ new \in Nat /\ guard \in Nat /\ n \in Nat /\ n <= PageLimit
  <2>1. guard \in Nat /\ PagesOf(new) = guard + 2 /\ new \div PGSIZE = guard + 2 /\ new \in Nat
    BY <1>4, <1>5, TwoMore, PagesAre
  <2> QED BY <1>4, <1>5, <2>1, Constants
<1>7. SpaceFrames(old, sz[p]) = SpaceOf(ram, old) /\ SpaceSound(old, sz[p])
  BY <1>1, <1>2, <1>3, SpaceParts
<1> DEFINE e == <<"free", 0>>
           o == <<"space", p>>
           i == <<"image", p>>
           a == <<"args", p>>
<1>8. /\ Holding[e] = free /\ Holding[o] = SpaceOf(ram, old) /\ Holding[i] = SpaceOf(ram, root)
      /\ Holding[a] = argv
  BY <1>1, <1>2, HoldingIs
<1>9. {e, o, i, a} \subseteq Owners BY OwnersAre
<1>10. PICK F : F = SpaceOf(ram, old) \cup argv OBVIOUS
<1>11. /\ F \subseteq Managed(ram) /\ F \subseteq Frames /\ SpaceOf(ram, root) \subseteq Managed(ram)
       /\ F \cap SpaceOf(ram, root) = {} /\ F \cap free = {} /\ free \cap SpaceOf(ram, root) = {}
       /\ SpaceOf(ram, old) \cap argv = {} /\ SpaceOf(ram, root) \subseteq Frames
  BY <1>8, <1>9, <1>10, Parts DEF Partition
<1>12. Cleared(root, guard, F) /\ free' = free \cup F /\ panic' = FALSE
  <2>1. F = SpaceFrames(pagetable[p], sz[p]) \cup loc[p].argv /\ guard = loc[p].new \div PGSIZE - 2
        /\ root = loc[p].root
    BY <1>2, <1>6, <1>7, <1>10
  <2>2. SpaceSound(pagetable[p], sz[p]) BY <1>2, <1>7
  <2>3. PICK guard2 \in {loc[p].new \div PGSIZE - 2}, root2 \in {loc[p].root},
             F2 \in {SpaceFrames(pagetable[p], sz[p]) \cup loc[p].argv} :
          /\ ram' = [f \in Frames |->
                       IF f \in F2 THEN Junk ELSE
                         [Copyout(root2, {guard2 + 1}, "args") EXCEPT
                            ![Next0(root2, guard2)].table[PX(0, guard2)].perm = @ \ {"U"}][f]]
          /\ free' = free \cup F2
          /\ panic' = ~ SpaceSound(pagetable[p], sz[p])
    BY DEF Commit
  <2>4. Cleared(root2, guard2, F2) BY <2>3 DEF Cleared
  <2>5. guard2 = guard /\ root2 = root /\ F2 = F BY <2>1
  <2> QED BY <2>2, <2>3, <2>4, <2>5
<1>13. /\ Tree(ram', root) /\ SpaceOf(ram', root) = SpaceOf(ram, root) /\ Maps(ram', root, n)
       /\ ram' = [f \in Frames |-> ram'[f]] /\ Managed(ram') = Managed(ram)
       /\ \A x \in Frames \ (F \cup SpaceOf(ram, root)) : ram'[x] = ram[x]
  <2>1. guard + 1 < n /\ Maps(ram, root, n) BY <1>4, <1>5, <1>6
  <2> QED BY <1>4, <1>6, <1>11, <1>12, <2>1, Clears
<1>14. /\ sz' = [sz EXCEPT ![p] = new] /\ pagetable' = [pagetable EXCEPT ![p] = root]
       /\ pc' = [pc EXCEPT ![p] = "user"] /\ loc' = [loc EXCEPT ![p] = NoCall]
       /\ state' = state /\ parent' = parent /\ trapframe' = trapframe
  BY <1>2 DEF Commit, Returns, Goto
<1>15. /\ sz'[p] = new /\ pagetable'[p] = root /\ pc'[p] = "user" /\ loc'[p] = NoCall
       /\ \A q \in Procs \ {p} : pagetable'[q] = pagetable[q] /\ loc'[q] = loc[q]
  BY <1>3, <1>14 DEF Typed
<1>16. NewRoot(p)' = NoFrame BY <1>15, NoCallIs DEF NewRoot
<1>17. \A q \in Procs \ {p} : NewRoot(q)' = NewRoot(q) BY <1>15 DEF NewRoot
<1> DEFINE S == {e, o, i, a}
           C == F \cup SpaceOf(ram, root)
<1>18. Stays(S, C)
  <2>1. \A x \in C : \E y \in S : x \in Holding[y] BY <1>8, <1>10
  <2>2. \A x \in Frames \ C : ram'[x] = ram[x] BY <1>13
  <2>3. S \subseteq Owners BY <1>9
  <2> HIDE DEF S, C
  <2> QED BY <2>1, <2>2, <2>3 DEF Stays
<1>19. Holding'[e] = free \cup F /\ Holding'[o] = SpaceOf(ram, root) /\ Holding'[i] = {} /\ Holding'[a] = {}
  <2>1. Holding'[e] = free' BY HoldingNext
  <2>2. Holding'[o] = SpaceOf(ram', pagetable'[p]) BY HoldingNext
  <2>3. Holding'[i] = SpaceOf(ram', NewRoot(p)') BY HoldingNext
  <2>4. Holding'[a] = loc'[p].argv BY HoldingNext
  <2>5. Holding'[i] = {} BY <1>16, <2>3 DEF SpaceOf
  <2>6. Holding'[a] = {} BY <1>15, <2>4, NoCallIs
  <2>7. Holding'[o] = SpaceOf(ram, root) BY <1>13, <1>15, <2>2
  <2> QED BY <1>12, <2>1, <2>5, <2>6, <2>7
<1>20. Partition(Holding, Managed(ram))'
  <2>1. \A q \in Procs : /\ <<"space", q>> \notin S => pagetable'[q] = pagetable[q]
                         /\ <<"image", q>> \notin S => NewRoot(q)' = NewRoot(q)
                         /\ <<"trapframe", q>> \notin S => trapframe'[q] = trapframe[q]
                         /\ <<"args", q>> \notin S => loc'[q].argv = loc[q].argv
    BY <1>14, <1>15, <1>17
  <2>2. e # o /\ e # i /\ e # a /\ o # i /\ o # a /\ i # a OBVIOUS
  <2>3. e \in S OBVIOUS
  <2> HIDE DEF e, o, i, a
  <2>4. \A y, z \in S : y # z => Holding'[y] \cap Holding'[z] = {} BY <1>11, <1>19
  <2>5. \A f : (\E y \in S : f \in Holding'[y]) <=> (\E y \in S : f \in Holding[y])
    BY <1>8, <1>10, <1>11, <1>19
  <2> HIDE DEF S, C
  <2>6. <<"free", 0>> \in S BY <2>3 DEF e
  <2> QED BY <1>13, <1>18, <2>1, <2>4, <2>5, <2>6, PartitionStep
<1>21. Process(p)'
  <2>1. /\ state'[p] = "runnable" /\ trapframe'[p] # NoFrame BY <1>1, <1>14 DEF Process
  <2> QED BY <1>4, <1>5, <1>6, <1>13, <1>15, <2>1 DEF Process
<1>22. Caller(p)' BY <1>15 DEF Caller, Idle
<1>23. \A q \in Procs \ {p} : <<"space", q>> \notin S /\ <<"image", q>> \notin S OBVIOUS
<1>24. free' \subseteq Frames BY <1>3, <1>11, <1>12 DEF Typed
<1>25. IsLoc(NoCall) /\ "user" \in Pc BY NoCallIs DEF Pc
<1>26. <<"trapframe", p>> \notin S OBVIOUS
<1> HIDE DEF S, C
<1>27. Good' /\ OthersRest({p}, S)
  BY <1>1, <1>4, <1>6, <1>12, <1>13, <1>14, <1>18, <1>20, <1>21, <1>22, <1>23, <1>24, <1>25,
    Alone
<1>28. Clearing(p)
  <2>1. F \subseteq Managed(ram) /\ F \cap SpaceOf(ram, loc[p].root) = {}
        /\ Cleared(loc[p].root, PagesOf(loc[p].size), F)
    BY <1>2, <1>5, <1>11, <1>12
  <2> QED BY <2>1 DEF Clearing
<1>29. Footprint({p}, <<"trapframe", p>>) BY <1>18, <1>26, <1>27 DEF Footprint
<1> QED BY <1>27, <1>28, <1>29

-----
\* Boot, and every step.
\* The memory userinit() leaves.
FirstMemory(n) ==
  [SpaceTables([f \in Frames |-> IF f <= n THEN Junk ELSE Data("kernel")], 2, 3, 4, 1)
     EXCEPT ![2].table[0] = Pointer(6), ![6] = Table(0, Pointer(7)),
            ![7] = Table(0, [pa |-> 5, perm |-> {"R", "W", "X", "U"}]), ![5] = Data("text")]

\* In it the first process has one page, and its frames are in order.
LEMMA FirstSpace ==
  ASSUME NEW n \in 7 .. NFRAMES, NEW m, m = FirstMemory(n)
  PROVE  /\ OnFrames(m) /\ Tree(m, 2) /\ SpaceOf(m, 2) = 2 .. 7 /\ Maps(m, 2, 1) /\ Managed(m) = 1 .. n
         /\ Ent(m, 2, 0) = [pa |-> 5, perm |-> {"R", "W", "X", "U"}] /\ m[5] = Data("text")
<1>1. /\ NFRAMES \in Nat /\ n \in Nat /\ 7 <= n /\ n <= NFRAMES /\ FANOUT \in Nat /\ FANOUT > 1
      /\ 1 .. 7 \subseteq Frames
  BY Constants DEF Frames
<1>2. PICK b, m0 : /\ b = [f \in Frames |-> IF f <= n THEN Junk ELSE Data("kernel")]
                   /\ m0 = SpaceTables(b, 2, 3, 4, 1)
  OBVIOUS
<1>3. OnFrames(b) /\ \A f \in Frames : b[f] = IF f <= n THEN Junk ELSE Data("kernel")
  BY <1>2 DEF OnFrames
<1>4. Space(b, m0, 2, 3, 4)
  <2>1. PICK r, g, h, tf : r = 2 /\ g = 3 /\ h = 4 /\ tf = 1 OBVIOUS
  <2>2. r \in Frames /\ g \in Frames /\ h \in Frames /\ tf \in Frames /\ r # g /\ r # h /\ g # h
    BY <1>1, <2>1
  <2>3. Space(b, SpaceTables(b, r, g, h, tf), r, g, h) BY <1>3, <2>2, NewSpace
  <2> QED BY <1>2, <2>1, <2>3
<1>5. PICK pte : pte = [pa |-> 5, perm |-> {"R", "W", "X", "U"}] OBVIOUS
<1>6. /\ Tree(m0, 2) /\ SpaceOf(m0, 2) = {2, 3, 4} /\ TablesOf(m0, 2) = {2, 3, 4} /\ Maps(m0, 2, 0)
      /\ m0 = [f \in Frames |-> m0[f]] /\ \A x \in Frames \ {2, 3, 4} : m0[x] = b[x]
      /\ \A va \in Addresses : PX(2, va) = 0 => Mid(m0, 2, va) = NoFrame
  BY <1>4 DEF Space, OnFrames
<1>7. m = [m0 EXCEPT ![2].table[0] = Pointer(6), ![6] = Table(0, Pointer(7)), ![7] = Table(0, pte),
                     ![5] = Data("text")]
  BY <1>2, <1>5 DEF FirstMemory
<1>8. /\ m = [f \in Frames |-> m[f]] /\ m[2] = [m0[2] EXCEPT !.table[0] = Pointer(6)]
      /\ m[6] = Table(0, Pointer(7)) /\ m[7] = Table(0, pte) /\ m[5] = Data("text")
      /\ \A x \in Frames \ {2, 5, 6, 7} : m[x] = m0[x]
  <2>1. 2 \in Frames /\ 5 \in Frames /\ 6 \in Frames /\ 7 \in Frames BY <1>1
  <2>2. PICK t2, t6, t7, t5 : /\ t2 = [m0[2] EXCEPT !.table[0] = Pointer(6)] /\ t6 = Table(0, Pointer(7))
                                /\ t7 = Table(0, pte) /\ t5 = Data("text")
    OBVIOUS
  <2>3. m = [m0 EXCEPT ![2] = t2, ![6] = t6, ![7] = t7, ![5] = t5] BY <1>7, <2>2
  <2>4. m = [f \in Frames |-> m[f]] BY <1>6, <2>3
  <2>5. m[2] = t2 /\ m[6] = t6 /\ m[7] = t7 /\ m[5] = t5 BY <1>6, <2>1, <2>3
  <2>6. \A x \in Frames \ {2, 5, 6, 7} : m[x] = m0[x] BY <1>6, <2>1, <2>3
  <2> QED BY <2>2, <2>4, <2>5, <2>6
<1>9. 0 \in Entries /\ 0 \in Addresses /\ PX(2, 0) = 0 /\ PX(1, 0) = 0 /\ PX(0, 0) = 0
  BY <1>1, PxTop DEF Entries
<1>10. IsTable(m0[2]) BY <1>6 DEF Tree
<1>11. IsPte(Pointer(6)) /\ IsPte(Pointer(7)) /\ IsPte(pte) /\ pte.pa = 5 /\ "R" \in pte.perm
         /\ pte.pa # NoFrame
  BY <1>1, <1>5, Ptes DEF NoFrame
<1>12. IsTable(m[2]) /\ \A e \in Entries : m[2].table[e] = IF e = 0 THEN Pointer(6) ELSE m0[2].table[e]
  <2>1. PICK x, w, k : x = m0[2] /\ w = Pointer(6) /\ k = 0 OBVIOUS
  <2>2. IsTable(x) /\ IsPte(w) /\ k \in Entries BY <1>9, <1>10, <1>11, <2>1
  <2>3. IsTable([x EXCEPT !.table[k] = w])
        /\ \A e \in Entries : [x EXCEPT !.table[k] = w].table[e] = IF e = k THEN w ELSE x.table[e]
    BY <2>2, TableSet
  <2> QED BY <1>8, <2>1, <2>3
<1>13. IsTable(m[6]) /\ \A e \in Entries : m[6].table[e] = IF e = 0 THEN Pointer(7) ELSE NoPte
  <2>1. PICK w, k : w = Pointer(7) /\ k = 0 OBVIOUS
  <2>2. IsTable(Table(k, w)) /\ \A e \in Entries : Table(k, w).table[e] = IF e = k THEN w ELSE NoPte
    BY <1>9, <1>11, <2>1, TableNew
  <2> QED BY <1>8, <2>1, <2>2
<1>14. IsTable(m[7]) /\ \A e \in Entries : m[7].table[e] = IF e = 0 THEN pte ELSE NoPte
  <2>1. PICK k : k = 0 OBVIOUS
  <2>2. IsTable(Table(k, pte)) /\ \A e \in Entries : Table(k, pte).table[e] = IF e = k THEN pte ELSE NoPte
    BY <1>9, <1>11, <2>1, TableNew
  <2> QED BY <1>8, <2>1, <2>2
<1>15. /\ Extends(m0, m, 2, 0, 6, 7, pte)
       /\ \A x \in TablesOf(m0, 2) \cup {6, 7} : IsTable(m[x])
  <2>1. PICK r, g, h, va : r = 2 /\ g = 6 /\ h = 7 /\ va = 0 OBVIOUS
  <2>2. /\ Tree(m0, r) /\ va \in Addresses /\ g \in Frames \ TablesOf(m0, r)
        /\ h \in Frames \ (TablesOf(m0, r) \cup {g}) /\ Mid(m0, r, va) = NoFrame
        /\ IsTable(m[r]) /\ IsTable(m[g]) /\ IsTable(m[h])
    BY <1>1, <1>6, <1>9, <1>12, <1>13, <1>14, <2>1
  <2>3. \A e \in Entries : m[r].table[e] = IF e = PX(2, va) THEN Pointer(g) ELSE m0[r].table[e]
    BY <1>9, <1>12, <2>1
  <2>4. \A e \in Entries : m[g].table[e] = IF e = PX(1, va) THEN Pointer(h) ELSE NoPte
    BY <1>9, <1>13, <2>1
  <2>5. \A e \in Entries : m[h].table[e] = IF e = PX(0, va) THEN pte ELSE NoPte
    BY <1>9, <1>14, <2>1
  <2>6. \A x \in TablesOf(m0, r) \ {r} : m[x] = m0[x] BY <1>1, <1>6, <1>8, <2>1
  <2>7. Extends(m0, m, r, va, g, h, pte) BY <2>2, <2>3, <2>4, <2>5, <2>6, ExtendsMiddle
  <2>8. \A x \in TablesOf(m0, r) \cup {g, h} : IsTable(m[x]) BY <2>2, <2>6 DEF Tree
  <2> QED BY <2>1, <2>7, <2>8
<1>16. 0 \notin Top
  <2>1. PX(2, TRAMPOLINE) = FANOUT - 1 /\ PX(2, TRAPFRAME) = FANOUT - 1 BY PxTop
  <2>2. FANOUT - 1 # 0 BY <1>1
  <2> QED BY <1>9, <2>1, <2>2 DEF Top
<1>17. Mid(m0, 2, 0) = NoFrame /\ Low(m0, 2, 0) = NoFrame /\ Ent(m0, 2, 0) = NoPte
  BY <1>6, <1>9, Zenon DEF Low, Ent
<1>18. Added(m0, 2, 0, 6, 7, pte) /\ NewFrames(0, 6, 7, pte) = {6, 7, 5}
  BY <1>1, <1>6, <1>11, <1>16, <1>17, Ptes DEF Added, NewFrames, NoFrame
<1>19. Tree(m, 2) /\ SpaceOf(m, 2) = {2, 3, 4} \cup {6, 7, 5}
  <2>1. PICK r, g, h, va : r = 2 /\ g = 6 /\ h = 7 /\ va = 0 OBVIOUS
  <2>2. /\ Tree(m0, r) /\ va \in Addresses /\ Extends(m0, m, r, va, g, h, pte) /\ Added(m0, r, va, g, h, pte)
        /\ \A x \in TablesOf(m0, r) \cup ({g, h} \ {NoFrame}) : IsTable(m[x])
    BY <1>6, <1>9, <1>15, <1>18, <2>1
  <2>3. Tree(m, r) /\ SpaceOf(m, r) = SpaceOf(m0, r) \cup NewFrames(va, g, h, pte)
    BY <2>2, Extended
  <2> QED BY <1>6, <1>18, <2>1, <2>3
<1>20. Maps(m, 2, 1)
  <2>1. PICK r, g, h, k : r = 2 /\ g = 6 /\ h = 7 /\ k = 0 OBVIOUS
  <2>2. k \in Nat /\ k < PageLimit /\ Maps(m0, r, k) /\ Extends(m0, m, r, k, g, h, pte)
    BY <1>6, <1>15, <2>1, PagesAssumption
  <2>3. Maps(m, r, k + 1) BY <1>11, <2>2, MapsMore
  <2> QED BY <2>1, <2>3
<1>21. Managed(m) = 1 .. n
  <2>1. ASSUME NEW f \in Frames PROVE m[f] # Data("kernel") <=> f <= n
    <3>1. CASE f \in {2, 6, 7, 5} BY <1>1, <1>8, <1>12, <1>13, <1>14, <3>1, Kinds
    <3>2. CASE f \in {3, 4}
      <4>1. IsTable(m0[f]) /\ m[f] = m0[f] BY <1>6, <1>8, <3>2 DEF Tree
      <4> QED BY <1>1, <3>2, <4>1, Kinds
    <3>3. CASE f \notin 2 .. 7 BY <1>3, <1>6, <1>8, <3>3, Kinds
    <3> QED BY <3>1, <3>2, <3>3 DEF Frames
  <2> QED BY <1>1, <2>1 DEF Managed, Frames
<1>22. Ent(m, 2, 0) = pte BY <1>9, <1>15 DEF Extends
<1> QED BY <1>5, <1>8, <1>19, <1>20, <1>21, <1>22 DEF OnFrames

\* userinit() leaves a state in which Good holds.
LEMMA InitGood ==
  ASSUME MemInit
  PROVE  Good
<1>1. PICK n \in BootFree : free = 8 .. n /\ ram = FirstMemory(n) BY DEF MemInit, FirstMemory
<1>2. n \in 7 .. NFRAMES /\ NPROC \in Nat \ {0} /\ NFRAMES \in Nat BY MemAssumption
<1>3. /\ OnFrames(ram) /\ Tree(ram, 2) /\ SpaceOf(ram, 2) = 2 .. 7 /\ Maps(ram, 2, 1) /\ Managed(ram) = 1 .. n
  BY <1>1, <1>2, FirstSpace
<1>4. /\ \A q \in Procs \ {1} : /\ state[q] = "unused" /\ sz[q] = 0
                               /\ pagetable[q] = NoFrame /\ trapframe[q] = NoFrame
      /\ \A q \in Procs : pc[q] = "user" /\ loc[q] = NoCall
      /\ 1 \in Procs /\ state[1] = "runnable" /\ sz[1] = PGSIZE /\ pagetable[1] = 2 /\ trapframe[1] = 1
      /\ ~ panic
  BY <1>2 DEF MemInit, Procs
<1>5. Typed
  <2>1. ram = [f \in Frames |-> ram[f]] /\ free \subseteq Frames /\ {1, 2} \subseteq Frames
    BY <1>1, <1>2, <1>3 DEF OnFrames, Frames
  <2>2. state \in [Procs -> {"unused", "used", "runnable", "zombie"}] /\ parent \in [Procs -> Int]
        /\ sz \in [Procs -> Nat]
    BY Constants DEF MemInit
  <2>3. pagetable \in [Procs -> Frames \cup {NoFrame}] /\ trapframe \in [Procs -> Frames \cup {NoFrame}]
    BY <2>1 DEF MemInit
  <2>4. pc \in [Procs -> Pc] /\ loc = [p \in Procs |-> loc[p]] BY DEF MemInit, Pc
  <2> QED BY <1>4, <2>1, <2>2, <2>3, <2>4, NoCallIs DEF Typed
<1>6. \A q \in Procs : NewRoot(q) = NoFrame /\ loc[q].argv = {} BY <1>4, NoCallIs DEF NewRoot
<1>7. /\ Holding[<<"free", 0>>] = 8 .. n
      /\ \A q \in Procs : /\ Holding[<<"space", q>>] = IF q = 1 THEN 2 .. 7 ELSE {}
                          /\ Holding[<<"image", q>>] = {}
                          /\ Holding[<<"trapframe", q>>] = IF q = 1 THEN {1} ELSE {}
                          /\ Holding[<<"args", q>>] = {}
  <2>1. Holding[<<"free", 0>>] = 8 .. n BY <1>1, HoldingIs
  <2>2. ASSUME NEW q \in Procs
        PROVE  /\ Holding[<<"space", q>>] = IF q = 1 THEN 2 .. 7 ELSE {}
               /\ Holding[<<"image", q>>] = {}
               /\ Holding[<<"trapframe", q>>] = IF q = 1 THEN {1} ELSE {}
               /\ Holding[<<"args", q>>] = {}
    <3>1. SpaceOf(ram, NoFrame) = {} BY DEF SpaceOf
    <3>2. Holding[<<"space", q>>] = IF q = 1 THEN 2 .. 7 ELSE {}
      <4>1. Holding[<<"space", q>>] = SpaceOf(ram, pagetable[q]) BY HoldingIs
      <4>2. CASE q = 1
        <5>1. pagetable[q] = 2 BY <1>4, <4>2
        <5> QED BY <1>3, <4>1, <4>2, <5>1
      <4>3. CASE q # 1
        <5>1. pagetable[q] = NoFrame BY <1>4, <4>3
        <5> QED BY <3>1, <4>1, <4>3, <5>1
      <4> QED BY <4>2, <4>3
    <3>3. Holding[<<"image", q>>] = {}
      <4>1. Holding[<<"image", q>>] = SpaceOf(ram, NewRoot(q)) BY HoldingIs
      <4> QED BY <1>6, <3>1, <4>1
    <3>4. Holding[<<"trapframe", q>>] = IF q = 1 THEN {1} ELSE {}
      <4>1. Holding[<<"trapframe", q>>] = {trapframe[q]} \ {NoFrame} BY HoldingIs
      <4> QED BY <1>4, <4>1 DEF NoFrame
    <3>5. Holding[<<"args", q>>] = {}
      <4>1. Holding[<<"args", q>>] = loc[q].argv BY HoldingIs
      <4> QED BY <1>6, <4>1
    <3> QED BY <3>2, <3>3, <3>4, <3>5
  <2> QED BY <2>1, <2>2
<1>8. Partition(Holding, Managed(ram))
  <2> DEFINE Has(a) == IF a = <<"free", 0>> THEN 8 .. n ELSE IF a = <<"space", 1>> THEN 2 .. 7
                       ELSE IF a = <<"trapframe", 1>> THEN {1} ELSE {}
  <2>1. ASSUME NEW a \in Owners PROVE Holding[a] = Has(a)
    <3>1. CASE a = <<"free", 0>>
      <4>1. a # <<"space", 1>> /\ a # <<"trapframe", 1>> BY <3>1
      <4> QED BY <1>7, <3>1, <4>1
    <3>2. ASSUME NEW q \in Procs, a = <<"space", q>> PROVE Holding[a] = Has(a)
      <4>1. a # <<"free", 0>> /\ a # <<"trapframe", 1>> /\ (a = <<"space", 1>> <=> q = 1)
        BY <3>2
      <4> QED BY <1>7, <3>2, <4>1
    <3>3. ASSUME NEW q \in Procs, a = <<"image", q>> PROVE Holding[a] = Has(a)
      <4>1. a # <<"free", 0>> /\ a # <<"trapframe", 1>> /\ a # <<"space", 1>> BY <3>3
      <4> QED BY <1>7, <3>3, <4>1
    <3>4. ASSUME NEW q \in Procs, a = <<"trapframe", q>> PROVE Holding[a] = Has(a)
      <4>1. a # <<"free", 0>> /\ a # <<"space", 1>> /\ (a = <<"trapframe", 1>> <=> q = 1)
        BY <3>4
      <4> QED BY <1>7, <3>4, <4>1
    <3>5. ASSUME NEW q \in Procs, a = <<"args", q>> PROVE Holding[a] = Has(a)
      <4>1. a # <<"free", 0>> /\ a # <<"trapframe", 1>> /\ a # <<"space", 1>> BY <3>5
      <4> QED BY <1>7, <3>5, <4>1
    <3> HIDE DEF Has
    <3> QED BY <3>1, <3>2, <3>3, <3>4, <3>5, OwnersAre
  <2>2. ASSUME NEW a \in Owners, NEW b \in Owners, a # b PROVE Holding[a] \cap Holding[b] = {}
    BY <1>2, <2>1, <2>2, SMTT(60)
  <2>3. ASSUME NEW f PROVE f \in 1 .. n <=> \E o \in Owners : f \in Holding[o]
    <3>1. f \in 1 .. n <=> f \in 8 .. n \/ f \in 2 .. 7 \/ f \in {1} BY <1>2
    <3>2. <<"free", 0>> \in Owners /\ <<"space", 1>> \in Owners /\ <<"trapframe", 1>> \in Owners
      BY <1>4, OwnersAre
    <3> QED BY <1>4, <1>7, <2>1, <3>1, <3>2, ZenonT(40)
  <2> QED BY <1>3, <2>2, <2>3 DEF Partition
<1>9. PagesOf(PGSIZE) = 1
  <2>1. PagesOf(1 * PGSIZE) = 1 /\ 1 * PGSIZE = PGSIZE BY PagesExact, Constants
  <2> QED BY <2>1
<1>10. ASSUME NEW q \in Procs PROVE Process(q) /\ Caller(q)
  <2>1. PagesOf(0) <= PageLimit /\ 1 <= PageLimit BY ZeroPages, PagesAssumption
  <2>2. Process(q) BY <1>3, <1>4, <1>9, <2>1, Constants DEF Process, NoFrame
  <2> QED BY <1>4, <2>2 DEF Caller, Idle
<1>11. Forks BY <1>4 DEF Forks
<1> QED BY <1>4, <1>5, <1>8, <1>10, <1>11 DEF Good

\* Every step keeps Good.
LEMMA NextKeeps ==
  ASSUME Good, [MemNext]_memVars
  PROVE  Good'
<1>1. ASSUME UNCHANGED memVars PROVE Good' BY <1>1, Same DEF memVars
<1>2. ASSUME NEW p \in Procs, UserStep(p) PROVE Good'
  <2>1. ASSUME NEW n \in Increments, Sbrk(p, n) PROVE Good' BY <2>1, SbrkKeeps, MemAssumption
  <2>2. ASSUME Fork(p) PROVE Good' BY <2>2, ForkKeeps
  <2>3. ASSUME ExitProcess(p) PROVE Good' BY <2>3, ExitProcessKeeps
  <2>4. ASSUME NEW c \in Procs, NEW k \in PageNumbers, Wait(p, c, k) PROVE Good'
    BY <2>4, WaitKeeps
  <2>5. ASSUME NEW file \in Binaries, Exec(p, file) PROVE Good' BY <2>5, ExecKeeps
  <2>6. ASSUME NEW k \in PageNumbers, NEW v \in Values, Store(p, k, v) PROVE Good'
    BY <2>6, StoreKeeps
  <2>7. ASSUME NEW k \in PageNumbers, NEW v \in Values, Read(p, k, k + 1, v) PROVE Good'
    BY <2>7, ReadKeeps
  <2> QED BY <1>2, <2>1, <2>2, <2>3, <2>4, <2>5, <2>6, <2>7 DEF UserStep
<1>3. ASSUME NEW p \in Procs, KernelStep(p) PROVE Good'
  <2>1. CASE UvmallocPage(p) BY <2>1, UvmallocPageKeeps
  <2>2. CASE UvmallocFails(p) BY <2>2, UvmallocFailsKeeps
  <2>3. CASE SbrkReturns(p) BY <2>3, SbrkReturnsKeeps
  <2>4. CASE CopyPage(p) BY <2>4, CopyPageKeeps
  <2>5. CASE CopyFails(p) BY <2>5, CopyFailsKeeps
  <2>6. CASE ForkReturns(p) BY <2>6, ForkReturnsKeeps
  <2>7. CASE Reap(p) BY <2>7, ReapKeeps
  <2>8. CASE FetchArg(p) BY <2>8, FetchArgKeeps
  <2>9. CASE Open(p) BY <2>9, OpenKeeps
  <2>10. CASE Segment(p) BY <2>10, SegmentKeeps
  <2>11. CASE Load(p) BY <2>11, LoadKeeps
  <2>12. CASE Commit(p) BY <2>12, CommitKeeps
  <2>13. CASE CommitFails(p) BY <2>13, CommitFailsKeeps
  <2> QED BY <1>3, <2>1, <2>2, <2>3, <2>4, <2>5, <2>6, <2>7, <2>8, <2>9, <2>10, <2>11, <2>12,
    <2>13 DEF KernelStep
<1> QED BY <1>1, <1>2, <1>3 DEF MemNext

\* Good holds in every state: whatever calls run at once, and wherever they fail for want of a
\* frame, each frame has one owner, page tables are trees of frames, and no call panics.
THEOREM GoodAlways == MemSpec => []Good
<1>1. MemInit => Good BY InitGood
<1>2. Good /\ [MemNext]_memVars => Good' BY NextKeeps
<1> QED BY <1>1, <1>2, PTL DEF MemSpec

-----
\* What follows from Good.
\* SizeIsMapped: uvmalloc(), uvmdealloc(), uvmcopy() and exec() map exactly the pages of sz, on
\* every way out of a call, and no uvmunmap(), freewalk() or mappages() panics.
THEOREM UserSpaceMapped == MemSpec => []SizeIsMapped
<1>1. ASSUME Good PROVE SizeIsMapped
  <2>1. ~ panic BY <1>1 DEF Good
  <2>2. ASSUME NEW p \in Procs, state[p] = "runnable", pc[p] = "user" PROVE SpaceSound(pagetable[p], sz[p])
    <3>1. /\ Tree(ram, pagetable[p]) /\ sz[p] \in Nat /\ PagesOf(sz[p]) <= PageLimit
          /\ Maps(ram, pagetable[p], PagesOf(sz[p]))
      BY <1>1, <2>2, Runs, User
    <3> QED BY <3>1, SpaceParts
  <2> QED BY <2>1, <2>2 DEF SizeIsMapped
<1> QED BY <1>1, GoodAlways, PTL

\* The uses that the frames of an owner have.
UsesOfSpace(root) ==
  IF root = NoFrame THEN {}
  ELSE {<<root, "root", root>>} \cup {<<f, "table", root>> : f \in Tables(root) \ {root}}
       \cup {<<Pte(root, va).pa, root, va>> : va \in Leaves(root)}

\* Those of an owner's frames.
UsesOf(o) ==
  CASE o[1] = "free" -> {<<f, "free", f>> : f \in free}
    [] o[1] = "space" -> UsesOfSpace(pagetable[o[2]])
    [] o[1] = "image" -> UsesOfSpace(NewRoot(o[2]))
    [] o[1] = "trapframe" -> {<<f, "trapframe", o[2]>> : f \in {trapframe[o[2]]} \ {NoFrame}}
    [] OTHER -> {<<f, "argument", o[2]>> : f \in loc[o[2]].argv}

\* Owner by owner.
LEMMA UsesOfIs ==
  /\ UsesOf(<<"free", 0>>) = {<<f, "free", f>> : f \in free}
  /\ \A q \in Procs : /\ UsesOf(<<"space", q>>) = UsesOfSpace(pagetable[q])
                      /\ UsesOf(<<"image", q>>) = UsesOfSpace(NewRoot(q))
                      /\ UsesOf(<<"trapframe", q>>) = {<<f, "trapframe", q>> : f \in {trapframe[q]} \ {NoFrame}}
                      /\ UsesOf(<<"args", q>>) = {<<f, "argument", q>> : f \in loc[q].argv}
<1>1. UsesOf(<<"free", 0>>) = {<<f, "free", f>> : f \in free} BY DEF UsesOf
<1>2. ASSUME NEW q \in Procs PROVE UsesOf(<<"space", q>>) = UsesOfSpace(pagetable[q])
  BY DEF UsesOf
<1>3. ASSUME NEW q \in Procs PROVE UsesOf(<<"image", q>>) = UsesOfSpace(NewRoot(q))
  BY DEF UsesOf
<1>4. ASSUME NEW q \in Procs
      PROVE UsesOf(<<"trapframe", q>>) = {<<f, "trapframe", q>> : f \in {trapframe[q]} \ {NoFrame}}
  BY DEF UsesOf
<1>5. ASSUME NEW q \in Procs PROVE UsesOf(<<"args", q>>) = {<<f, "argument", q>> : f \in loc[q].argv}
  BY DEF UsesOf
<1> QED BY <1>1, <1>2, <1>3, <1>4, <1>5

\* One use each.
Singly(U, F) ==
  /\ \A u \in U : u[1] \in F
  /\ \A f \in F : \E u \in U : u[1] = f
  /\ \A u, v \in U : u[1] = v[1] => u = v

\* The frames of a page table have one use each: a table is reached by one path of walk(),
\* and a page is mapped once.
LEMMA SpaceSingly ==
  ASSUME NEW root, root # NoFrame => Tree(ram, root)
  PROVE  Singly(UsesOfSpace(root), SpaceOf(ram, root))
<1>1. CASE root = NoFrame BY <1>1 DEF Singly, UsesOfSpace, SpaceOf
<1>2. CASE root # NoFrame
  <2>1. Tree(ram, root) /\ root \in TablesOf(ram, root)
    <3>1. root \in TablesOf(ram, root) BY <1>2 DEF TablesOf
    <3> QED BY <1>2, <3>1
  <2>2. Tables(root) = TablesOf(ram, root) BY PteIs DEF Tables, TablesOf
  <2>3. Leaves(root) = {va \in Addresses \ Top : Ent(ram, root, va).pa # NoFrame}
    BY PteIs DEF Leaves, Top
  <2>4. \A va \in Leaves(root) : Pte(root, va).pa = Ent(ram, root, va).pa BY PteIs
  <2>5. SpaceOf(ram, root) = TablesOf(ram, root) \cup LeavesOf(ram, root) BY <1>2 DEF SpaceOf
  <2>6. LeavesOf(ram, root) = {Ent(ram, root, va).pa : va \in Leaves(root)} BY <2>3 DEF LeavesOf
  <2>7. PICK R, T, L : /\ R = {<<root, "root", root>>}
                       /\ T = {<<f, "table", root>> : f \in Tables(root) \ {root}}
                       /\ L = {<<Pte(root, va).pa, root, va>> : va \in Leaves(root)}
    OBVIOUS
  <2>8. UsesOfSpace(root) = R \cup T \cup L BY <1>2, <2>7 DEF UsesOfSpace
  <2>9. \A u \in R : u = <<root, "root", root>> /\ u[1] = root BY <2>7
  <2>10. \A u \in T : \E f \in TablesOf(ram, root) \ {root} : u = <<f, "table", root>> /\ u[1] = f
    BY <2>2, <2>7
  <2>11. \A u \in L : \E va \in Leaves(root) : u = <<Ent(ram, root, va).pa, root, va>>
           /\ u[1] = Ent(ram, root, va).pa
    BY <2>4, <2>7
  <2>12. \A va \in Leaves(root) : Ent(ram, root, va).pa \notin TablesOf(ram, root)
    BY <2>1, <2>3 DEF Tree
  <2>13. \A va, vb \in Leaves(root) : Ent(ram, root, va).pa = Ent(ram, root, vb).pa => va = vb
    BY <2>1, <2>3 DEF Tree
  <2>14. \A u \in R \cup T \cup L : u[1] \in SpaceOf(ram, root)
    BY <2>1, <2>5, <2>6, <2>9, <2>10, <2>11
  <2>15. \A f \in SpaceOf(ram, root) : \E u \in R \cup T \cup L : u[1] = f
    <3> TAKE f \in SpaceOf(ram, root)
    <3>1. CASE f = root
      <4>1. <<f, "root", f>> \in R /\ <<f, "root", f>>[1] = f BY <2>7, <3>1
      <4> QED BY <4>1
    <3>2. CASE f \in TablesOf(ram, root) \ {root}
      <4>1. <<f, "table", root>> \in T /\ <<f, "table", root>>[1] = f BY <2>2, <2>7, <3>2
      <4> QED BY <4>1
    <3>3. CASE f \in LeavesOf(ram, root)
      <4>1. PICK va \in Leaves(root) : f = Ent(ram, root, va).pa BY <2>6, <3>3
      <4>2. <<f, root, va>> \in L /\ <<f, root, va>>[1] = f BY <2>4, <2>7, <4>1
      <4> QED BY <4>2
    <3> QED BY <2>5, <3>1, <3>2, <3>3
  <2>16. \A u, v \in R \cup T \cup L : u[1] = v[1] => u = v
    <3> SUFFICES ASSUME NEW u \in R \cup T \cup L, NEW v \in R \cup T \cup L, u[1] = v[1] PROVE u = v
      OBVIOUS
    <3>1. CASE u \in L /\ v \in L BY <2>11, <2>13, <3>1
    <3>2. CASE u \in L /\ v \in R \cup T BY <2>1, <2>9, <2>10, <2>11, <2>12, <3>2
    <3>3. CASE u \in R \cup T /\ v \in L BY <2>1, <2>9, <2>10, <2>11, <2>12, <3>3
    <3>4. CASE u \in R \cup T /\ v \in R \cup T BY <2>9, <2>10, <3>4
    <3> QED BY <3>1, <3>2, <3>3, <3>4
  <2> QED BY <2>8, <2>14, <2>15, <2>16 DEF Singly
<1> QED BY <1>1, <1>2

\* Frames with a use of the same kind.
LEMMA TaggedSingly ==
  ASSUME NEW F, NEW s, NEW t
  PROVE  Singly({<<f, s, t>> : f \in F}, F)
<1>1. \A u \in {<<f, s, t>> : f \in F} : u[1] \in F /\ u = <<u[1], s, t>> OBVIOUS
<1>2. \A f \in F : <<f, s, t>> \in {<<g, s, t>> : g \in F} /\ <<f, s, t>>[1] = f OBVIOUS
<1> QED BY <1>1, <1>2 DEF Singly

\* The frames of an owner have one use each.
LEMMA OwnersSingly ==
  ASSUME Good, NEW o \in Owners
  PROVE  Singly(UsesOf(o), Holding[o])
<1>1. CASE o = <<"free", 0>>
  <2>1. Singly({<<f, "free", f>> : f \in free}, free)
    <3>1. \A u \in {<<f, "free", f>> : f \in free} : u[1] \in free /\ u = <<u[1], "free", u[1]>>
      OBVIOUS
    <3>2. \A f \in free : <<f, "free", f>> \in {<<g, "free", g>> : g \in free} /\ <<f, "free", f>>[1] = f
      OBVIOUS
    <3> QED BY <3>1, <3>2 DEF Singly
  <2> QED BY <1>1, <2>1, UsesOfIs, HoldingIs
<1>2. ASSUME NEW q \in Procs, o = <<"space", q>> PROVE Singly(UsesOf(o), Holding[o])
  <2>1. Singly(UsesOfSpace(pagetable[q]), SpaceOf(ram, pagetable[q])) BY SpaceSingly, Parts
  <2> QED BY <1>2, <2>1, UsesOfIs, HoldingIs
<1>3. ASSUME NEW q \in Procs, o = <<"image", q>> PROVE Singly(UsesOf(o), Holding[o])
  <2>1. Singly(UsesOfSpace(NewRoot(q)), SpaceOf(ram, NewRoot(q))) BY SpaceSingly, Parts
  <2> QED BY <1>3, <2>1, UsesOfIs, HoldingIs
<1>4. ASSUME NEW q \in Procs, o = <<"trapframe", q>> PROVE Singly(UsesOf(o), Holding[o])
  <2>1. PICK F, s : F = {trapframe[q]} \ {NoFrame} /\ s = "trapframe" OBVIOUS
  <2>2. UsesOf(o) = {<<f, s, q>> : f \in F} /\ Holding[o] = F BY <1>4, <2>1, UsesOfIs, HoldingIs
  <2>3. Singly({<<f, s, q>> : f \in F}, F) BY TaggedSingly
  <2> QED BY <2>2, <2>3
<1>5. ASSUME NEW q \in Procs, o = <<"args", q>> PROVE Singly(UsesOf(o), Holding[o])
  <2>1. PICK F, s : F = loc[q].argv /\ s = "argument" OBVIOUS
  <2>2. UsesOf(o) = {<<f, s, q>> : f \in F} /\ Holding[o] = F BY <1>5, <2>1, UsesOfIs, HoldingIs
  <2>3. Singly({<<f, s, q>> : f \in F}, F) BY TaggedSingly
  <2> QED BY <2>2, <2>3
<1> QED BY <1>1, <1>2, <1>3, <1>4, <1>5, OwnersAre

\* Every use is one that an owner has.
LEMMA UsesOwned ==
  \A u : u \in Uses <=> \E o \in Owners : u \in UsesOf(o)
<1> DEFINE F == {<<f, "free", f>> : f \in free}
<1> DEFINE R == {<<root, "root", root>> : root \in Roots}
<1> DEFINE T == UNION {{<<f, "table", root>> : f \in Tables(root) \ {root}} : root \in Roots}
<1> DEFINE L == UNION {{<<Pte(root, va).pa, root, va>> : va \in Leaves(root)} : root \in Roots}
<1> DEFINE X == {<<trapframe[p], "trapframe", p>> : p \in {q \in Procs : trapframe[q] # NoFrame}}
<1> DEFINE G == UNION {{<<f, "argument", p>> : f \in loc[p].argv} : p \in Procs}
<1>2. Uses = F \cup R \cup T \cup L \cup X \cup G BY DEF Uses
<1>1. /\ F = {<<f, "free", f>> : f \in free}
      /\ R = {<<root, "root", root>> : root \in Roots}
      /\ T = UNION {{<<f, "table", root>> : f \in Tables(root) \ {root}} : root \in Roots}
      /\ L = UNION {{<<Pte(root, va).pa, root, va>> : va \in Leaves(root)} : root \in Roots}
      /\ X = {<<trapframe[p], "trapframe", p>> : p \in {q \in Procs : trapframe[q] # NoFrame}}
      /\ G = UNION {{<<f, "argument", p>> : f \in loc[p].argv} : p \in Procs}
  OBVIOUS
<1> HIDE DEF F, R, T, L, X, G
<1>3. \A root \in Roots : root # NoFrame /\ \E q \in Procs : root = pagetable[q] \/ root = NewRoot(q)
  BY DEF Roots, NewRoot
<1>4. \A q \in Procs : /\ pagetable[q] # NoFrame => pagetable[q] \in Roots
                       /\ NewRoot(q) # NoFrame => NewRoot(q) \in Roots
  BY DEF Roots, NewRoot
<1>5. \A root \in Roots : \A u \in UsesOfSpace(root) : \E o \in Owners : u \in UsesOf(o)
  <2> TAKE root \in Roots
  <2>1. PICK q \in Procs : root = pagetable[q] \/ root = NewRoot(q) BY <1>3
  <2>2. UsesOfSpace(root) = UsesOf(<<"space", q>>) \/ UsesOfSpace(root) = UsesOf(<<"image", q>>)
    BY <2>1, UsesOfIs
  <2> QED BY <2>2, OwnersAre
<1>6. ASSUME NEW u \in Uses PROVE \E o \in Owners : u \in UsesOf(o)
  <2>1. CASE u \in F BY <1>1, <2>1, OwnersAre, UsesOfIs
  <2>2. CASE u \in R \cup T \cup L
    <3>1. PICK root \in Roots : u \in UsesOfSpace(root)
      <4>1. CASE u \in R BY <1>1, <1>3, <4>1 DEF UsesOfSpace
      <4>2. CASE u \in T BY <1>1, <1>3, <4>2 DEF UsesOfSpace
      <4>3. CASE u \in L BY <1>1, <1>3, <4>3 DEF UsesOfSpace
      <4> QED BY <2>2, <4>1, <4>2, <4>3
    <3> QED BY <1>5, <3>1
  <2>3. CASE u \in X
    <3>1. PICK q \in Procs : trapframe[q] # NoFrame /\ u = <<trapframe[q], "trapframe", q>>
      BY <1>1, <2>3
    <3>2. u \in UsesOf(<<"trapframe", q>>) BY <3>1, UsesOfIs
    <3> QED BY <3>2, OwnersAre
  <2>4. CASE u \in G
    <3>1. PICK q \in Procs : u \in {<<f, "argument", q>> : f \in loc[q].argv} BY <1>1, <2>4
    <3>2. u \in UsesOf(<<"args", q>>) BY <3>1, UsesOfIs
    <3> QED BY <3>2, OwnersAre
  <2> QED BY <1>2, <2>1, <2>2, <2>3, <2>4
<1>7. ASSUME NEW root \in Roots PROVE UsesOfSpace(root) \subseteq R \cup T \cup L
  <2>1. <<root, "root", root>> \in R BY <1>1
  <2>2. {<<f, "table", root>> : f \in Tables(root) \ {root}} \subseteq T BY <1>1
  <2>3. {<<Pte(root, va).pa, root, va>> : va \in Leaves(root)} \subseteq L BY <1>1
  <2> QED BY <1>3, <2>1, <2>2, <2>3 DEF UsesOfSpace
<1>8. \A q \in Procs : UsesOfSpace(pagetable[q]) \subseteq Uses /\ UsesOfSpace(NewRoot(q)) \subseteq Uses
  <2> TAKE q \in Procs
  <2>1. UsesOfSpace(pagetable[q]) \subseteq Uses
    <3>1. CASE pagetable[q] = NoFrame BY <3>1 DEF UsesOfSpace
    <3>2. CASE pagetable[q] # NoFrame BY <1>2, <1>4, <1>7, <3>2
    <3> QED BY <3>1, <3>2
  <2>2. UsesOfSpace(NewRoot(q)) \subseteq Uses
    <3>1. CASE NewRoot(q) = NoFrame BY <3>1 DEF UsesOfSpace
    <3>2. CASE NewRoot(q) # NoFrame BY <1>2, <1>4, <1>7, <3>2
    <3> QED BY <3>1, <3>2
  <2> QED BY <2>1, <2>2
<1>9. ASSUME NEW o \in Owners PROVE UsesOf(o) \subseteq Uses
  <2>1. CASE o = <<"free", 0>> BY <1>1, <1>2, <2>1, UsesOfIs
  <2>2. ASSUME NEW q \in Procs, o = <<"space", q>> \/ o = <<"image", q>> PROVE UsesOf(o) \subseteq Uses
    BY <1>8, <2>2, UsesOfIs
  <2>3. ASSUME NEW q \in Procs, o = <<"trapframe", q>> PROVE UsesOf(o) \subseteq Uses
    <3>1. {<<f, "trapframe", q>> : f \in {trapframe[q]} \ {NoFrame}} \subseteq X BY <1>1
    <3> QED BY <1>2, <2>3, <3>1, UsesOfIs
  <2>4. ASSUME NEW q \in Procs, o = <<"args", q>> PROVE UsesOf(o) \subseteq Uses
    <3>1. {<<f, "argument", q>> : f \in loc[q].argv} \subseteq G BY <1>1
    <3> QED BY <1>2, <2>4, <3>1, UsesOfIs
  <2> QED BY <2>1, <2>2, <2>3, <2>4, OwnersAre
<1> QED BY <1>6, <1>9

\* FramesOwnedOnce: kalloc() and kfree() lose no frame and give none to two: every frame that
\* kinit() had is free, or a page or a page-table page of one page table, a trapframe or an
\* argument of exec(), once.
THEOREM FramesAlwaysOwned == MemSpec => []FramesOwnedOnce
<1>1. ASSUME Good PROVE FramesOwnedOnce
  <2>1. PICK U, F : U = Uses /\ F = {u[1] : u \in U} OBVIOUS
  <2>2. Partition(Holding, Managed(ram)) BY <1>1, Parts
  <2>3. \A u \in U : \E o \in Owners : u \in UsesOf(o) /\ u[1] \in Holding[o]
    BY <1>1, <2>1, UsesOwned, OwnersSingly DEF Singly
  <2>4. \A o \in Owners : \A f \in Holding[o] : \E u \in U : u[1] = f
    BY <1>1, <2>1, UsesOwned, OwnersSingly DEF Singly
  <2>5. F = Managed(ram) BY <2>1, <2>2, <2>3, <2>4 DEF Partition
  <2>6. \A u, v \in U : u[1] = v[1] => u = v
    <3> SUFFICES ASSUME NEW u \in U, NEW v \in U, u[1] = v[1] PROVE u = v
      OBVIOUS
    <3>1. PICK a \in Owners : u \in UsesOf(a) /\ u[1] \in Holding[a] BY <2>3
    <3>2. PICK b \in Owners : v \in UsesOf(b) /\ v[1] \in Holding[b] BY <2>3
    <3>3. a = b BY <2>2, <3>1, <3>2 DEF Partition
    <3> QED BY <1>1, <3>1, <3>2, <3>3, OwnersSingly DEF Singly
  <2>7. IsFiniteSet(F)
    <3>1. F \subseteq 1 .. NFRAMES BY <2>5 DEF Managed, Frames
    <3>2. IsFiniteSet(1 .. NFRAMES) BY FS_Interval, Constants
    <3> QED BY <3>1, <3>2, FS_Subset
  <2>8. Cardinality(U) = Cardinality(F)
    <3>1. PICK g : g = [f \in F |-> CHOOSE u \in U : u[1] = f] OBVIOUS
    <3>2. \A f \in F : g[f] \in U /\ g[f][1] = f BY <2>1, <3>1
    <3>3. \A u \in U : u[1] \in F /\ g[u[1]] = u BY <2>1, <2>6, <3>2
    <3>4. g \in [F -> U] BY <3>1, <3>2
    <3>5. g \in Bijection(F, U)
      BY <3>2, <3>3, <3>4 DEF Bijection, Injection, Surjection, IsInjective
    <3>6. ExistsBijection(F, U) BY <3>5 DEF ExistsBijection
    <3> QED BY <2>7, <3>6, FS_Bijection
  <2> QED BY <2>1, <2>5, <2>8 DEF FramesOwnedOnce, Managed
<1> QED BY <1>1, GoodAlways, PTL

-----
\* What processes find in their memory, and which steps leave it.
\* What the page k of the page table root holds, and how it may be used.
Look(m, root, k) == [data |-> m[Ent(m, root, k).pa].data, perm |-> Ent(m, root, k).perm]

\* The page k of a program of which i segments are loaded.
PageOf(binary, i, k) ==
  [data |-> IF \E j \in 1 .. i : HasFile(binary[j], k) THEN "text" ELSE "zero",
   perm |-> {"R", "U"} \cup binary[Owner(binary, k)].perm]

\* The first n pages are those of the first i segments of the program.
HasSegments(m, root, binary, i, n) ==
  /\ \A j \in 1 .. i : PagesOf(End(binary[j])) <= n
  /\ n = 0 \/ \E j \in 1 .. i : n = PagesOf(End(binary[j]))
  /\ \A k \in 1 .. n : Look(m, root, k - 1) = PageOf(binary, i, k)

\* exec() makes room for a segment, or for the stack.
Loads(p) == pc[p] = "load" \/ (pc[p] = "uvmalloc" /\ loc[p].then = "load")
Stacks(p) == pc[p] = "stack" \/ (pc[p] = "uvmalloc" /\ loc[p].then = "stack")

\* What uvmalloc() has added is zero.
Blank(m, l) ==
  \A k \in l.old .. l.at - 1 : Look(m, l.root, k) = [data |-> "zero", perm |-> {"R", "U"} \cup l.perm]

\* uvmalloc() is at work for a call, or was.
Adding(p) ==
  LET l == loc[p] IN
  /\ l.old = PagesOf(IF Idle(p) THEN l.size ELSE sz[p]) /\ l.old <= l.at
  /\ l.perm = IF Loads(p) THEN Head(l.segs).perm ELSE {"W"}
  /\ pc[p] = "uvmalloc" \/ l.new # 0 => Blank(ram, l)
  /\ pc[p] # "uvmalloc" /\ l.new # 0 => l.at = PagesOf(l.new)
  /\ Loads(p) => l.new \in {0, l.size, End(Head(l.segs))}
  /\ Stacks(p) => l.segs = <<>>

\* fork() has copied the pages below at.
Copied(p) ==
  LET l == loc[p] IN
  \A k \in 0 .. l.at - 1 : Look(ram, pagetable[l.np], k) = Look(ram, pagetable[p], k)

\* exec() has loaded some segments, and has the others to come.
InImage(p) ==
  LET l == loc[p] IN
  \E binary \in Binaries, i \in Nat :
    /\ i <= Len(binary) /\ l.segs = SubSeq(binary, i + 1, Len(binary))
    /\ HasSegments(ram, l.root, binary, i, PagesOf(l.size))

Contents(p) ==
  /\ pc[p] \in {"uvmalloc", "sbrk", "load", "stack"} => Adding(p)
  /\ pc[p] = "copy" => Copied(p)
  /\ pc[p] \in {"argv", "open"} => loc[p].segs \in Binaries
  /\ pc[p] = "segment" \/ Loads(p) \/ Stacks(p) => InImage(p)

\* The inductive invariant, with what the pages hold.
GoodPages == Good /\ \A p \in Procs : Contents(p)

\* The pages of the table r look in m2 as they did in m.
Unwritten(m, m2, r) ==
  \A va \in Addresses \ Top : Ent(m, r, va).pa # NoFrame => Look(m2, r, va) = Look(m, r, va)

\* The frame of a page that is mapped.
LEMMA LeafIs ==
  ASSUME NEW m, NEW r, Tree(m, r), NEW va \in Addresses \ Top, Ent(m, r, va).pa # NoFrame
  PROVE  /\ Ent(m, r, va).pa \in LeavesOf(m, r) /\ Ent(m, r, va).pa \in Frames
         /\ Ent(m, r, va).pa \notin TablesOf(m, r) /\ Ent(m, r, va).pa \in SpaceOf(m, r)
<1>1. Ent(m, r, va).pa \in LeavesOf(m, r) BY DEF LeavesOf
<1>2. Ent(m, r, va).pa \in Frames \ TablesOf(m, r) BY DEF Tree
<1>3. r # NoFrame BY Constants DEF Tree
<1> QED BY <1>1, <1>2, <1>3 DEF SpaceOf

\* The first pages of a page table.
LEMMA FirstPages ==
  ASSUME NEW m, NEW r, NEW n \in Nat, n <= PageLimit, Maps(m, r, n), NEW k \in 0 .. n - 1
  PROVE  k \in Addresses \ Top /\ Ent(m, r, k).pa # NoFrame
<1>1. k \in Addresses \ Top BY PageIn, Constants
<1> QED BY <1>1 DEF Maps

\* Pages that are not written look the same.
LEMMA PagesSame ==
  ASSUME NEW m, NEW m2, NEW r, Unwritten(m, m2, r), NEW n \in Nat, n <= PageLimit, Maps(m, r, n)
  PROVE  \A k \in 0 .. n - 1 : Look(m2, r, k) = Look(m, r, k)
BY FirstPages DEF Unwritten

\* The same frames with the same contents.
LEMMA SamePages ==
  ASSUME NEW m, NEW m2, NEW r, Tree(m, r), Alike(m, m2, r), \A x \in LeavesOf(m, r) : m2[x] = m[x]
  PROVE  Unwritten(m, m2, r)
<1> SUFFICES ASSUME NEW va \in Addresses \ Top, Ent(m, r, va).pa # NoFrame
             PROVE  Look(m2, r, va) = Look(m, r, va)
  BY DEF Unwritten
<1>1. Ent(m, r, va).pa \in LeavesOf(m, r) BY LeafIs
<1>2. Ent(m2, r, va) = Ent(m, r, va) BY DEF Alike
<1> QED BY <1>1, <1>2 DEF Look

\* The pages of an owner that does not take part.
LEMMA UnwrittenKept ==
  ASSUME Good, NEW S, NEW C, Stays(S, C), NEW o \in Owners \ S, NEW r \in Frames, Tree(ram, r),
         Holding[o] = SpaceOf(ram, r)
  PROVE  Unwritten(ram, ram', r)
<1>1. Alike(ram, ram', r) /\ \A x \in SpaceOf(ram, r) : ram'[x] = ram[x] BY Kept
<1>2. \A x \in LeavesOf(ram, r) : x \in SpaceOf(ram, r) BY Constants DEF SpaceOf
<1>3. \A x \in LeavesOf(ram, r) : ram'[x] = ram[x] BY <1>1, <1>2
<1>4. PICK m2 : m2 = ram' OBVIOUS
<1>5. Unwritten(ram, m2, r) BY <1>1, <1>3, <1>4, SamePages
<1> QED BY <1>4, <1>5

\* The memory of a process, page by page.
LEMMA AddressSpaceIs ==
  ASSUME NEW q
  PROVE  /\ AddressSpace(q) = IF state[q] \notin {"runnable", "zombie"} THEN NoSpace
                              ELSE [k \in 1 .. PagesOf(sz[q]) |-> Look(ram, pagetable[q], k - 1)]
         /\ AddressSpace(q)' = IF state'[q] \notin {"runnable", "zombie"} THEN NoSpace
                               ELSE [k \in 1 .. PagesOf(sz'[q]) |-> Look(ram', pagetable'[q], k - 1)]
BY DEF AddressSpace, Look, Pte, Next0, Next1, Ent, Low, Mid

\* What uvmalloc() has added looks the same.
LEMMA BlankKept ==
  ASSUME NEW m, NEW m2, NEW l, Unwritten(m, m2, l.root), l.old \in Nat, NEW n \in Nat, n <= PageLimit,
         Maps(m, l.root, n), l.at \in Nat, l.at <= n, Blank(m, l)
  PROVE  Blank(m2, l)
<1>1. \A k \in 0 .. n - 1 : Look(m2, l.root, k) = Look(m, l.root, k) BY PagesSame
<1> QED BY <1>1 DEF Blank

\* What exec() has loaded looks the same.
LEMMA SegmentsKept ==
  ASSUME NEW m, NEW m2, NEW r, Unwritten(m, m2, r), NEW n \in Nat, n <= PageLimit,
         Maps(m, r, n), NEW k \in Nat, k <= n, NEW binary, NEW i, HasSegments(m, r, binary, i, k)
  PROVE  HasSegments(m2, r, binary, i, k)
<1>1. \A h \in 0 .. n - 1 : Look(m2, r, h) = Look(m, r, h) BY PagesSame
<1>2. \A h \in 1 .. k : Look(m2, r, h - 1) = Look(m, r, h - 1) BY <1>1
<1> QED BY <1>2 DEF HasSegments

\* How many pages the page table of a call has.
HasPages(q) ==
  CASE pc[q] = "uvmalloc" -> loc[q].at
    [] pc[q] = "segment" -> PagesOf(loc[q].size)
    [] OTHER -> PagesOf(IF loc[q].new # 0 THEN loc[q].new ELSE IF Idle(q) THEN loc[q].size ELSE sz[q])

\* A call that has a page table to work on.
Works(q) == pc[q] \in {"uvmalloc", "sbrk", "segment", "load", "stack"}

\* That page table.
LEMMA Calling ==
  ASSUME Good, NEW q \in Procs, Works(q)
  PROVE  /\ loc[q].root \in Frames /\ loc[q].root # NoFrame /\ Tree(ram, loc[q].root)
         /\ HasPages(q) \in Nat /\ HasPages(q) <= PageLimit /\ Maps(ram, loc[q].root, HasPages(q))
         /\ IsLoc(loc[q]) /\ state[q] = "runnable" /\ sz[q] \in Nat
<1>1. IsLoc(loc[q]) /\ state[q] = "runnable" /\ sz[q] \in Nat /\ PagesOf(sz[q]) \in Nat /\ Caller(q)
  BY PcApart DEF Works, Good
<1>2. CASE pc[q] = "uvmalloc"
  <2>1. InUvmalloc(q, loc[q], loc[q].root) BY <1>2, Uvmallocs
  <2>2. /\ loc[q].at \in Nat /\ loc[q].at < PageLimit /\ Maps(ram, loc[q].root, loc[q].at)
        /\ Tree(ram, loc[q].root) /\ loc[q].root # NoFrame
    BY <2>1 DEF InUvmalloc
  <2>3. HasPages(q) = loc[q].at BY <1>2 DEF HasPages
  <2>4. HasPages(q) \in Nat /\ HasPages(q) <= PageLimit /\ Maps(ram, loc[q].root, HasPages(q))
    BY <2>2, <2>3, Constants
  <2>5. loc[q].root \in Frames BY <2>2 DEF Tree
  <2> QED BY <1>1, <2>2, <2>4, <2>5
<1>3. CASE pc[q] = "sbrk"
  <2>1. ~ Idle(q) BY <1>3 DEF Idle
  <2>2. InSbrk(q) BY <1>1, <2>1 DEF Caller
  <2>3. /\ pagetable[q] \in Frames /\ pagetable[q] # NoFrame /\ Tree(ram, pagetable[q])
        /\ PagesOf(sz[q]) <= PageLimit
    BY <1>1, Runs
  <2>4. HasPages(q) = PagesOf(IF loc[q].new # 0 THEN loc[q].new ELSE sz[q])
    BY <1>3, <2>1 DEF HasPages
  <2>5. PagesOf(loc[q].new) \in Nat /\ PagesOf(loc[q].new) <= PageLimit
    BY <1>1, <2>2, PagesAre DEF InSbrk, IsLoc
  <2>6. Maps(ram, loc[q].root, HasPages(q)) /\ loc[q].root = pagetable[q]
    BY <1>3, <2>2, <2>4 DEF InSbrk
  <2> QED BY <1>1, <2>3, <2>4, <2>5, <2>6
<1>4. CASE pc[q] \in {"segment", "load", "stack"}
  <2>1. InExec(q) /\ Idle(q) BY <1>4, Execs
  <2>2. /\ loc[q].root # NoFrame /\ Tree(ram, loc[q].root) /\ PagesOf(loc[q].size) + 2 <= PageLimit
        /\ PagesOf(loc[q].size) \in Nat /\ loc[q].size \in Nat /\ loc[q].new \in Nat
        /\ PagesOf(loc[q].new) \in Nat
    BY <1>1, <1>4, <2>1, PagesAre DEF InExec, IsLoc
  <2>3. CASE pc[q] = "segment"
    <3>1. HasPages(q) = PagesOf(loc[q].size) BY <2>3 DEF HasPages
    <3>2. Maps(ram, loc[q].root, PagesOf(loc[q].size)) BY <2>1, <2>3 DEF InExec
    <3> QED BY <1>1, <2>2, <3>1, <3>2, Constants DEF Tree
  <2>4. CASE pc[q] \in {"load", "stack"}
    <3>1. PICK n : n = PagesOf(IF loc[q].new = 0 THEN loc[q].size ELSE loc[q].new) OBVIOUS
    <3>2. HasPages(q) = n BY <2>1, <2>4, <3>1 DEF HasPages
    <3>3. Maps(ram, loc[q].root, n) BY <2>1, <2>4, <3>1 DEF InExec
    <3>4. n \in Nat /\ n <= PageLimit
      <4>1. CASE loc[q].new = 0 BY <2>2, <3>1, <4>1, Constants
      <4>2. CASE loc[q].new # 0 /\ pc[q] = "load"
        BY <2>1, <2>2, <3>1, <4>2, Constants DEF InExec
      <4>3. CASE loc[q].new # 0 /\ pc[q] = "stack"
        <5>1. loc[q].size % PGSIZE = 0 /\ loc[q].new = loc[q].size + 2 * PGSIZE
          BY <2>1, <4>3 DEF InExec
        <5>2. PagesOf(loc[q].new) = PagesOf(loc[q].size) + 2 BY <2>2, <5>1, TwoMore
        <5> QED BY <2>2, <3>1, <4>3, <5>2
      <4> QED BY <2>4, <4>1, <4>2, <4>3
    <3> QED BY <1>1, <2>2, <3>2, <3>3, <3>4, Constants DEF Tree
  <2> QED BY <1>4, <2>3, <2>4
<1> QED BY <1>2, <1>3, <1>4 DEF Works

\* Who has its frames.
LEMMA CallingOwner ==
  ASSUME Good, NEW q \in Procs, Works(q)
  PROVE  \E o \in Owners : /\ Holding[o] = SpaceOf(ram, loc[q].root)
                           /\ o = IF Idle(q) THEN <<"image", q>> ELSE <<"space", q>>
<1>1. Caller(q) BY DEF Good
<1>2. CASE Idle(q)
  <2>1. InExec(q) BY <1>1, <1>2 DEF Caller, Works, Idle
  <2>2. NewRoot(q) = loc[q].root BY <2>1 DEF InExec, NewRoot
  <2> QED BY <1>2, <2>2, HoldingIs, OwnersAre
<1>3. CASE ~ Idle(q)
  <2>1. loc[q].root = pagetable[q] BY <1>1, <1>3 DEF Caller, InSbrk
  <2> QED BY <1>3, <2>1, HoldingIs, OwnersAre
<1> QED BY <1>2, <1>3

\* What uvmalloc() has made is mapped.
LEMMA AddedMapped ==
  ASSUME Good, NEW q \in Procs, pc[q] \in {"uvmalloc", "sbrk", "load", "stack"}, Adding(q)
  PROVE  /\ loc[q].old \in Nat /\ loc[q].at \in Nat /\ loc[q].old <= HasPages(q)
         /\ pc[q] = "uvmalloc" \/ loc[q].new # 0 => loc[q].at = HasPages(q)
         /\ ~ Idle(q) => PagesOf(sz[q]) <= HasPages(q)
         /\ Idle(q) => PagesOf(loc[q].size) <= HasPages(q)
<1>1. loc[q].old \in Nat /\ loc[q].at \in Nat /\ loc[q].old <= loc[q].at
      /\ loc[q].old = PagesOf(IF Idle(q) THEN loc[q].size ELSE sz[q])
  BY Calling DEF Works, Adding, IsLoc
<1>2. CASE pc[q] = "uvmalloc" BY <1>1, <1>2 DEF HasPages
<1>3. CASE pc[q] # "uvmalloc" /\ loc[q].new # 0 BY <1>1, <1>3 DEF HasPages, Adding
<1>4. CASE pc[q] # "uvmalloc" /\ loc[q].new = 0 BY <1>1, <1>4 DEF HasPages
<1> QED BY <1>1, <1>2, <1>3, <1>4

\* A process's own memory.
LEMMA OwnMapped ==
  ASSUME Good, NEW q \in Procs, Contents(q), state[q] \in {"runnable", "zombie"}
  PROVE  /\ pagetable[q] \in Frames /\ Tree(ram, pagetable[q]) /\ sz[q] \in Nat /\ PagesOf(sz[q]) \in Nat
         /\ \E n \in Nat : PagesOf(sz[q]) <= n /\ n <= PageLimit /\ Maps(ram, pagetable[q], n)
<1>1. /\ Process(q) /\ Caller(q) /\ sz[q] \in Nat /\ PagesOf(sz[q]) \in Nat /\ PagesOf(sz[q]) <= PageLimit
      /\ pagetable[q] \in Frames \cup {NoFrame}
  BY PcApart, Parts DEF Good
<1>2. pagetable[q] \in Frames /\ Tree(ram, pagetable[q]) BY <1>1 DEF Process
<1>3. CASE Idle(q) BY <1>1, <1>2, <1>3 DEF Process
<1>4. CASE ~ Idle(q)
  <2>1. pc[q] \in {"uvmalloc", "sbrk"} /\ Works(q) BY <1>4 DEF Idle, Works
  <2>2. loc[q].root = pagetable[q] BY <1>1, <1>4 DEF Caller, InSbrk
  <2>3. Adding(q) BY <2>1 DEF Contents
  <2>4. PagesOf(sz[q]) <= HasPages(q) BY <1>4, <2>1, <2>3, AddedMapped
  <2>5. HasPages(q) \in Nat /\ HasPages(q) <= PageLimit /\ Maps(ram, pagetable[q], HasPages(q))
    BY <2>1, <2>2, Calling
  <2> QED BY <1>1, <1>2, <2>4, <2>5
<1> QED BY <1>3, <1>4

\* The memory of a process that does not take part is what it was.
LEMMA SpaceRests ==
  ASSUME Good, NEW q \in Procs, Contents(q), NEW S, NEW C, Stays(S, C),
         state'[q] \in {"runnable", "zombie"} <=> state[q] \in {"runnable", "zombie"},
         state[q] \in {"runnable", "zombie"} =>
           sz'[q] = sz[q] /\ pagetable'[q] = pagetable[q] /\ <<"space", q>> \notin S
  PROVE  AddressSpace(q)' = AddressSpace(q)
<1>1. CASE state[q] \notin {"runnable", "zombie"} BY <1>1, AddressSpaceIs
<1>2. CASE state[q] \in {"runnable", "zombie"}
  <2>1. PICK n \in Nat : PagesOf(sz[q]) <= n /\ n <= PageLimit /\ Maps(ram, pagetable[q], n)
    BY <1>2, OwnMapped
  <2>2. pagetable[q] \in Frames /\ Tree(ram, pagetable[q]) /\ PagesOf(sz[q]) \in Nat
    BY <1>2, OwnMapped
  <2>3. <<"space", q>> \in Owners \ S /\ Holding[<<"space", q>>] = SpaceOf(ram, pagetable[q])
    BY <1>2, OwnersAre, HoldingIs
  <2>4. Unwritten(ram, ram', pagetable[q]) BY <2>2, <2>3, UnwrittenKept
  <2>5. PICK m2 : m2 = ram' OBVIOUS
  <2>6. \A k \in 0 .. n - 1 : Look(m2, pagetable[q], k) = Look(ram, pagetable[q], k)
    BY <2>1, <2>4, <2>5, PagesSame
  <2>7. \A k \in 1 .. PagesOf(sz[q]) : Look(ram', pagetable'[q], k - 1) = Look(ram, pagetable[q], k - 1)
    <3>1. \A k \in 1 .. PagesOf(sz[q]) : k - 1 \in 0 .. n - 1 BY <2>1, <2>2
    <3> QED BY <1>2, <2>5, <2>6, <3>1
  <2>8. [k \in 1 .. PagesOf(sz'[q]) |-> Look(ram', pagetable'[q], k - 1)]
          = [k \in 1 .. PagesOf(sz[q]) |-> Look(ram, pagetable[q], k - 1)]
    BY <1>2, <2>7
  <2> QED BY <1>2, <2>8, AddressSpaceIs
<1> QED BY <1>1, <1>2

\* A child that p makes and that does not take part.
LEMMA CopiedRests ==
  ASSUME Good, NEW X, NEW S, NEW C, Stays(S, C), OthersRest(X, S),
         NEW q \in Procs \ X, pc[q] = "copy", Copied(q)
  PROVE  Copied(q)'
<1>1. PICK x : x = loc[q].np OBVIOUS
<1>2. /\ x \in Procs /\ state[x] = "used" /\ x \notin X /\ state[q] = "runnable" /\ IsLoc(loc[q])
      /\ InFork(q) /\ Idle(q)
  BY <1>1, PcApart DEF OthersRest, Good, Caller, Idle
<1>3. /\ pagetable'[x] = pagetable[x] /\ pagetable'[q] = pagetable[q] /\ loc'[q] = loc[q]
      /\ <<"space", x>> \notin S /\ <<"space", q>> \notin S
  BY <1>2 DEF OthersRest
<1>4. /\ pagetable[q] \in Frames /\ Tree(ram, pagetable[q]) /\ Maps(ram, pagetable[q], PagesOf(sz[q]))
      /\ PagesOf(sz[q]) \in Nat /\ PagesOf(sz[q]) <= PageLimit
  BY <1>2, Runs
<1>5. pagetable[x] \in Frames /\ Tree(ram, pagetable[x])
  <2>1. pagetable[x] # NoFrame BY <1>2 DEF Good, Process
  <2> QED BY <1>2, <2>1, Parts
<1>6. loc[q].at \in Nat /\ loc[q].at <= PagesOf(sz[q]) /\ Maps(ram, pagetable[x], loc[q].at)
  BY <1>1, <1>2 DEF InFork, IsLoc
<1>7. PICK m2 : m2 = ram' OBVIOUS
<1>8. Unwritten(ram, m2, pagetable[q])
  <2>1. <<"space", q>> \in Owners \ S /\ Holding[<<"space", q>>] = SpaceOf(ram, pagetable[q])
    BY <1>3, OwnersAre, HoldingIs
  <2> QED BY <1>4, <1>7, <2>1, UnwrittenKept
<1>9. Unwritten(ram, m2, pagetable[x])
  <2>1. <<"space", x>> \in Owners \ S /\ Holding[<<"space", x>>] = SpaceOf(ram, pagetable[x])
    BY <1>2, <1>3, OwnersAre, HoldingIs
  <2> QED BY <1>5, <1>7, <2>1, UnwrittenKept
<1>10. \A k \in 0 .. loc[q].at - 1 : Look(m2, pagetable[x], k) = Look(ram, pagetable[x], k)
  <2>1. loc[q].at <= PageLimit BY <1>4, <1>6, Constants
  <2> QED BY <1>6, <1>9, <2>1, PagesSame
<1>11. \A k \in 0 .. PagesOf(sz[q]) - 1 : Look(m2, pagetable[q], k) = Look(ram, pagetable[q], k)
  BY <1>4, <1>8, PagesSame
<1>12. \A k \in 0 .. loc[q].at - 1 : k \in 0 .. PagesOf(sz[q]) - 1 BY <1>4, <1>6
<1>13. \A k \in 0 .. loc[q].at - 1 : Look(ram', pagetable[x], k) = Look(ram', pagetable[q], k)
  BY <1>1, <1>7, <1>10, <1>11, <1>12 DEF Copied
<1> QED BY <1>1, <1>3, <1>13 DEF Copied

\* A call of a process that does not take part, and its page table.
LEMMA CallRests ==
  ASSUME Good, NEW X, NEW S, NEW C, Stays(S, C), OthersRest(X, S), NEW q \in Procs \ X, Works(q)
  PROVE  Unwritten(ram, ram', loc[q].root)
<1>1. PICK o \in Owners : /\ Holding[o] = SpaceOf(ram, loc[q].root)
                          /\ o = IF Idle(q) THEN <<"image", q>> ELSE <<"space", q>>
  BY CallingOwner
<1>2. o \in Owners \ S BY <1>1 DEF OthersRest
<1>3. loc[q].root \in Frames /\ Tree(ram, loc[q].root) BY Calling
<1> QED BY <1>1, <1>2, <1>3, UnwrittenKept

\* What uvmalloc() has made for a process that does not take part.
LEMMA AddingRests ==
  ASSUME Good, NEW X, NEW S, NEW C, Stays(S, C), OthersRest(X, S), NEW q \in Procs \ X,
         pc[q] \in {"uvmalloc", "sbrk", "load", "stack"}, Adding(q)
  PROVE  Adding(q)'
<1>1. loc'[q] = loc[q] /\ pc'[q] = pc[q] /\ sz'[q] = sz[q] BY DEF OthersRest
<1>2. Works(q) BY DEF Works
<1>3. /\ HasPages(q) \in Nat /\ HasPages(q) <= PageLimit /\ Maps(ram, loc[q].root, HasPages(q))
  BY <1>2, Calling
<1>4. PICK m2 : m2 = ram' OBVIOUS
<1>5. Unwritten(ram, m2, loc[q].root) BY <1>2, <1>4, CallRests
<1>6. ASSUME pc[q] = "uvmalloc" \/ loc[q].new # 0 PROVE Blank(ram', loc[q])
  <2>1. loc[q].old \in Nat /\ loc[q].at \in Nat /\ loc[q].at = HasPages(q) BY <1>6, AddedMapped
  <2>2. PICK l : l = loc[q] OBVIOUS
  <2>3. Blank(ram, l) BY <1>6, <2>2 DEF Adding
  <2>4. PICK n \in Nat : n = HasPages(q) BY <1>3
  <2>5. Blank(m2, l) BY <1>3, <1>5, <2>1, <2>2, <2>3, <2>4, BlankKept
  <2> QED BY <1>4, <2>2, <2>5
<1>7. Idle(q)' <=> Idle(q) BY <1>1 DEF Idle
<1>8. (Loads(q)' <=> Loads(q)) /\ (Stacks(q)' <=> Stacks(q)) BY <1>1 DEF Loads, Stacks
<1> QED BY <1>1, <1>6, <1>7, <1>8 DEF Adding

\* The image that exec() builds for one.
LEMMA ImageRests ==
  ASSUME Good, NEW X, NEW S, NEW C, Stays(S, C), OthersRest(X, S), NEW q \in Procs \ X,
         pc[q] = "segment" \/ Loads(q) \/ Stacks(q), pc[q] # "segment" => Adding(q), InImage(q)
  PROVE  InImage(q)'
<1>1. loc'[q] = loc[q] BY DEF OthersRest
<1>2. Works(q) /\ Idle(q) BY DEF Works, Loads, Stacks, Idle
<1>3. /\ HasPages(q) \in Nat /\ HasPages(q) <= PageLimit /\ Maps(ram, loc[q].root, HasPages(q))
      /\ IsLoc(loc[q])
  BY <1>2, Calling
<1>4. PICK m2 : m2 = ram' OBVIOUS
<1>5. Unwritten(ram, m2, loc[q].root) BY <1>2, <1>4, CallRests
<1>6. PagesOf(loc[q].size) \in Nat /\ PagesOf(loc[q].size) <= HasPages(q)
  <2>1. PagesOf(loc[q].size) \in Nat BY <1>3, PagesAre DEF IsLoc
  <2>2. CASE pc[q] = "segment" BY <2>1, <2>2 DEF HasPages
  <2>3. CASE pc[q] # "segment" BY <1>2, <2>1, <2>3, AddedMapped DEF Loads, Stacks
  <2> QED BY <2>1, <2>2, <2>3
<1>7. PICK binary \in Binaries, i \in Nat :
        /\ i <= Len(binary) /\ loc[q].segs = SubSeq(binary, i + 1, Len(binary))
        /\ HasSegments(ram, loc[q].root, binary, i, PagesOf(loc[q].size))
  BY DEF InImage
<1>8. HasSegments(m2, loc[q].root, binary, i, PagesOf(loc[q].size))
  <2>1. PICK n, k, r : n = HasPages(q) /\ k = PagesOf(loc[q].size) /\ r = loc[q].root OBVIOUS
  <2>2. HasSegments(ram, r, binary, i, k) BY <1>7, <2>1
  <2>3. HasSegments(m2, r, binary, i, k) BY <1>3, <1>5, <1>6, <2>1, <2>2, SegmentsKept
  <2> QED BY <2>1, <2>3
<1> QED BY <1>1, <1>4, <1>7, <1>8 DEF InImage

\* A process that does not take part.
LEMMA Rests ==
  ASSUME Good, NEW X, NEW S, NEW C, Stays(S, C), OthersRest(X, S), NEW q \in Procs \ X, Contents(q)
  PROVE  Contents(q)' /\ AddressSpace(q)' = AddressSpace(q)
<1>1. /\ loc'[q] = loc[q] /\ pc'[q] = pc[q] /\ sz'[q] = sz[q] /\ state'[q] = state[q]
      /\ pagetable'[q] = pagetable[q] /\ <<"space", q>> \notin S
  BY DEF OthersRest
<1>2. AddressSpace(q)' = AddressSpace(q) BY <1>1, SpaceRests
<1>3. pc'[q] \in {"uvmalloc", "sbrk", "load", "stack"} => Adding(q)'
  BY <1>1, AddingRests DEF Contents
<1>4. pc'[q] = "copy" => Copied(q)' BY <1>1, CopiedRests DEF Contents
<1>5. pc'[q] \in {"argv", "open"} => loc'[q].segs \in Binaries BY <1>1 DEF Contents
<1>6. pc'[q] = "segment" \/ Loads(q)' \/ Stacks(q)' => InImage(q)'
  <2>1. (Loads(q)' <=> Loads(q)) /\ (Stacks(q)' <=> Stacks(q)) BY <1>1 DEF Loads, Stacks
  <2>2. pc[q] = "segment" \/ Loads(q) \/ Stacks(q) => InImage(q) /\ (pc[q] # "segment" => Adding(q))
    BY DEF Contents, Loads, Stacks
  <2> QED BY <1>1, <2>1, <2>2, ImageRests
<1> QED BY <1>2, <1>3, <1>4, <1>5, <1>6 DEF Contents

\* The memory of p becomes x, that of the others stays.
TakesStep(p, x) ==
  /\ \A q \in Procs : Contents(q)'
  /\ \A q \in Procs \ {p} : AddressSpace(q)' = AddressSpace(q)
  /\ AddressSpace(p)' = x

\* Nothing changes in the processes but p.
Others(p) ==
  \A q \in Procs \ {p} : /\ state'[q] = state[q] /\ sz'[q] = sz[q] /\ pagetable'[q] = pagetable[q]
                         /\ trapframe'[q] = trapframe[q] /\ pc'[q] = pc[q] /\ loc'[q] = loc[q]

\* Owners that are none of another process's memory.
Own(p, S) == \A q \in Procs \ {p} : <<"space", q>> \notin S /\ <<"image", q>> \notin S

\* A process that runs is no child that fork() makes and no zombie, so the calls of the others rest.
LEMMA Acts ==
  ASSUME Good, NEW p \in Procs, state[p] = "runnable", NEW S, Own(p, S), Others(p), parent' = parent
  PROVE  OthersRest({p}, S)
<1> SUFFICES ASSUME NEW q \in Procs \ {p}
             PROVE  /\ <<"space", q>> \notin S /\ <<"image", q>> \notin S
                    /\ state'[q] = state[q] /\ sz'[q] = sz[q] /\ pagetable'[q] = pagetable[q]
                    /\ trapframe'[q] = trapframe[q] /\ pc'[q] = pc[q] /\ loc'[q] = loc[q]
                    /\ pc[q] = "copy" => loc[q].np \notin {p}
                    /\ pc[q] = "reap" => loc[q].np \notin {p} /\ parent'[loc[q].np] = parent[loc[q].np]
  BY DEF OthersRest
<1>1. pc[q] = "copy" \/ pc[q] = "reap" => loc[q].np # p BY PcApart
<1> QED BY <1>1 DEF Own, Others

\* p alone takes part.
LEMMA Alters ==
  ASSUME GoodPages, NEW p \in Procs, state[p] = "runnable", NEW S, NEW C, Stays(S, C), Own(p, S), Others(p),
         parent' = parent, Contents(p)', NEW x, AddressSpace(p)' = x
  PROVE  TakesStep(p, x)
<1>1. OthersRest({p}, S) /\ Good BY Acts DEF GoodPages
<1>2. ASSUME NEW q \in Procs \ {p} PROVE Contents(q)' /\ AddressSpace(q)' = AddressSpace(q)
  <2>1. Contents(q) BY DEF GoodPages
  <2> QED BY <1>1, <2>1, Rests
<1>3. \A q \in Procs : Contents(q)' BY <1>2
<1> QED BY <1>2, <1>3 DEF TakesStep

\* And its own memory stays.
LEMMA Leaves0 ==
  ASSUME GoodPages, NEW p \in Procs, state[p] = "runnable", NEW S, NEW C, Stays(S, C), Own(p, S), Others(p),
         parent' = parent, Contents(p)', <<"space", p>> \notin S,
         state'[p] \in {"runnable", "zombie"}, sz'[p] = sz[p], pagetable'[p] = pagetable[p]
  PROVE  TakesStep(p, AddressSpace(p))
<1>1. AddressSpace(p)' = AddressSpace(p)
  <2>1. Good /\ Contents(p) BY DEF GoodPages
  <2> QED BY <2>1, SpaceRests
<1>2. PICK x : x = AddressSpace(p) OBVIOUS
<1>3. TakesStep(p, x) BY <1>1, <1>2, Alters
<1> QED BY <1>2, <1>3

\* The processes are as they were, but for where p is in its call.
LEMMA Calm ==
  ASSUME Good, NEW p \in Procs, UNCHANGED procs,
         NEW s, pc' = [pc EXCEPT ![p] = s], NEW l, loc' = [loc EXCEPT ![p] = l]
  PROVE  /\ Others(p) /\ parent' = parent /\ state'[p] = state[p] /\ sz'[p] = sz[p]
    /\ pagetable'[p] = pagetable[p]
         /\ pc'[p] = s /\ loc'[p] = l
<1>1. pc \in [Procs -> Pc] /\ loc = [q \in Procs |-> loc[q]] BY DEF Good, Typed
<1>2. pc'[p] = s /\ loc'[p] = l /\ \A q \in Procs \ {p} : pc'[q] = pc[q] /\ loc'[q] = loc[q]
  BY <1>1
<1> QED BY <1>2 DEF Others, procs

\* In user space, and where a call begins, nothing is asked of memory.
LEMMA NothingDue ==
  ASSUME NEW p, pc'[p] \in {"user", "reap"}
  PROVE  Contents(p)'
BY DEF Contents, Loads, Stacks

\* A step of p that writes no memory.
LEMMA WritesNothing ==
  ASSUME GoodPages, NEW p \in Procs, state[p] = "runnable", ram' = ram, UNCHANGED procs,
         NEW s, pc' = [pc EXCEPT ![p] = s], NEW l, loc' = [loc EXCEPT ![p] = l], Contents(p)'
  PROVE  TakesStep(p, AddressSpace(p))
<1>1. Good BY DEF GoodPages
<1>2. /\ Others(p) /\ parent' = parent /\ state'[p] = state[p] /\ sz'[p] = sz[p]
      /\ pagetable'[p] = pagetable[p]
  BY <1>1, Calm
<1>3. Stays({}, {}) /\ Own(p, {}) /\ <<"space", p>> \notin {} BY DEF Stays, Own
<1> QED BY <1>2, <1>3, Leaves0

\* Nobody does anything.
LEMMA Stands ==
  ASSUME GoodPages, UNCHANGED <<memory, procs, pc, loc>>, NEW p \in Procs
  PROVE  TakesStep(p, AddressSpace(p))
<1>1. ASSUME NEW q \in Procs PROVE Contents(q)' /\ AddressSpace(q)' = AddressSpace(q)
  <2>1. Stays({}, {}) /\ OthersRest({}, {}) BY DEF Stays, OthersRest, memory, procs
  <2>2. Good /\ Contents(q) /\ q \in Procs \ {} BY DEF GoodPages
  <2> QED BY <2>1, <2>2, Rests
<1> QED BY <1>1 DEF TakesStep

\* exec() begins.
LEMMA ExecSteps ==
  ASSUME GoodPages, NEW p \in Procs, NEW binary \in Binaries, Exec(p, binary)
  PROVE  TakesStep(p, AddressSpace(p))
<1> DEFINE l == [NoCall EXCEPT !.segs = binary]
<1>1. /\ state[p] = "runnable" /\ ram' = ram /\ UNCHANGED procs
      /\ pc' = [pc EXCEPT ![p] = "argv"] /\ loc' = [loc EXCEPT ![p] = l]
  BY DEF Exec, Calls, Goto, memory
<1>2. l.segs = binary BY DEF NoCall
<1> HIDE DEF l
<1>3. pc'[p] = "argv" /\ loc'[p] = l BY <1>1, Calm DEF GoodPages
<1>4. Contents(p)' BY <1>2, <1>3 DEF Contents, Loads, Stacks
<1> QED BY <1>1, <1>4, WritesNothing

\* uvmalloc() begins, with these rights.
LEMMA BeginsPerm ==
  ASSUME Good, NEW p \in Procs, NEW l, IsLoc(l), NEW oldsz, NEW newsz, NEW perm, NEW s,
         Uvmalloc(p, l, oldsz, newsz, perm, s)
  PROVE  loc'[p].perm = perm
<1>1. DOMAIN l = {"np", "root", "at", "old", "new", "perm", "then", "segs", "size", "argv"}
  BY DEF IsLoc
<1>2. loc = [q \in Procs |-> loc[q]] BY DEF Good, Typed
<1> QED BY <1>1, <1>2 DEF Uvmalloc

-----
\* Calls begin, fail and end.
\* uvmalloc() begins for a call that goes on at s.
Starts(p, l, s) ==
  \E m, t :
    /\ loc' = [loc EXCEPT ![p] = m] /\ pc' = [pc EXCEPT ![p] = t] /\ pc'[p] = t /\ loc'[p] = m
    /\ t \in {s, "uvmalloc"} /\ m.then = s /\ m.root = l.root /\ m.segs = l.segs /\ m.size = l.size
    /\ Adding(p)'

\* It does, whatever the call: nothing is added yet.
LEMMA StartsAdding ==
  ASSUME GoodPages, NEW p \in Procs, NEW l, IsLoc(l), NEW oldsz \in Nat, NEW newsz \in Nat, NEW perm,
         NEW s \in {"sbrk", "load", "stack"}, Uvmalloc(p, l, oldsz, newsz, perm, s),
           UNCHANGED <<memory, procs>>,
         s = "sbrk" => oldsz = sz[p] /\ perm = {"W"},
         s # "sbrk" => PagesOf(l.size) = PagesOf(oldsz),
         s = "load" => newsz = End(Head(l.segs)) /\ oldsz = l.size /\ perm = Head(l.segs).perm,
         s = "stack" => l.segs = <<>> /\ perm = {"W"}
  PROVE  Starts(p, l, s)
<1>1. Good /\ Typed /\ s \in Pc \ {"uvmalloc"} BY DEF GoodPages, Good, Pc
<1>2. Begun(p, l, oldsz, newsz, s) BY <1>1, Begins
<1>3. PICK m, t :
        /\ loc' = [loc EXCEPT ![p] = m] /\ pc' = [pc EXCEPT ![p] = t] /\ IsLoc(m)
        /\ m.root = l.root /\ m.argv = l.argv /\ m.segs = l.segs /\ m.size = l.size /\ m.np = l.np
        /\ m.then = s /\ m.at = PagesOf(oldsz) /\ m.old = PagesOf(oldsz) /\ newsz <= m.new
        /\ t \in {s, "uvmalloc"}
        /\ t = "uvmalloc" => m.new = newsz /\ m.at * PGSIZE < m.new
        /\ t = s => PagesOf(m.new) = PagesOf(oldsz)
        /\ m.new \in {oldsz, newsz}
  BY <1>2 DEF Begun
<1>4. UNCHANGED procs /\ sz' = sz BY DEF procs
<1>5. pc'[p] = t /\ loc'[p] = m /\ sz'[p] = sz[p] BY <1>1, <1>3, <1>4, Calm, Zenon
<1>6. m.perm = perm BY <1>1, <1>5, BeginsPerm
<1>7. Idle(p)' <=> s # "sbrk" BY <1>3, <1>5 DEF Idle
<1>8. (Loads(p)' <=> s = "load") /\ (Stacks(p)' <=> s = "stack") BY <1>3, <1>5 DEF Loads, Stacks
<1>9. m.old = PagesOf(IF s # "sbrk" THEN m.size ELSE sz[p]) /\ m.old <= m.at
  <2>1. PagesOf(oldsz) \in Nat BY PagesAre
  <2> QED BY <1>3, <2>1
<1>10. m.perm = IF s = "load" THEN Head(m.segs).perm ELSE {"W"} BY <1>3, <1>6
<1>11. Blank(ram', m)
  <2>1. m.old \in Nat /\ m.at = m.old BY <1>3 DEF IsLoc
  <2>2. \A k \in m.old .. m.at - 1 : FALSE BY <2>1
  <2> QED BY <2>2 DEF Blank
<1>12. t # "uvmalloc" => m.at = PagesOf(m.new) BY <1>3
<1>13. s = "load" => m.new \in {0, m.size, End(Head(m.segs))} BY <1>3
<1>14. s = "stack" => m.segs = <<>> BY <1>3
<1>15. Adding(p)' BY <1>5, <1>7, <1>8, <1>9, <1>10, <1>11, <1>12, <1>13, <1>14 DEF Adding
<1> QED BY <1>3, <1>5, <1>15 DEF Starts

\* sbrk() begins to grow.
LEMMA SbrkGrowsSteps ==
  ASSUME GoodPages, NEW p \in Procs, NEW n \in Int, Calls(p), n > 0,
         Uvmalloc(p, [NoCall EXCEPT !.root = pagetable[p]], sz[p], sz[p] + n, {"W"}, "sbrk"),
         UNCHANGED <<memory, procs>>
  PROVE  TakesStep(p, AddressSpace(p))
<1> DEFINE l == [NoCall EXCEPT !.root = pagetable[p]]
           w == {"W"}
           big == sz[p] + n
           s == "sbrk"
<1>1. state[p] = "runnable" /\ Good /\ pagetable[p] \in Frames /\ sz[p] \in Nat /\ big \in Nat
  <2>1. state[p] = "runnable" /\ Good BY DEF Calls, GoodPages
  <2> QED BY <2>1, Runs
<1>2. IsLoc(l)
  <2>1. DOMAIN NoCall = {"np", "root", "at", "old", "new", "perm", "then", "segs", "size", "argv"}
        /\ NoCall.at = 0 /\ NoCall.old = 0 /\ NoCall.new = 0
    BY DEF NoCall
  <2>2. DOMAIN l = DOMAIN NoCall /\ l.segs = NoCall.segs /\ l.root = pagetable[p]
        /\ l.np = NoCall.np /\ l.at = NoCall.at /\ l.old = NoCall.old
        /\ l.new = NoCall.new /\ l.size = NoCall.size /\ l.argv = NoCall.argv
    BY <2>1
  <2> HIDE DEF l
  <2> QED BY <1>1, <2>1, <2>2, NoCallIs DEF IsLoc
<1>3. Uvmalloc(p, l, sz[p], big, w, s) /\ s \in {"sbrk", "load", "stack"} /\ s = "sbrk" /\ w = {"W"}
  OBVIOUS
<1> HIDE DEF l, w, big, s
<1>4. Starts(p, l, s) BY <1>1, <1>2, <1>3, StartsAdding
<1>5. PICK m, t :
        /\ loc' = [loc EXCEPT ![p] = m] /\ pc' = [pc EXCEPT ![p] = t] /\ pc'[p] = t /\ loc'[p] = m
        /\ t \in {s, "uvmalloc"} /\ m.then = s /\ Adding(p)'
  BY <1>4 DEF Starts
<1>6. Contents(p)' BY <1>3, <1>5 DEF Contents, Loads, Stacks
<1>7. ram' = ram /\ UNCHANGED procs BY DEF memory
<1> QED BY <1>1, <1>5, <1>6, <1>7, WritesNothing

\* A segment, or the stack, for the image that exec() makes.
LEMMA SegmentSteps ==
  ASSUME GoodPages, NEW p \in Procs, pc[p] = "segment", NEW l, IsLoc(l), l.root = loc[p].root,
         l.segs = loc[p].segs, PagesOf(l.size) = PagesOf(loc[p].size),
         NEW s \in {"load", "stack"}, Starts(p, l, s), UNCHANGED <<memory, procs>>
  PROVE  TakesStep(p, AddressSpace(p))
<1>1. PICK m, t :
        /\ loc' = [loc EXCEPT ![p] = m] /\ pc' = [pc EXCEPT ![p] = t] /\ pc'[p] = t /\ loc'[p] = m
        /\ t \in {s, "uvmalloc"} /\ m.then = s /\ m.root = l.root /\ m.segs = l.segs /\ m.size = l.size
        /\ Adding(p)'
  BY DEF Starts
<1>2. ram' = ram /\ UNCHANGED procs BY DEF memory
<1>3. InImage(p)'
  <2>1. InImage(p) BY DEF GoodPages, Contents
  <2>2. PICK binary \in Binaries, i \in Nat :
          /\ i <= Len(binary) /\ loc[p].segs = SubSeq(binary, i + 1, Len(binary))
          /\ HasSegments(ram, loc[p].root, binary, i, PagesOf(loc[p].size))
    BY <2>1 DEF InImage
  <2>3. /\ m.segs = SubSeq(binary, i + 1, Len(binary))
        /\ HasSegments(ram', m.root, binary, i, PagesOf(m.size))
    BY <1>1, <1>2, <2>2
  <2> QED BY <1>1, <2>2, <2>3 DEF InImage
<1>4. Contents(p)' BY <1>1, <1>3 DEF Contents
<1>5. state[p] = "runnable" BY Execs DEF GoodPages
<1> QED BY <1>1, <1>2, <1>4, <1>5, WritesNothing

\* exec() begins with a segment.
LEMMA SegmentLoadSteps ==
  ASSUME GoodPages, NEW p \in Procs, pc[p] = "segment", loc[p].segs # <<>>,
         Uvmalloc(p, loc[p], loc[p].size, Head(loc[p].segs).vaddr + Head(loc[p].segs).memsz,
                  Head(loc[p].segs).perm, "load"),
         UNCHANGED <<memory, procs>>
  PROVE  TakesStep(p, AddressSpace(p))
<1>1. IsLoc(loc[p]) /\ Good BY Execs DEF GoodPages
<1> DEFINE perm == Head(loc[p].segs).perm
           big == End(Head(loc[p].segs))
           s == "load"
<1>2. big = Head(loc[p].segs).vaddr + Head(loc[p].segs).memsz /\ big \in Nat
  <2>1. IsSegs(loc[p].segs) BY <1>1 DEF IsLoc
  <2> QED BY <2>1, SegsAre DEF End
<1>3. Uvmalloc(p, loc[p], loc[p].size, big, perm, s) /\ s = "load" /\ s \in {"sbrk", "load", "stack"}
      /\ loc[p].size \in Nat /\ big = End(Head(loc[p].segs)) /\ perm = Head(loc[p].segs).perm
  BY <1>1, <1>2 DEF IsLoc
<1> HIDE DEF perm, big, s
<1>4. Starts(p, loc[p], s) BY <1>1, <1>2, <1>3, StartsAdding
<1> QED BY <1>1, <1>3, <1>4, SegmentSteps

\* exec() begins with the stack.
LEMMA SegmentStackSteps ==
  ASSUME GoodPages, NEW p \in Procs, pc[p] = "segment", loc[p].segs = <<>>,
         Uvmalloc(p, [loc[p] EXCEPT !.size = PGROUNDUP(@)], PGROUNDUP(loc[p].size),
                  PGROUNDUP(loc[p].size) + 2 * PGSIZE, {"W"}, "stack"),
         UNCHANGED <<memory, procs>>
  PROVE  TakesStep(p, AddressSpace(p))
<1>1. IsLoc(loc[p]) /\ Good BY Execs DEF GoodPages
<1> DEFINE l == [loc[p] EXCEPT !.size = PGROUNDUP(@)]
           n == PGROUNDUP(loc[p].size)
           big == n + 2 * PGSIZE
           w == {"W"}
           s == "stack"
<1>2. n \in Nat /\ PagesOf(n) = PagesOf(loc[p].size) /\ big \in Nat
  <2>1. loc[p].size \in Nat BY <1>1 DEF IsLoc
  <2>2. PagesOf(loc[p].size) \in Nat /\ n = PagesOf(loc[p].size) * PGSIZE BY <2>1, PagesAre
  <2>3. PagesOf(PagesOf(loc[p].size) * PGSIZE) = PagesOf(loc[p].size) /\ PagesOf(loc[p].size) * PGSIZE \in Nat
    BY <2>2, PagesExact
  <2>4. 2 * PGSIZE \in Nat BY Constants
  <2> QED BY <2>2, <2>3, <2>4
<1>3. l.size = n /\ l.root = loc[p].root /\ l.segs = loc[p].segs /\ IsLoc(l)
  <2>1. DOMAIN loc[p] = {"np", "root", "at", "old", "new", "perm", "then", "segs", "size", "argv"}
    BY <1>1 DEF IsLoc
  <2>2. DOMAIN l = DOMAIN loc[p] /\ l.segs = loc[p].segs /\ l.root = loc[p].root
        /\ l.np = loc[p].np /\ l.at = loc[p].at /\ l.old = loc[p].old
        /\ l.new = loc[p].new /\ l.size = n /\ l.argv = loc[p].argv
    BY <2>1
  <2> HIDE DEF l, n
  <2> QED BY <1>1, <1>2, <2>1, <2>2 DEF IsLoc
<1>4. Uvmalloc(p, l, n, big, w, s) /\ s = "stack" /\ s \in {"sbrk", "load", "stack"} /\ w = {"W"}
  OBVIOUS
<1> HIDE DEF l, n, big, w, s
<1>5. Starts(p, l, s) BY <1>1, <1>2, <1>3, <1>4, StartsAdding
<1> QED BY <1>1, <1>2, <1>3, <1>4, <1>5, SegmentSteps

\* p alone takes part, and its own memory does not.
LEMMA StepsApart ==
  ASSUME GoodPages, NEW p \in Procs, Footprint({p}, <<"space", p>>), Contents(p)',
         state'[p] \in {"runnable", "zombie"} <=> state[p] \in {"runnable", "zombie"},
         sz'[p] = sz[p], pagetable'[p] = pagetable[p]
  PROVE  TakesStep(p, AddressSpace(p))
<1>1. PICK S, C : Stays(S, C) /\ OthersRest({p}, S) /\ <<"space", p>> \notin S BY DEF Footprint
<1>2. Good /\ \A q \in Procs : Contents(q) BY DEF GoodPages
<1>3. AddressSpace(p)' = AddressSpace(p) BY <1>1, <1>2, SpaceRests
<1>4. ASSUME NEW q \in Procs \ {p} PROVE Contents(q)' /\ AddressSpace(q)' = AddressSpace(q)
  BY <1>1, <1>2, Rests
<1>5. \A q \in Procs : Contents(q)' BY <1>4
<1> QED BY <1>3, <1>4, <1>5 DEF TakesStep

\* p takes part, and x gets another memory.
LEMMA StepsTogether ==
  ASSUME GoodPages, NEW p \in Procs, NEW x \in Procs \ {p}, Footprint({p, x}, <<"space", p>>),
         Contents(p)', Contents(x)',
         state'[p] = state[p], sz'[p] = sz[p], pagetable'[p] = pagetable[p],
         NEW y, AddressSpace(x)' = y
  PROVE  TakesStep(x, y)
<1>1. PICK S, C : Stays(S, C) /\ OthersRest({p, x}, S) /\ <<"space", p>> \notin S
  BY DEF Footprint
<1>2. Good /\ \A q \in Procs : Contents(q) BY DEF GoodPages
<1>3. AddressSpace(p)' = AddressSpace(p) BY <1>1, <1>2, SpaceRests
<1>4. ASSUME NEW q \in Procs \ {p, x} PROVE Contents(q)' /\ AddressSpace(q)' = AddressSpace(q)
  <2> DEFINE X == {p, x}
  <2>1. q \in Procs \ X /\ OthersRest(X, S) BY <1>1
  <2> HIDE DEF X
  <2> QED BY <1>1, <1>2, <2>1, Rests
<1>5. \A q \in Procs : Contents(q)' BY <1>4
<1>6. \A q \in Procs \ {x} : AddressSpace(q)' = AddressSpace(q) BY <1>3, <1>4
<1> QED BY <1>5, <1>6 DEF TakesStep

\* exec() fails.
LEMMA BadSteps ==
  ASSUME GoodPages, NEW p \in Procs, pc[p] \in {"argv", "open", "segment", "load", "stack"},
         NEW size \in Nat, PagesOf(size) <= PageLimit,
         loc[p].root # NoFrame => Maps(ram, loc[p].root, PagesOf(size)),
         Bad(p, size), UNCHANGED procs
  PROVE  TakesStep(p, AddressSpace(p))
<1>1. Good BY DEF GoodPages
<1>2. Footprint({p}, <<"space", p>>) BY <1>1, BadKeeps
<1>3. pc'[p] = "user" BY <1>1 DEF Bad, Returns, Goto, Good, Typed
<1>4. Contents(p)' BY <1>3, NothingDue
<1> QED BY <1>2, <1>4, StepsApart DEF procs

\* An argument is copied, or exec() fails.
LEMMA FetchArgSteps ==
  ASSUME GoodPages, NEW p \in Procs, FetchArg(p)
  PROVE  TakesStep(p, AddressSpace(p))
<1>1. Good /\ pc[p] = "argv" /\ UNCHANGED procs BY DEF GoodPages, FetchArg
<1>2. state[p] = "runnable" /\ InExec(p) /\ IsLoc(loc[p]) BY <1>1, Execs
<1>3. loc[p].segs \in Binaries BY <1>1 DEF GoodPages, Contents
<1>4. CASE Bad(p, 0)
  <2>1. loc[p].root = NoFrame BY <1>1, <1>2 DEF InExec
  <2>2. PagesOf(0) <= PageLimit /\ 0 \in Nat BY ZeroPages, Constants
  <2> QED BY <1>1, <1>4, <2>1, <2>2, BadSteps
<1>5. CASE /\ FreeFrames(1)
           /\ ram' = [ram EXCEPT ![Frame1] = Data("args")] /\ free' = free \ {Frame1}
           /\ loc' = [loc EXCEPT ![p].argv = @ \cup {Frame1}]
           /\ UNCHANGED <<panic, pc>>
  <2>1. Footprint({p}, <<"space", p>>) BY <1>1, <1>5, FetchKeeps
  <2>2. pc'[p] = "argv" /\ loc'[p].segs = loc[p].segs BY <1>1, <1>2, <1>5 DEF IsLoc, Good, Typed
  <2>3. Contents(p)' BY <1>3, <2>2 DEF Contents, Loads, Stacks
  <2> QED BY <1>1, <2>1, <2>3, StepsApart DEF procs
<1>6. CASE Goto(p, "open") /\ UNCHANGED <<memory, loc>>
  <2> DEFINE s == "open"
             l == loc[p]
  <2>1. pc' = [pc EXCEPT ![p] = s] /\ ram' = ram BY <1>6 DEF Goto, memory
  <2>2. loc' = [loc EXCEPT ![p] = l] BY <1>1, <1>6 DEF Good, Typed
  <2>3. pc'[p] = "open" /\ loc'[p].segs = loc[p].segs BY <1>1, <1>6, <2>1 DEF Good, Typed
  <2>4. Contents(p)' BY <1>3, <2>3 DEF Contents, Loads, Stacks
  <2> HIDE DEF s, l
  <2> QED BY <1>1, <1>2, <2>1, <2>2, <2>4, WritesNothing
<1> QED BY <1>4, <1>5, <1>6 DEF FetchArg

\* exec() fails at the stack.
LEMMA CommitFailsSteps ==
  ASSUME GoodPages, NEW p \in Procs, CommitFails(p)
  PROVE  TakesStep(p, AddressSpace(p))
<1>1. Good /\ pc[p] = "stack" /\ UNCHANGED procs /\ Bad(p, IF loc[p].new = 0 THEN loc[p].size ELSE loc[p].new)
  BY DEF GoodPages, CommitFails
<1>2. InExec(p) /\ IsLoc(loc[p]) BY <1>1, Execs
<1> DEFINE size == IF loc[p].new = 0 THEN loc[p].size ELSE loc[p].new
<1>3. size \in Nat BY <1>2 DEF IsLoc
<1>4. Maps(ram, loc[p].root, PagesOf(size)) BY <1>1, <1>2 DEF InExec
<1>5. PagesOf(size) <= PageLimit
  <2>1. loc[p].new # 0 => size = loc[p].size + 2 * PGSIZE BY <1>1, <1>2 DEF InExec
  <2>2. PagesOf(loc[p].size) + 2 <= PageLimit /\ loc[p].size % PGSIZE = 0 /\ loc[p].size \in Nat
    BY <1>1, <1>2 DEF InExec, IsLoc
  <2>3. PagesOf(loc[p].size + 2 * PGSIZE) = PagesOf(loc[p].size) + 2 /\ PagesOf(loc[p].size) \in Nat
    BY <2>2, TwoMore, PagesAre
  <2>4. PageLimit \in Nat BY Constants
  <2> QED BY <2>1, <2>2, <2>3, <2>4
<1> HIDE DEF size
<1>6. Bad(p, size) BY <1>1 DEF size
<1> QED BY <1>1, <1>3, <1>4, <1>5, <1>6, BadSteps

\* Nobody's memory changes.
Stutters == \E q \in Procs : TakesStep(q, AddressSpace(q))

\* exit(): a zombie keeps its memory.
LEMMA ExitSteps ==
  ASSUME GoodPages, NEW p \in Procs, ExitProcess(p)
  PROVE  TakesStep(p, AddressSpace(p))
<1>1. Good /\ state[p] = "runnable" /\ pc[p] = "user" /\ pc' = pc /\ sz' = sz /\ pagetable' = pagetable
      /\ state'[p] = "zombie"
  BY DEF GoodPages, Good, Typed, ExitProcess, Calls
<1>2. Footprint({p}, <<"space", p>>) BY <1>1, ExitProcessKeeps
<1>3. Contents(p)' BY <1>1, NothingDue
<1> QED BY <1>1, <1>2, <1>3, StepsApart

\* The next segment, the stack, or exec() fails.
LEMMA SegmentAllSteps ==
  ASSUME GoodPages, NEW p \in Procs, Segment(p)
  PROVE  TakesStep(p, AddressSpace(p))
<1>1. Good /\ pc[p] = "segment" /\ UNCHANGED procs BY DEF GoodPages, Segment
<1>2. InExec(p) /\ IsLoc(loc[p]) BY <1>1, Execs
<1>3. /\ loc[p].size \in Nat /\ PagesOf(loc[p].size) + 2 <= PageLimit
      /\ Maps(ram, loc[p].root, PagesOf(loc[p].size))
  BY <1>1, <1>2 DEF InExec, IsLoc
<1>4. PagesOf(loc[p].size) <= PageLimit
  <2>1. PagesOf(loc[p].size) \in Nat BY <1>3, PagesAre
  <2>2. PageLimit \in Nat BY Constants
  <2> QED BY <1>3, <2>1, <2>2
<1>5. CASE Bad(p, loc[p].size) BY <1>1, <1>3, <1>4, <1>5, BadSteps
<1>6. CASE loc[p].segs # <<>> /\ UNCHANGED memory
           /\ Uvmalloc(p, loc[p], loc[p].size, Head(loc[p].segs).vaddr + Head(loc[p].segs).memsz,
                    Head(loc[p].segs).perm, "load")
  BY <1>1, <1>6, SegmentLoadSteps
<1>7. CASE loc[p].segs = <<>> /\ UNCHANGED memory
           /\ Uvmalloc(p, [loc[p] EXCEPT !.size = PGROUNDUP(@)], PGROUNDUP(loc[p].size),
                    PGROUNDUP(loc[p].size) + 2 * PGSIZE, {"W"}, "stack")
  BY <1>1, <1>7, SegmentStackSteps
<1> QED BY <1>5, <1>6, <1>7 DEF Segment

\* An image without a segment.
LEMMA NoSegments ==
  ASSUME NEW m, NEW r, NEW binary \in Binaries
  PROVE  /\ binary = SubSeq(binary, 0 + 1, Len(binary)) /\ Len(binary) \in Nat
         /\ HasSegments(m, r, binary, 0, 0)
<1>1. binary \in Seq(Range(binary)) BY BinariesAssumption
<1>2. SubSeq(binary, 1, Len(binary)) = binary /\ Len(binary) \in Nat BY <1>1
<1>3. HasSegments(m, r, binary, 0, 0) BY DEF HasSegments
<1> QED BY <1>2, <1>3

\* The file is opened, or exec() fails.
LEMMA OpenSteps ==
  ASSUME GoodPages, NEW p \in Procs, Open(p)
  PROVE  TakesStep(p, AddressSpace(p))
<1>1. Good /\ pc[p] = "open" /\ UNCHANGED procs BY DEF GoodPages, Open
<1>2. InExec(p) /\ loc[p].root = NoFrame /\ IsLoc(loc[p]) /\ loc[p].size = 0
  <2>1. InExec(p) /\ IsLoc(loc[p]) BY <1>1, Execs
  <2> QED BY <1>1, <2>1 DEF InExec
<1>3. CASE Bad(p, 0)
  <2>1. 0 \in Nat /\ PagesOf(0) <= PageLimit BY ZeroPages, Constants
  <2> QED BY <1>1, <1>2, <1>3, <2>1, BadSteps
<1>4. CASE /\ FreeFrames(3) /\ free' = free \ {Frame1, Frame2, Frame3}
           /\ ram' = SpaceTables(ram, Frame1, Frame2, Frame3, trapframe[p])
           /\ loc' = [loc EXCEPT ![p].root = Frame1]
           /\ Goto(p, "segment")
           /\ UNCHANGED panic
  <2>1. Footprint({p}, <<"space", p>>) BY <1>1, <1>4, OpenMakes
  <2>2. pc'[p] = "segment" BY <1>1, <1>4 DEF Goto, Good, Typed
  <2>3. loc'[p].segs = loc[p].segs /\ loc'[p].size = 0
    BY <1>1, <1>2, <1>4 DEF IsLoc, Good, Typed
  <2>4. PICK binary \in Binaries : loc[p].segs = binary BY <1>1 DEF GoodPages, Contents
  <2>5. InImage(p)'
    <3>1. HasSegments(ram', loc'[p].root, binary, 0, 0) /\ binary = SubSeq(binary, 0 + 1, Len(binary))
          /\ Len(binary) \in Nat
      BY NoSegments
    <3>2. PagesOf(loc'[p].size) = 0 BY <2>3, ZeroPages
    <3>3. HasSegments(ram', loc'[p].root, binary, 0, PagesOf(loc'[p].size)) BY <3>1, <3>2
    <3>4. 0 \in Nat /\ 0 <= Len(binary) /\ loc'[p].segs = SubSeq(binary, 0 + 1, Len(binary))
      BY <2>3, <2>4, <3>1
    <3> QED BY <3>3, <3>4 DEF InImage
  <2>6. Contents(p)' BY <2>2, <2>5 DEF Contents
  <2> QED BY <1>1, <2>1, <2>6, StepsApart DEF procs
<1> QED BY <1>3, <1>4 DEF Open

\* fork() begins: the child has no memory yet.
LEMMA ForkSteps ==
  ASSUME GoodPages, NEW p \in Procs, Fork(p)
  PROVE  Stutters
<1>1. state[p] = "runnable" /\ pc[p] = "user" /\ Good BY DEF Fork, Calls, GoodPages
<1>2. CASE UNCHANGED <<memory, procs, pc, loc>> BY <1>2, Stands DEF Stutters
<1>3. CASE Slots # {} /\ ~ UNCHANGED <<memory, procs, pc, loc>>
  <2>1. Min(Slots) \in Slots
    <3>1. Slots \in SUBSET Nat BY MemAssumption DEF Slots, Procs
    <3> QED BY <1>3, <3>1, MinIs
  <2>2. PICK x : x = Min(Slots) /\ x \in Procs /\ state[x] = "unused" BY <2>1 DEF Slots
  <2>3. Footprint({p, x}, <<"space", p>>) BY <1>1, <1>3, <2>2, ForkMakes DEF Fork
  <2>4. x # p /\ pc[x] = "user" BY <1>1, <2>2 DEF Good, Process
  <2>5. /\ state' = [state EXCEPT ![x] = "used"] /\ sz' = sz /\ pc' = [pc EXCEPT ![p] = "copy"]
        /\ pagetable' = [pagetable EXCEPT ![x] = Frame2]
        /\ loc' = [loc EXCEPT ![p] = [NoCall EXCEPT !.np = x]]
    BY <1>3, <2>2 DEF Fork, Goto
  <2>6. /\ state'[x] = "used" /\ state'[p] = state[p] /\ sz'[p] = sz[p] /\ pagetable'[p] = pagetable[p]
        /\ pc'[p] = "copy" /\ pc'[x] = "user" /\ loc'[p].at = 0
    BY <1>1, <2>2, <2>4, <2>5 DEF Good, Typed, NoCall
  <2>7. Contents(x)' BY <2>6, NothingDue
  <2>8. Contents(p)' BY <2>6 DEF Contents, Loads, Stacks, Copied
  <2>9. AddressSpace(x)' = AddressSpace(x) BY <2>2, <2>6, AddressSpaceIs
  <2>10. PICK y : y = AddressSpace(x) OBVIOUS
  <2>11. TakesStep(x, y) BY <2>2, <2>3, <2>4, <2>6, <2>7, <2>8, <2>9, <2>10, StepsTogether
  <2> QED BY <2>2, <2>10, <2>11 DEF Stutters
<1> QED BY <1>2, <1>3 DEF Fork

\* A process that is there has a memory, and the others have none.
LEMMA AliveIs ==
  ASSUME GoodPages, NEW q \in Procs
  PROVE  AddressSpace(q) # NoSpace <=> state[q] \in {"runnable", "zombie"}
<1>1. CASE state[q] \notin {"runnable", "zombie"} BY <1>1, AddressSpaceIs
<1>2. CASE state[q] \in {"runnable", "zombie"}
  <2>1. Good /\ Contents(q) BY DEF GoodPages
  <2>2. PICK n \in Nat : PagesOf(sz[q]) <= n /\ n <= PageLimit /\ Maps(ram, pagetable[q], n)
    BY <1>2, <2>1, OwnMapped
  <2>3. PagesOf(sz[q]) \in Nat BY <1>2, <2>1, OwnMapped
  <2>4. PICK k : k = PagesOf(sz[q]) OBVIOUS
  <2>5. AddressSpace(q) = [i \in 1 .. k |-> Look(ram, pagetable[q], i - 1)]
    BY <1>2, <2>4, AddressSpaceIs
  <2>6. SUFFICES ASSUME AddressSpace(q) = NoSpace PROVE FALSE BY <1>2
  <2>7. DOMAIN NoSpace = 1 .. 1 /\ NoSpace[1].perm = {} BY DEF NoSpace
  <2>8. 1 \in 1 .. k
    <3>1. 1 \in DOMAIN AddressSpace(q) BY <2>6, <2>7
    <3> QED BY <2>5, <3>1
  <2>9. Look(ram, pagetable[q], 0).perm = {}
    <3>1. AddressSpace(q)[1] = Look(ram, pagetable[q], 1 - 1) BY <2>5, <2>8
    <3> QED BY <2>6, <2>7, <3>1
  <2>10. "R" \in Ent(ram, pagetable[q], 0).perm
    <3>1. 0 \in 0 .. n - 1 BY <2>2, <2>3, <2>4, <2>8
    <3>2. 0 \in Addresses BY PxTop
    <3> QED BY <2>2, <3>1, <3>2 DEF Maps
  <2> QED BY <2>9, <2>10 DEF Look
<1> QED BY <1>1, <1>2

\* What p waits for, or makes, is another process.
LEMMA OtherIs ==
  ASSUME Good, NEW p \in Procs, pc[p] \in {"copy", "reap"}
  PROVE  /\ loc[p].np \in Procs /\ loc[p].np # p /\ pc[loc[p].np] = "user"
         /\ state[p] = "runnable" /\ state[loc[p].np] = IF pc[p] = "copy" THEN "used" ELSE "zombie"
<1>1. /\ loc[p].np \in Procs /\ state[p] = "runnable"
      /\ state[loc[p].np] = IF pc[p] = "copy" THEN "used" ELSE "zombie"
  BY PcApart
<1>2. pc[loc[p].np] = "user"
  <2>1. PICK x \in Procs : x = loc[p].np BY <1>1
  <2>2. Process(x) /\ state[x] # "runnable" BY <1>1, <2>1 DEF Good
  <2>3. pc[x] = "user" BY <2>2 DEF Process
  <2> QED BY <2>1, <2>3
<1> QED BY <1>1, <1>2

\* A slot becomes free.
LEMMA UnusedSteps ==
  ASSUME GoodPages, NEW p \in Procs, pc[p] \in {"copy", "reap"}, NEW x, x = loc[p].np,
         Footprint({p, x}, <<"space", p>>), Unused(x), Returns(p)
  PROVE  x \in Procs /\ TakesStep(x, NoSpace)
<1>1. Good /\ x \in Procs /\ x # p /\ pc[x] = "user"
  <2>1. Good BY DEF GoodPages
  <2> QED BY <2>1, OtherIs
<1>2. /\ state'[x] = "unused" /\ state'[p] = state[p] /\ sz'[p] = sz[p] /\ pagetable'[p] = pagetable[p]
      /\ pc'[p] = "user" /\ pc'[x] = "user"
  BY <1>1 DEF Unused, Returns, Goto, Good, Typed
<1>3. Contents(x)' /\ Contents(p)' BY <1>2, NothingDue
<1>4. AddressSpace(x)' = NoSpace BY <1>2, AddressSpaceIs
<1>5. PICK y : y = NoSpace OBVIOUS
<1>6. TakesStep(x, y) BY <1>1, <1>2, <1>3, <1>4, <1>5, StepsTogether
<1> QED BY <1>1, <1>5, <1>6

\* uvmcopy() fails: there has been no child.
LEMMA CopyFailsSteps ==
  ASSUME GoodPages, NEW p \in Procs, CopyFails(p)
  PROVE  Stutters
<1>1. Good /\ pc[p] = "copy" BY DEF GoodPages, CopyFails
<1>2. PICK x : x = loc[p].np OBVIOUS
<1>3. Unused(x) /\ Returns(p) BY <1>2 DEF CopyFails
<1>4. Footprint({p, x}, <<"space", p>>) BY <1>1, <1>2, CopyFailsKeeps
<1>5. x \in Procs /\ TakesStep(x, NoSpace) BY <1>1, <1>2, <1>3, <1>4, UnusedSteps
<1>6. state[x] = "used" BY <1>1, <1>2, OtherIs
<1>7. AddressSpace(x) = NoSpace BY <1>6, AddressSpaceIs
<1> QED BY <1>5, <1>7 DEF Stutters

\* wait() frees the memory of a child.
LEMMA ReapSteps ==
  ASSUME GoodPages, NEW p \in Procs, Reap(p)
  PROVE  \E x \in Procs : AddressSpace(x) # NoSpace /\ TakesStep(x, NoSpace)
<1>1. Good /\ pc[p] = "reap" BY DEF GoodPages, Reap
<1>2. PICK x : x = loc[p].np OBVIOUS
<1>3. Unused(x) /\ Returns(p) BY <1>2 DEF Reap
<1>4. Footprint({p, x}, <<"space", p>>) BY <1>1, <1>2, ReapKeeps
<1>5. x \in Procs /\ TakesStep(x, NoSpace) BY <1>1, <1>2, <1>3, <1>4, UnusedSteps
<1>6. state[x] = "zombie" BY <1>1, <1>2, OtherIs
<1>7. AddressSpace(x) # NoSpace BY <1>5, <1>6, AliveIs
<1> QED BY <1>5, <1>7

\* fork() gives the child what its parent has.
LEMMA ForkReturnsSteps ==
  ASSUME GoodPages, NEW p \in Procs, ForkReturns(p)
  PROVE  \E x \in Procs : /\ AddressSpace(p) # NoSpace /\ AddressSpace(x) = NoSpace
                          /\ TakesStep(x, AddressSpace(p))
<1>1. Good /\ pc[p] = "copy" /\ InFork(p) /\ IsLoc(loc[p]) /\ Copied(p)
  BY DEF GoodPages, Contents, ForkReturns, Good, Caller, Typed
<1>2. PICK x : x = loc[p].np OBVIOUS
<1>3. x \in Procs /\ x # p /\ pc[x] = "user" /\ state[p] = "runnable" /\ state[x] = "used"
  BY <1>1, <1>2, OtherIs
<1>4. Footprint({p, x}, <<"space", p>>) BY <1>1, <1>2, ForkReturnsKeeps
<1>5. /\ sz' = [sz EXCEPT ![x] = sz[p]] /\ state' = [state EXCEPT ![x] = "runnable"]
      /\ pc' = [pc EXCEPT ![p] = "user"] /\ ram' = ram /\ pagetable' = pagetable
  BY <1>2 DEF ForkReturns, Returns, Goto, memory
<1>6. /\ sz'[x] = sz[p] /\ sz'[p] = sz[p] /\ state'[x] = "runnable" /\ state'[p] = state[p]
      /\ pc'[p] = "user" /\ pc'[x] = "user" /\ pagetable'[p] = pagetable[p]
  BY <1>1, <1>3, <1>5 DEF Good, Typed
<1>7. loc[p].at = PagesOf(sz[p])
  <2>1. sz[p] \in Nat /\ PagesOf(sz[p]) \in Nat BY <1>1, <1>3, Runs
  <2>2. loc[p].at * PGSIZE >= sz[p] /\ loc[p].at <= PagesOf(sz[p]) /\ loc[p].at \in Nat
    BY <1>1 DEF ForkReturns, InFork, IsLoc
  <2>3. ~ (loc[p].at < PagesOf(sz[p])) BY <2>1, <2>2, PagesCover, Constants
  <2> QED BY <2>1, <2>2, <2>3
<1>8. Contents(x)' /\ Contents(p)' BY <1>6, NothingDue
<1>9. AddressSpace(x)' = AddressSpace(p)
  <2>1. PICK k : k = PagesOf(sz[p]) /\ k \in Nat BY <1>1, <1>3, Runs
  <2>2. AddressSpace(x)' = [i \in 1 .. k |-> Look(ram, pagetable[x], i - 1)]
    BY <1>5, <1>6, <2>1, AddressSpaceIs
  <2>3. AddressSpace(p) = [i \in 1 .. k |-> Look(ram, pagetable[p], i - 1)]
    BY <1>3, <2>1, AddressSpaceIs
  <2>4. ASSUME NEW i \in 1 .. k PROVE Look(ram, pagetable[x], i - 1) = Look(ram, pagetable[p], i - 1)
    <3>1. i - 1 \in 0 .. loc[p].at - 1 BY <1>7, <2>1
    <3> QED BY <1>1, <1>2, <3>1 DEF Copied
  <2> QED BY <2>2, <2>3, <2>4
<1>10. PICK y : y = AddressSpace(p) OBVIOUS
<1>11. TakesStep(x, y) BY <1>3, <1>4, <1>6, <1>8, <1>9, <1>10, StepsTogether
<1>12. AddressSpace(p) # NoSpace /\ AddressSpace(x) = NoSpace BY <1>3, AliveIs
<1> QED BY <1>3, <1>10, <1>11, <1>12

-----
\* Pages that are copied or added, or go.
\* A page that is copied looks like the one of the parent.
LEMMA CopyPageSteps ==
  ASSUME GoodPages, NEW p \in Procs, CopyPage(p)
  PROVE  Stutters
<1>1. Good /\ pc[p] = "copy" /\ InFork(p) /\ IsLoc(loc[p]) /\ Copied(p) /\ Process(p) /\ Contents(p)
  BY DEF GoodPages, Contents, CopyPage, Good, Caller, Typed
<1>2. PICK x, k : x = loc[p].np /\ k = loc[p].at OBVIOUS
<1>3. /\ x \in Procs /\ x # p /\ pc[x] = "user" /\ state[p] = "runnable" /\ state[x] = "used"
      /\ k \in Nat /\ k <= PagesOf(sz[p])
  BY <1>1, <1>2, OtherIs DEF InFork, IsLoc
<1>4. CopiedPage(p) /\ Footprint({p, x}, <<"space", p>>) BY <1>1, <1>2, CopyPageKeeps
<1>5. /\ UNCHANGED procs /\ pc' = pc /\ loc'[p].np = x /\ loc'[p].at = k + 1
  BY <1>1, <1>2 DEF CopyPage, Good, Typed, IsLoc
<1>6. k < PagesOf(sz[p])
  <2>1. sz[p] \in Nat /\ PagesOf(sz[p]) \in Nat BY <1>1, <1>3, Runs
  <2>2. k * PGSIZE < sz[p] BY <1>2 DEF CopyPage
  <2> QED BY <1>3, <2>1, <2>2, PagesCover
<1>7. PICK r, s : r = pagetable[x] /\ s = pagetable[p] OBVIOUS
<1>8. \A j \in 0 .. k - 1 : Look(ram, r, j) = Look(ram, s, j) BY <1>1, <1>2, <1>7 DEF Copied
<1>9. \A j \in 0 .. k : Look(ram', s, j) = Look(ram, s, j)
  <2>1. PICK S, C : Stays(S, C) /\ <<"space", p>> \notin S BY <1>4 DEF Footprint
  <2>2. <<"space", p>> \in Owners \ S BY <2>1, OwnersAre
  <2>3. Holding[<<"space", p>>] = SpaceOf(ram, s) BY <1>7, HoldingIs
  <2>4. s \in Frames /\ Tree(ram, s) BY <1>1, <1>3, <1>7, Runs
  <2>5. Unwritten(ram, ram', s)
    <3>1. PICK o : o = <<"space", p>> OBVIOUS
    <3> QED BY <1>1, <2>1, <2>2, <2>3, <2>4, <3>1, UnwrittenKept
  <2>6. PICK n \in Nat : PagesOf(sz[p]) <= n /\ n <= PageLimit /\ Maps(ram, s, n)
    BY <1>1, <1>3, <1>7, OwnMapped
  <2>7. \A j \in 0 .. n - 1 : Look(ram', s, j) = Look(ram, s, j) BY <2>5, <2>6, PagesSame
  <2>8. PagesOf(sz[p]) \in Nat BY <1>1, <1>3, Runs, SMTT(30)
  <2> QED BY <1>3, <1>6, <2>6, <2>7, <2>8
<1>10. PICK pte : /\ pte = Pte(s, k) /\ Still(ram, ram', r, k)
                  /\ Ent(ram', r, k).perm = pte.perm /\ ram'[Ent(ram', r, k).pa] = ram[pte.pa]
  BY <1>2, <1>4, <1>7 DEF CopiedPage, Grown
<1>11. pte = Ent(ram, s, k) BY <1>10, PteIs
<1>12. \A j \in 0 .. k - 1 : Look(ram', r, j) = Look(ram, r, j) BY <1>10 DEF Still, Look
<1>13. Look(ram', r, k) = Look(ram, s, k) BY <1>10, <1>11 DEF Look
<1>14. \A j \in 0 .. (k + 1) - 1 : Look(ram', r, j) = Look(ram', s, j)
  <2> SUFFICES ASSUME NEW j \in 0 .. (k + 1) - 1 PROVE Look(ram', r, j) = Look(ram', s, j)
    OBVIOUS
  <2>1. j \in 0 .. k /\ (j = k \/ j \in 0 .. k - 1) BY <1>3
  <2> QED BY <1>8, <1>9, <1>12, <1>13, <2>1
<1>15. Copied(p)'
  <2>1. pagetable'[x] = r /\ pagetable'[p] = s BY <1>5, <1>7 DEF procs
  <2> QED BY <1>5, <1>14, <2>1 DEF Copied
<1>16. pc'[p] = "copy" /\ pc'[x] = "user" BY <1>1, <1>3, <1>5
<1>17. Contents(p)' /\ Contents(x)'
  <2>1. Contents(p)' BY <1>15, <1>16 DEF Contents, Loads, Stacks
  <2> QED BY <1>16, <2>1, NothingDue
<1>18. /\ state'[p] = state[p] /\ sz'[p] = sz[p] /\ pagetable'[p] = pagetable[p]
       /\ state'[x] = "used"
  BY <1>3, <1>5 DEF procs
<1>19. AddressSpace(x)' = AddressSpace(x) BY <1>3, <1>18, AddressSpaceIs
<1>20. PICK y : y = AddressSpace(x) OBVIOUS
<1>21. TakesStep(x, y) BY <1>3, <1>4, <1>17, <1>18, <1>19, <1>20, StepsTogether
<1> QED BY <1>3, <1>20, <1>21 DEF Stutters

\* A sequence of m elements.
Lists(s, m) == s = [k \in 1 .. m |-> s[k]]

\* A sequence that begins with another, and goes on with a third.
LEMMA Joins ==
  ASSUME NEW m \in Nat, NEW n \in Nat, m <= n, NEW s, NEW t, NEW u,
         Lists(s, m), Lists(t, n), Lists(u, n - m),
         \A k \in 1 .. m : t[k] = s[k], \A k \in m + 1 .. n : t[k] = u[k - m]
  PROVE  t = s \o u
<1> DEFINE c == s \o u
<1>1. n - m \in Nat OBVIOUS
<1>2. PICK T : (\A k \in 1 .. n - m : u[k] \in T) /\ \A k \in 1 .. m : s[k] \in T
  <2>1. /\ \A k \in 1 .. m : s[k] \in {s[i] : i \in 1 .. m} \cup {u[i] : i \in 1 .. n - m}
        /\ \A k \in 1 .. n - m : u[k] \in {s[i] : i \in 1 .. m} \cup {u[i] : i \in 1 .. n - m}
    OBVIOUS
  <2> QED BY <2>1
<1>3. s \in [1 .. m -> T] /\ u \in [1 .. n - m -> T] BY <1>2 DEF Lists
<1>4. \A k \in Nat : \A f \in [1 .. k -> T] : f \in Seq(T) /\ Len(f) = k OBVIOUS
<1>5. s \in Seq(T) /\ u \in Seq(T) /\ Len(s) = m /\ Len(u) = n - m BY <1>1, <1>3, <1>4
<1>6. c \in Seq(T) /\ Len(c) = m + (n - m)
      /\ \A i \in 1 .. Len(c) : c[i] = IF i <= m THEN s[i] ELSE u[i - m]
  <2>1. /\ s \o u \in Seq(T) /\ Len(s \o u) = Len(s) + Len(u)
        /\ \A i \in 1 .. Len(s) + Len(u) : (s \o u)[i] = IF i <= Len(s) THEN s[i] ELSE u[i - Len(s)]
    <3>1. \A v, w \in Seq(T) :
             /\ v \o w \in Seq(T) /\ Len(v \o w) = Len(v) + Len(w)
             /\ \A i \in 1 .. Len(v) + Len(w) : (v \o w)[i] = IF i <= Len(v) THEN v[i] ELSE w[i - Len(v)]
      BY ConcatProperties, Zenon
    <3>2. s \in Seq(T) /\ u \in Seq(T) BY <1>5
    <3> QED BY <3>1, <3>2, Zenon
  <2>2. c = s \o u OBVIOUS
  <2> HIDE DEF c
  <2>3. c \in Seq(T) /\ Len(c) = m + (n - m) BY <1>5, <2>1, <2>2
  <2>4. \A i \in 1 .. Len(s) + Len(u) : c[i] = IF i <= Len(s) THEN s[i] ELSE u[i - Len(s)]
    BY <2>1, <2>2
  <2>5. Len(s) + Len(u) = Len(c) BY <1>5, <2>3
  <2> QED BY <1>5, <2>3, <2>4, <2>5
<1>7. Len(c) = n BY <1>6
<1>8. c = [k \in 1 .. n |-> c[k]]
  <2> HIDE DEF c
  <2>1. \A w \in Seq(T) : w = [k \in 1 .. Len(w) |-> w[k]] OBVIOUS
  <2>2. c = [k \in 1 .. Len(c) |-> c[k]] BY <1>6, <2>1
  <2> QED BY <1>7, <2>2
<1>9. ASSUME NEW k \in 1 .. n PROVE c[k] = t[k]
  <2>1. c[k] = IF k <= m THEN s[k] ELSE u[k - m] BY <1>6, <1>7, <1>9
  <2>2. CASE k <= m
    <3>1. k \in 1 .. m BY <1>9, <2>2
    <3> QED BY <2>1, <2>2, <3>1
  <2>3. CASE ~ (k <= m)
    <3>1. k - m \in 1 .. n - m /\ k \in m + 1 .. n BY <2>3
    <3>2. t[k] = u[k - m] BY <3>1
    <3> QED BY <2>1, <2>3, <3>2
  <2> QED BY <2>2, <2>3
<1> HIDE DEF c
<1>10. c = t BY <1>8, <1>9 DEF Lists
<1> QED BY <1>10 DEF c

\* A sequence that begins with another, and goes on with x.
LEMMA GoesOn ==
  ASSUME NEW m \in Nat, NEW n \in Nat, m <= n, NEW s, NEW t, NEW x,
         Lists(s, m), Lists(t, n),
         \A k \in 1 .. m : t[k] = s[k], \A k \in m + 1 .. n : t[k] = x
  PROVE  t = s \o [k \in 1 .. n - m |-> x]
<1>1. PICK u : u = [k \in 1 .. n - m |-> x] OBVIOUS
<1>2. Lists(u, n - m) /\ \A k \in 1 .. n - m : u[k] = x BY <1>1 DEF Lists
<1>3. \A k \in m + 1 .. n : t[k] = u[k - m] BY <1>2
<1>4. t = s \o u BY <1>2, <1>3, Joins
<1> QED BY <1>1, <1>4

\* p gets these pages more.
GetsPages(p) ==
  \E n \in 1 .. PageLimit : /\ AddressSpace(p) # NoSpace
                           /\ TakesStep(p, AddressSpace(p) \o [k \in 1 .. n |-> A!Fresh])

\* sbrk() returns: the pages are the process's now, and zero.
LEMMA SbrkReturnsSteps ==
  ASSUME GoodPages, NEW p \in Procs, SbrkReturns(p)
  PROVE  TakesStep(p, AddressSpace(p)) \/ GetsPages(p)
<1>1. Good /\ pc[p] = "sbrk" /\ Process(p) /\ Caller(p) /\ Adding(p) /\ IsLoc(loc[p])
  BY DEF GoodPages, Contents, SbrkReturns, Good, Typed
<1>2. state[p] = "runnable" /\ ~ Idle(p) /\ InSbrk(p) BY <1>1 DEF Process, Caller, Idle
<1>3. /\ ram' = ram /\ state' = state /\ pagetable' = pagetable /\ trapframe' = trapframe
      /\ parent' = parent /\ pc' = [pc EXCEPT ![p] = "user"] /\ loc' = [loc EXCEPT ![p] = NoCall]
      /\ sz' = [sz EXCEPT ![p] = IF loc[p].new = 0 THEN @ ELSE loc[p].new]
  BY DEF SbrkReturns, Returns, Goto, memory
<1>4. /\ pc'[p] = "user" /\ sz'[p] = IF loc[p].new = 0 THEN sz[p] ELSE loc[p].new
      /\ Others(p)
  BY <1>1, <1>3 DEF Good, Typed, Others
<1>5. Contents(p)' BY <1>4, NothingDue
<1>6. Stays({}, {}) /\ Own(p, {}) BY <1>3 DEF Stays, Own
<1>7. ASSUME NEW x, AddressSpace(p)' = x PROVE TakesStep(p, x)
  BY <1>2, <1>3, <1>4, <1>5, <1>6, <1>7, Alters
<1>8. PICK a : a = AddressSpace(p) OBVIOUS
<1>9. PICK m, r : m = PagesOf(sz[p]) /\ r = pagetable[p] /\ m \in Nat BY <1>1, <1>2, Runs
<1>10. a = [k \in 1 .. m |-> Look(ram, r, k - 1)] BY <1>2, <1>8, <1>9, AddressSpaceIs
<1>11. CASE loc[p].new = 0
  <2>1. AddressSpace(p)' = a
    <3>1. AddressSpace(p)' = [k \in 1 .. m |-> Look(ram, r, k - 1)]
      BY <1>2, <1>3, <1>4, <1>9, <1>11, AddressSpaceIs
    <3> QED BY <1>10, <3>1
  <2> QED BY <1>7, <1>8, <2>1
<1>12. CASE loc[p].new # 0
  <2>1. PICK n : n = PagesOf(loc[p].new) /\ n \in Nat BY <1>1, PagesAre DEF IsLoc
  <2>2. loc[p].at = n /\ loc[p].old = m /\ m <= n /\ loc[p].perm = {"W"} /\ Blank(ram, loc[p])
          /\ loc[p].root = r
        /\ n <= PageLimit
    BY <1>1, <1>2, <1>9, <1>12, <2>1 DEF Adding, Loads, InSbrk
  <2>3. PICK t : t = [k \in 1 .. n |-> Look(ram, r, k - 1)] OBVIOUS
  <2>4. AddressSpace(p)' = t BY <1>2, <1>3, <1>4, <1>9, <1>12, <2>1, <2>3, AddressSpaceIs
  <2>5. ASSUME NEW k \in m + 1 .. n PROVE t[k] = A!Fresh
    <3>1. k - 1 \in m .. n - 1 /\ k \in 1 .. n BY <1>9, <2>1
    <3>2. Look(ram, r, k - 1) = [data |-> "zero", perm |-> {"R", "U"} \cup loc[p].perm]
      BY <2>2, <3>1 DEF Blank
    <3>3. {"R", "U"} \cup loc[p].perm = {"R", "W", "U"} BY <2>2
    <3>4. t[k] = Look(ram, r, k - 1) BY <2>3, <3>1
    <3> QED BY <3>2, <3>3, <3>4 DEF A!Fresh
  <2>6. \A k \in 1 .. m : t[k] = a[k] BY <1>9, <1>10, <2>1, <2>2, <2>3
  <2>7. Lists(a, m) /\ Lists(t, n) BY <1>10, <2>3 DEF Lists
  <2>8. PICK f : f = A!Fresh OBVIOUS
  <2>9. t = a \o [k \in 1 .. n - m |-> f]
    <3>1. \A k \in m + 1 .. n : t[k] = f BY <2>5, <2>8
    <3>2. m \in Nat /\ n \in Nat /\ m <= n BY <1>9, <2>1, <2>2
    <3> QED BY <2>6, <2>7, <3>1, <3>2, GoesOn, ZenonT(40)
  <2>10. TakesStep(p, t) BY <1>7, <2>4
  <2>11. CASE n = m
    <3>1. t = a BY <1>10, <2>3, <2>11
    <3> QED BY <1>8, <2>10, <3>1
  <2>12. CASE n # m
    <3>1. PICK d : d = n - m /\ d \in 1 .. PageLimit BY <1>9, <2>1, <2>2, <2>12, Constants
    <3>2. t = AddressSpace(p) \o [k \in 1 .. d |-> A!Fresh] BY <1>8, <2>8, <2>9, <3>1
    <3>3. TakesStep(p, AddressSpace(p) \o [k \in 1 .. d |-> A!Fresh]) BY <2>10, <3>2
    <3>4. AddressSpace(p) # NoSpace BY <1>2, AliveIs
    <3> QED BY <3>1, <3>3, <3>4 DEF GetsPages
  <2> QED BY <2>11, <2>12
<1> QED BY <1>11, <1>12

\* What uvmalloc() does above the pages that were there leaves the memory of all.
LEMMA UvmallocLeaves ==
  ASSUME GoodPages, NEW p \in Procs, pc[p] = "uvmalloc", NEW S, NEW C, Stays(S, C), OthersRest({p}, S),
         loc[p].then # "sbrk" => <<"space", p>> \notin S,
         NEW j \in Nat, loc[p].old <= j, Still(ram, ram', loc[p].root, j), UNCHANGED procs, Contents(p)'
  PROVE  TakesStep(p, AddressSpace(p))
<1>1. Good /\ state[p] = "runnable" /\ Adding(p) BY DEF GoodPages, Contents, Good, Process
<1>2. state' = state /\ sz' = sz /\ pagetable' = pagetable BY DEF procs
<1>3. CASE loc[p].then = "sbrk"
  <2>1. ~ Idle(p) BY <1>3 DEF Idle
  <2>2. loc[p].root = pagetable[p] /\ loc[p].old = PagesOf(sz[p])
    BY <1>1, <2>1 DEF Adding, Good, Caller, InSbrk
  <2>3. PICK n, r : n = PagesOf(sz[p]) /\ r = pagetable[p] /\ n \in Nat BY <1>1, Runs
  <2>4. \A k \in 0 .. j - 1 : Look(ram', r, k) = Look(ram, r, k) BY <2>2, <2>3 DEF Still, Look
  <2>5. AddressSpace(p) = [k \in 1 .. n |-> Look(ram, r, k - 1)]
        /\ AddressSpace(p)' = [k \in 1 .. n |-> Look(ram', r, k - 1)]
    BY <1>1, <1>2, <2>3, AddressSpaceIs
  <2>6. ASSUME NEW k \in 1 .. n PROVE Look(ram', r, k - 1) = Look(ram, r, k - 1)
    <3>1. k - 1 \in 0 .. j - 1 BY <2>2, <2>3
    <3> QED BY <2>4, <3>1
  <2>7. AddressSpace(p)' = AddressSpace(p) BY <2>5, <2>6
  <2>8. ASSUME NEW q \in Procs \ {p} PROVE Contents(q)' /\ AddressSpace(q)' = AddressSpace(q)
    <3> DEFINE X == {p}
    <3>1. OthersRest(X, S) /\ q \in Procs \ X OBVIOUS
    <3>2. Contents(q) BY DEF GoodPages
    <3> HIDE DEF X
    <3> QED BY <1>1, <3>1, <3>2, Rests
  <2>9. \A q \in Procs : Contents(q)' BY <2>8
  <2> QED BY <2>7, <2>8, <2>9 DEF TakesStep
<1>4. CASE loc[p].then # "sbrk"
  <2>1. Footprint({p}, <<"space", p>>) BY <1>4 DEF Footprint
  <2> QED BY <1>2, <2>1, StepsApart
<1> QED BY <1>3, <1>4

\* What exec() has loaded stays while it makes room for more.
LEMMA ImageStays ==
  ASSUME Good, NEW p \in Procs, Idle(p), Adding(p), InImage(p), loc[p].old \in Nat,
         NEW j \in Nat, loc[p].old <= j, Still(ram, ram', loc[p].root, j),
         loc'[p].root = loc[p].root, loc'[p].segs = loc[p].segs, loc'[p].size = loc[p].size
  PROVE  InImage(p)'
<1>1. PICK binary \in Binaries, i \in Nat :
        /\ i <= Len(binary) /\ loc[p].segs = SubSeq(binary, i + 1, Len(binary))
        /\ HasSegments(ram, loc[p].root, binary, i, PagesOf(loc[p].size))
  BY DEF InImage
<1>2. PICK n, r : n = PagesOf(loc[p].size) /\ r = loc[p].root OBVIOUS
<1>3. n = loc[p].old /\ n \in Nat BY <1>2 DEF Adding
<1>4. \A k \in 0 .. j - 1 : Look(ram', r, k) = Look(ram, r, k) BY <1>2 DEF Still, Look
<1>5. HasSegments(ram', r, binary, i, n)
  <2>1. HasSegments(ram, r, binary, i, n) BY <1>1, <1>2
  <2>2. ASSUME NEW k \in 1 .. n PROVE Look(ram', r, k - 1) = Look(ram, r, k - 1)
    <3>1. k - 1 \in 0 .. j - 1 BY <1>3
    <3> QED BY <1>4, <3>1
  <2> QED BY <2>1, <2>2 DEF HasSegments
<1> QED BY <1>1, <1>2, <1>5 DEF InImage

\* uvmalloc() maps a page, which is zero.
LEMMA UvmallocPageSteps ==
  ASSUME GoodPages, NEW p \in Procs, UvmallocPage(p)
  PROVE  TakesStep(p, AddressSpace(p))
<1>1. Good /\ pc[p] = "uvmalloc" /\ Adding(p) /\ Contents(p) /\ UNCHANGED procs
  BY DEF GoodPages, Contents, UvmallocPage
<1> DEFINE l == loc[p]
<1>2. /\ IsLoc(l) /\ l.then \in {"sbrk", "load", "stack"} /\ l.at \in Nat /\ l.old \in Nat /\ l.new \in Nat
      /\ l.old <= l.at /\ l.at * PGSIZE < l.new /\ (l.at + 1) * PGSIZE = l.at * PGSIZE + PGSIZE
      /\ l.at * PGSIZE \in Nat
      /\ DOMAIN l = {"np", "root", "at", "old", "new", "perm", "then", "segs", "size", "argv"}
  <2>1. InUvmalloc(p, loc[p], loc[p].root) BY <1>1, Uvmallocs
  <2> QED BY <2>1, Zenon DEF InUvmalloc
<1>3. GotPage(p) BY <1>1, UvmallocPageKeeps
<1>4. PICK o \in {<<"space", p>>, <<"image", p>>} :
        /\ Grown(l.root, o, l.at, Zero, {"R", "U"} \cup l.perm)
        /\ OthersRest({p}, {<<"free", 0>>, o}) /\ (l.then # "sbrk" => o = <<"image", p>>)
  BY <1>3 DEF GotPage
<1>5. PICK C : /\ Stays({<<"free", 0>>, o}, C) /\ Still(ram, ram', l.root, l.at)
               /\ Ent(ram', l.root, l.at).perm = {"R", "U"} \cup l.perm
               /\ ram'[Ent(ram', l.root, l.at).pa] = Zero
  BY <1>4 DEF Grown
<1>6. /\ loc'[p].at = l.at + 1 /\ loc'[p].old = l.old /\ loc'[p].root = l.root /\ loc'[p].new = l.new
      /\ loc'[p].perm = l.perm /\ loc'[p].then = l.then /\ loc'[p].segs = l.segs /\ loc'[p].size = l.size
  BY <1>1, <1>2 DEF UvmallocPage, Good, Typed
<1>7. pc'[p] = IF (l.at + 1) * PGSIZE >= l.new THEN l.then ELSE "uvmalloc"
  BY <1>1 DEF UvmallocPage, Goto, Good, Typed
<1>8. (Idle(p)' <=> Idle(p)) /\ (Loads(p)' <=> Loads(p)) /\ (Stacks(p)' <=> Stacks(p))
  BY <1>1, <1>2, <1>6, <1>7 DEF Idle, Loads, Stacks
<1>9. sz' = sz BY <1>1 DEF procs
<1>10. Blank(ram', loc'[p])
  <2>1. Blank(ram, l) BY <1>1 DEF Adding
  <2>2. ASSUME NEW k \in l.old .. (l.at + 1) - 1
        PROVE  Look(ram', l.root, k) = [data |-> "zero", perm |-> {"R", "U"} \cup l.perm]
    <3>1. CASE k = l.at
      <4>1. Zero.data = "zero" BY DEF Zero, Data
      <4> QED BY <1>5, <3>1, <4>1 DEF Look
    <3>2. CASE k # l.at
      <4>1. k \in l.old .. l.at - 1 /\ k \in 0 .. l.at - 1 BY <1>2, <3>2
      <4>2. Look(ram', l.root, k) = Look(ram, l.root, k) BY <1>5, <4>1 DEF Still, Look
      <4> QED BY <2>1, <4>1, <4>2 DEF Blank
    <3> QED BY <3>1, <3>2
  <2> QED BY <1>6, <2>2 DEF Blank
<1>11. pc'[p] # "uvmalloc" => loc'[p].at = PagesOf(loc'[p].new)
  <2> SUFFICES ASSUME pc'[p] # "uvmalloc" PROVE PagesOf(l.new) = l.at + 1
    BY <1>6
  <2>1. l.new <= (l.at + 1) * PGSIZE /\ (l.at + 1) * PGSIZE < l.new + PGSIZE
    <3>1. (l.at + 1) * PGSIZE >= l.new BY <1>7
    <3>2. PGSIZE \in Nat BY Constants
    <3> QED BY <1>2, <3>1, <3>2
  <2>2. l.at + 1 \in Nat BY <1>2
  <2> QED BY <1>2, <2>1, <2>2, PagesIs
<1>12. Adding(p)'
  <2> HIDE DEF l
  <2>1. l.old <= l.at + 1 BY <1>2
  <2>2. /\ l.old = PagesOf(IF Idle(p) THEN l.size ELSE sz[p])
        /\ l.perm = IF Loads(p) THEN Head(l.segs).perm ELSE {"W"}
        /\ Loads(p) => l.new \in {0, l.size, End(Head(l.segs))}
        /\ Stacks(p) => l.segs = <<>>
    BY <1>1 DEF Adding, l
  <2> QED BY <1>6, <1>8, <1>9, <1>10, <1>11, <2>1, <2>2 DEF Adding
<1>13. Loads(p)' \/ Stacks(p)' => InImage(p)'
  <2> SUFFICES ASSUME Loads(p) \/ Stacks(p) PROVE InImage(p)'
    BY <1>8
  <2>1. InImage(p) BY <1>1 DEF Contents
  <2>2. Idle(p) BY <1>1 DEF Loads, Stacks, Idle
  <2> QED BY <1>1, <1>2, <1>5, <1>6, <2>1, <2>2, ImageStays
<1>14. Contents(p)' BY <1>2, <1>7, <1>12, <1>13 DEF Contents
<1>15. PICK S, j : S = {<<"free", 0>>, o} /\ j = l.at OBVIOUS
<1>16. l.then # "sbrk" => <<"space", p>> \notin S BY <1>4, <1>15
<1>17. Stays(S, C) /\ OthersRest({p}, S) /\ j \in Nat /\ l.old <= j /\ Still(ram, ram', l.root, j)
  BY <1>2, <1>4, <1>5, <1>15
<1> QED BY <1>1, <1>14, <1>16, <1>17, UvmallocLeaves

\* uvmalloc() fails: what was there before is there, as it was.
LEMMA UvmallocFailsSteps ==
  ASSUME GoodPages, NEW p \in Procs, UvmallocFails(p)
  PROVE  TakesStep(p, AddressSpace(p))
<1>1. Good /\ pc[p] = "uvmalloc" /\ Adding(p) /\ Contents(p) /\ UNCHANGED procs
  BY DEF GoodPages, Contents, UvmallocFails
<1> DEFINE l == loc[p]
<1>2. /\ IsLoc(l) /\ l.then \in {"sbrk", "load", "stack"} /\ l.old \in Nat
      /\ DOMAIN l = {"np", "root", "at", "old", "new", "perm", "then", "segs", "size", "argv"}
  <2>1. InUvmalloc(p, loc[p], loc[p].root) BY <1>1, Uvmallocs
  <2> QED BY <2>1, Zenon DEF InUvmalloc
<1>3. GaveBack(p) BY <1>1, UvmallocFailsKeeps
<1>4. PICK o \in {<<"space", p>>, <<"image", p>>} :
        /\ \E C, G, T : Shrunk(l.root, o, l.old, l.at, C, G, T)
        /\ OthersRest({p}, {<<"free", 0>>, o}) /\ (l.then # "sbrk" => o = <<"image", p>>)
  BY <1>3 DEF GaveBack
<1>5. PICK C : Stays({<<"free", 0>>, o}, C) /\ Still(ram, ram', l.root, l.old)
  BY <1>4 DEF Shrunk
<1>6. /\ loc'[p].at = l.at /\ loc'[p].old = l.old /\ loc'[p].root = l.root /\ loc'[p].new = 0
      /\ loc'[p].perm = l.perm /\ loc'[p].then = l.then /\ loc'[p].segs = l.segs /\ loc'[p].size = l.size
  BY <1>1, <1>2 DEF UvmallocFails, Good, Typed
<1>7. pc'[p] = l.then BY <1>1 DEF UvmallocFails, Goto, Good, Typed
<1>8. (Idle(p)' <=> Idle(p)) /\ (Loads(p)' <=> Loads(p)) /\ (Stacks(p)' <=> Stacks(p))
  BY <1>1, <1>2, <1>6, <1>7 DEF Idle, Loads, Stacks
<1>9. sz' = sz BY <1>1 DEF procs
<1>10. Adding(p)'
  <2> HIDE DEF l
  <2>1. /\ l.old = PagesOf(IF Idle(p) THEN l.size ELSE sz[p]) /\ l.old <= l.at
        /\ l.perm = IF Loads(p) THEN Head(l.segs).perm ELSE {"W"}
        /\ Stacks(p) => l.segs = <<>>
    BY <1>1 DEF Adding, l
  <2>2. pc'[p] # "uvmalloc" /\ loc'[p].new = 0 BY <1>2, <1>6, <1>7
  <2> QED BY <1>6, <1>8, <1>9, <2>1, <2>2 DEF Adding
<1>11. Loads(p)' \/ Stacks(p)' => InImage(p)'
  <2> SUFFICES ASSUME Loads(p) \/ Stacks(p) PROVE InImage(p)'
    BY <1>8
  <2>1. InImage(p) BY <1>1 DEF Contents
  <2>2. Idle(p) BY <1>1 DEF Loads, Stacks, Idle
  <2> QED BY <1>1, <1>2, <1>5, <1>6, <2>1, <2>2, ImageStays
<1>12. Contents(p)' BY <1>2, <1>7, <1>10, <1>11 DEF Contents
<1>13. PICK S, j : S = {<<"free", 0>>, o} /\ j = l.old OBVIOUS
<1>14. l.then # "sbrk" => <<"space", p>> \notin S BY <1>4, <1>13
<1>15. Stays(S, C) /\ OthersRest({p}, S) /\ j \in Nat /\ l.old <= j /\ Still(ram, ram', l.root, j)
  BY <1>2, <1>4, <1>5, <1>13
<1> QED BY <1>1, <1>12, <1>14, <1>15, UvmallocLeaves

\* The beginning of a sequence.
LEMMA CutOff ==
  ASSUME NEW m \in Nat, NEW n \in Nat, n <= m, NEW s, NEW t, Lists(s, m), Lists(t, n),
         \A k \in 1 .. n : t[k] = s[k]
  PROVE  t = SubSeq(s, 1, n) /\ Len(s) = m
<1>1. PICK T : \A k \in 1 .. m : s[k] \in T
  <2>1. \A k \in 1 .. m : s[k] \in {s[i] : i \in 1 .. m} OBVIOUS
  <2> QED BY <2>1
<1>2. s \in [1 .. m -> T] BY <1>1 DEF Lists
<1>3. \A k \in Nat : \A f \in [1 .. k -> T] : f \in Seq(T) /\ Len(f) = k OBVIOUS
<1>4. s \in Seq(T) /\ Len(s) = m BY <1>2, <1>3
<1>5. SubSeq(s, 1, n) = [k \in 1 .. n |-> s[k]]
  <2>1. SubSeq(s, 1, n) = [k \in 1 .. (1 + n) - 1 |-> s[1 + k - 1]] BY <1>4
  <2>2. (1 + n) - 1 = n /\ \A k \in 1 .. n : 1 + k - 1 = k OBVIOUS
  <2> QED BY <2>1, <2>2
<1>6. t = [k \in 1 .. n |-> s[k]] BY DEF Lists
<1> QED BY <1>4, <1>5, <1>6

\* p loses its last pages.
LosesPages(p) ==
  \E n \in 0 .. PageLimit : /\ AddressSpace(p) # NoSpace /\ n < Len(AddressSpace(p))
                           /\ TakesStep(p, SubSeq(AddressSpace(p), 1, n))

\* sbrk() takes the last pages.
LEMMA SbrkShrinksSteps ==
  ASSUME GoodPages, NEW p \in Procs, NEW d \in Int, state[p] = "runnable", pc[p] = "user",
    d < 0, sz[p] + d >= 0,
         NEW K, K = PagesFrom(sz[p] + d, sz[p]),
         ram' = Unmapped(pagetable[p], K), free' = free \cup FramesAt(pagetable[p], K),
         sz' = [sz EXCEPT ![p] = @ + d], UNCHANGED <<panic, pc, loc, state, parent, pagetable, trapframe>>
  PROVE  TakesStep(p, AddressSpace(p)) \/ LosesPages(p)
<1>1. Good BY DEF GoodPages
<1>2. /\ OthersRest({p}, {<<"free", 0>>, <<"space", p>>})
      /\ \E C, G, T : Shrunk(pagetable[p], <<"space", p>>, PagesOf(sz[p] + d), PagesOf(sz[p]), C, G, T)
  BY <1>1, SbrkShrinks
<1>3. PICK r, m, n : /\ r = pagetable[p] /\ m = PagesOf(sz[p]) /\ n = PagesOf(sz[p] + d)
                     /\ m \in Nat /\ n \in Nat /\ n <= m /\ m <= PageLimit
  <2>1. sz[p] \in Nat /\ sz[p] + d \in Nat /\ sz[p] + d <= sz[p] BY <1>1, Runs
  <2>2. PagesOf(sz[p]) \in Nat /\ PagesOf(sz[p] + d) \in Nat /\ PagesOf(sz[p] + d) <= PagesOf(sz[p])
    BY <2>1, PagesAre, PagesGrow
  <2> QED BY <1>1, <2>2, Runs
<1>4. PICK S, C : Stays(S, C) /\ OthersRest({p}, S) /\ Still(ram, ram', r, n)
  BY <1>2, <1>3 DEF Shrunk
<1>5. sz'[p] = sz[p] + d /\ pc'[p] = "user" /\ state'[p] = "runnable" /\ pagetable'[p] = r
  BY <1>1, <1>3 DEF Good, Typed
<1>6. Contents(p)' BY <1>5, NothingDue
<1>7. ASSUME NEW q \in Procs \ {p} PROVE Contents(q)' /\ AddressSpace(q)' = AddressSpace(q)
  <2>1. Contents(q) BY DEF GoodPages
  <2> QED BY <1>1, <1>4, <2>1, Rests
<1>8. \A q \in Procs : Contents(q)' BY <1>6, <1>7
<1>9. PICK s, t : s = [k \in 1 .. m |-> Look(ram, r, k - 1)] /\ t = [k \in 1 .. n |-> Look(ram', r, k - 1)]
  OBVIOUS
<1>10. AddressSpace(p) = s /\ AddressSpace(p)' = t BY <1>3, <1>5, <1>9, AddressSpaceIs
<1>11. TakesStep(p, t) BY <1>7, <1>8, <1>10 DEF TakesStep
<1>12. ASSUME NEW k \in 1 .. n PROVE t[k] = s[k]
  <2>1. k - 1 \in 0 .. n - 1 /\ k \in 1 .. m BY <1>3
  <2>2. Look(ram', r, k - 1) = Look(ram, r, k - 1) BY <1>4, <2>1 DEF Still, Look
  <2> QED BY <1>9, <2>1, <2>2
<1>13. Lists(s, m) /\ Lists(t, n) BY <1>9 DEF Lists
<1>14. t = SubSeq(s, 1, n) /\ Len(s) = m
  <2>1. m \in Nat /\ n \in Nat /\ n <= m BY <1>3
  <2> QED BY <1>12, <1>13, <2>1, CutOff
<1>15. CASE n = m
  <2>1. t = s BY <1>9, <1>12, <1>15
  <2> QED BY <1>10, <1>11, <2>1
<1>16. CASE n # m
  <2>1. n \in 0 .. PageLimit /\ n < Len(s) BY <1>3, <1>14, <1>16, Constants
  <2>2. s # NoSpace BY <1>10, AliveIs
  <2> QED BY <1>10, <1>11, <1>14, <2>1, <2>2 DEF LosesPages
<1> QED BY <1>15, <1>16

\* sbrk().
LEMMA SbrkSteps ==
  ASSUME GoodPages, NEW p \in Procs, NEW d \in Int, Sbrk(p, d)
  PROVE  TakesStep(p, AddressSpace(p)) \/ LosesPages(p)
<1>1. Calls(p) /\ state[p] = "runnable" /\ pc[p] = "user" BY DEF Sbrk, Calls
<1>2. CASE /\ d > 0
           /\ Uvmalloc(p, [NoCall EXCEPT !.root = pagetable[p]], sz[p], sz[p] + d, {"W"}, "sbrk")
           /\ UNCHANGED <<memory, sz>>
  <2>1. UNCHANGED <<memory, procs>> BY <1>2 DEF Sbrk, procs
  <2> QED BY <1>1, <1>2, <2>1, SbrkGrowsSteps
<1>3. CASE /\ d < 0 /\ sz[p] + d >= 0
           /\ \E K \in {PagesFrom(sz[p] + d, sz[p])} :
                /\ ram' = Unmapped(pagetable[p], K) /\ free' = free \cup FramesAt(pagetable[p], K)
           /\ sz' = [sz EXCEPT ![p] = @ + d]
           /\ UNCHANGED <<panic, pc, loc>>
  <2>1. PICK K : /\ K = PagesFrom(sz[p] + d, sz[p])
                 /\ ram' = Unmapped(pagetable[p], K) /\ free' = free \cup FramesAt(pagetable[p], K)
    BY <1>3
  <2>2. UNCHANGED <<panic, pc, loc, state, parent, pagetable, trapframe>> BY <1>3 DEF Sbrk
  <2> QED BY <1>1, <1>3, <2>1, <2>2, SbrkShrinksSteps
<1>4. CASE UNCHANGED <<memory, sz, pc, loc>>
  <2>1. UNCHANGED <<memory, procs, pc, loc>> BY <1>4 DEF Sbrk, procs
  <2> QED BY <2>1, Stands
<1> QED BY <1>2, <1>3, <1>4 DEF Sbrk

-----
\* Writes to a process.
\* v is written to the pages K of the page table r, which are the user's.
Puts(r, K, v) ==
  /\ K \in SUBSET Addresses /\ v # "kernel" /\ \A k \in K : IsUser(r, k)
  /\ ram' = [f \in Frames |-> IF f \in FramesAt(r, K) THEN Data(v) ELSE ram[f]]

\* That page, after it.
Written(m, r, K, v, j) ==
  [data |-> IF j \in K THEN v ELSE m[Ent(m, r, j).pa].data, perm |-> Ent(m, r, j).perm]

\* copyout() changes what the pages K hold, and nothing else.
LEMMA PutsShows ==
  ASSUME NEW r, Tree(ram, r), SpaceOf(ram, r) \subseteq Managed(ram), NEW n \in Nat,
    n <= PageLimit, Maps(ram, r, n),
         NEW K, NEW v, OnFrames(ram), Puts(r, K, v)
  PROVE  /\ K \subseteq 0 .. n - 1 /\ Wrote(r) /\ Alike(ram, ram', r)
         /\ \A j \in 0 .. n - 1 : Look(ram', r, j) = Written(ram, r, K, v, j)
         /\ \A j \in K : "U" \in Ent(ram, r, j).perm
<1>1. ASSUME NEW k \in K
      PROVE  /\ Pte(r, k) = Ent(ram, r, k) /\ Ent(ram, r, k).pa \in LeavesOf(ram, r)
        /\ "U" \in Ent(ram, r, k).perm
             /\ k \in 0 .. n - 1 /\ Ent(ram, r, k).pa # NoFrame
  <2>1. IsUser(r, k) /\ k \in Addresses BY DEF Puts
  <2>2. Pte(r, k) = Ent(ram, r, k) /\ "U" \in Ent(ram, r, k).perm BY <2>1, PteIs DEF IsUser
  <2>3. Pte(r, k).pa \in LeavesOf(ram, r) /\ Pte(r, k).pa \in Frames BY <2>1, UserLeaf
  <2>4. Ent(ram, r, k).pa # NoFrame BY <2>2, <2>3, Constants
  <2>5. k \notin Top /\ k \in 0 .. n - 1 \cup Top BY <2>1, <2>2, <2>4 DEF Maps
  <2> QED BY <2>2, <2>3, <2>4, <2>5
<1>2. FramesAt(r, K) = {Ent(ram, r, k).pa : k \in K} BY <1>1 DEF FramesAt
<1>3. FramesAt(r, K) \subseteq LeavesOf(ram, r) BY <1>1, <1>2
<1>4. PICK F : F = FramesAt(r, K) OBVIOUS
<1>5. ram' = [f \in Frames |-> IF f \in F THEN Data(v) ELSE ram[f]] BY <1>4 DEF Puts
<1>6. Wrote(r)
  <2>1. Data(v) # Data("kernel") BY Kinds DEF Puts
  <2> QED BY <1>3, <1>4, <1>5, <2>1 DEF Wrote
<1>7. Alike(ram, ram', r) BY <1>6, WroteIs
<1>8. ASSUME NEW j \in 0 .. n - 1 PROVE Look(ram', r, j) = Written(ram, r, K, v, j)
  <2>1. j \in Addresses \ Top /\ Ent(ram, r, j).pa # NoFrame BY FirstPages
  <2>2. Ent(ram', r, j) = Ent(ram, r, j) BY <1>7, <2>1 DEF Alike
  <2>3. Ent(ram, r, j).pa \in F <=> j \in K
    <3>1. j \in K => Ent(ram, r, j).pa \in F BY <1>2, <1>4
    <3>2. ASSUME Ent(ram, r, j).pa \in F PROVE j \in K
      <4>1. PICK k \in K : Ent(ram, r, j).pa = Ent(ram, r, k).pa BY <1>2, <1>4, <3>2
      <4>2. k \in Addresses \ Top BY <1>1, FirstPages
      <4>3. j = k BY <2>1, <4>1, <4>2 DEF Tree
      <4> QED BY <4>3
    <3> QED BY <3>1, <3>2
  <2>4. Ent(ram, r, j).pa \in Frames BY <2>1, LeafIs
  <2>5. ram'[Ent(ram, r, j).pa] = IF j \in K THEN Data(v) ELSE ram[Ent(ram, r, j).pa]
    BY <1>5, <2>3, <2>4
  <2>6. Data(v).data = v BY DEF Data
  <2> QED BY <2>2, <2>5, <2>6 DEF Look, Written
<1>9. K \subseteq 0 .. n - 1 /\ \A j \in K : "U" \in Ent(ram, r, j).perm BY <1>1
<1> QED BY <1>6, <1>7, <1>8, <1>9

\* p alone takes part.
LEMMA StepsOwn ==
  ASSUME GoodPages, NEW p \in Procs, NEW o, Footprint({p}, o), Contents(p)', NEW x, AddressSpace(p)' = x
  PROVE  TakesStep(p, x)
<1>1. PICK S, C : Stays(S, C) /\ OthersRest({p}, S) BY DEF Footprint
<1>2. Good /\ \A q \in Procs : Contents(q) BY DEF GoodPages
<1>3. ASSUME NEW q \in Procs \ {p} PROVE Contents(q)' /\ AddressSpace(q)' = AddressSpace(q)
  BY <1>1, <1>2, Rests
<1>4. \A q \in Procs : Contents(q)' BY <1>3
<1> QED BY <1>3, <1>4 DEF TakesStep

\* Pages of p are filled.
FillsPages(p) ==
  \E K \in SUBSET (1 .. PageLimit), v \in Values \cup {"status"} :
    /\ AddressSpace(p) # NoSpace /\ K \subseteq DOMAIN AddressSpace(p)
    /\ \A k \in K : "U" \in AddressSpace(p)[k].perm
    /\ TakesStep(p, [k \in DOMAIN AddressSpace(p) |->
                       IF k \in K THEN [AddressSpace(p)[k] EXCEPT !.data = v] ELSE AddressSpace(p)[k]])

\* So pages of the process that are the user's are filled.
LEMMA PutsFills ==
  ASSUME GoodPages, NEW p \in Procs, state[p] = "runnable", pc[p] = "user",
         NEW K, NEW v \in Values \cup {"status"}, Puts(pagetable[p], K, v),
         UNCHANGED <<free, panic, procs>>,
         NEW s \in Pc, pc' = [pc EXCEPT ![p] = s], NEW l, loc' = [loc EXCEPT ![p] = l], IsLoc(l),
         l.root = NoFrame, l.argv = {}, s \in {"user", "reap"}, s = "user" => l = NoCall,
         s = "reap" => l.np \in Procs /\ state[l.np] = "zombie" /\ parent[l.np] = p
  PROVE  FillsPages(p)
<1>1. Good BY DEF GoodPages
<1>2. PICK r, n : /\ r = pagetable[p] /\ n = PagesOf(sz[p]) /\ n \in Nat /\ n <= PageLimit
                  /\ Maps(ram, r, n) /\ Tree(ram, r)
  BY <1>1, User, Runs
<1>3. SpaceOf(ram, r) \subseteq Managed(ram) /\ OnFrames(ram)
  <2>1. SpaceOf(ram, r) = Holding[<<"space", p>>] /\ <<"space", p>> \in Owners
    BY <1>2, HoldingIs, OwnersAre
  <2>2. Holding[<<"space", p>>] \subseteq Managed(ram) BY <1>1, <2>1, Parts
  <2> QED BY <1>1, <2>1, <2>2 DEF Good, Typed, OnFrames
<1>4. Puts(r, K, v) BY <1>2
<1>5. /\ K \subseteq 0 .. n - 1 /\ Wrote(r) /\ \A j \in K : "U" \in Ent(ram, r, j).perm
      /\ \A j \in 0 .. n - 1 : Look(ram', r, j) = Written(ram, r, K, v, j)
  BY <1>2, <1>3, <1>4, PutsShows
<1>6. Footprint({p}, <<"free", 0>>)
  <2>1. Wrote(pagetable[p]) BY <1>2, <1>5
  <2> QED BY <1>1, <2>1, WriteKeeps
<1>7. Contents(p)'
  <2>1. pc'[p] = s BY <1>1 DEF Good, Typed
  <2> QED BY <2>1, NothingDue
<1>8. PICK a : a = AddressSpace(p) OBVIOUS
<1>9. PICK b : b = [k \in 1 .. n |-> Look(ram', r, k - 1)] OBVIOUS
<1>10. a = [k \in 1 .. n |-> Look(ram, r, k - 1)] /\ AddressSpace(p)' = b
  BY <1>2, <1>8, <1>9, AddressSpaceIs DEF procs
<1>11. PICK J : J = {k + 1 : k \in K} OBVIOUS
<1>12. \A k \in 1 .. n : k \in J <=> k - 1 \in K BY <1>2, <1>5, <1>11
<1>13. J \subseteq 1 .. n /\ DOMAIN a = 1 .. n BY <1>2, <1>5, <1>10, <1>11
<1>14. ASSUME NEW k \in 1 .. n PROVE b[k] = IF k \in J THEN [a[k] EXCEPT !.data = v] ELSE a[k]
  <2>1. k - 1 \in 0 .. n - 1 BY <1>2
  <2>2. b[k] = Written(ram, r, K, v, k - 1) /\ a[k] = Look(ram, r, k - 1)
    BY <1>5, <1>9, <1>10, <2>1
  <2>3. [Look(ram, r, k - 1) EXCEPT !.data = v] = [data |-> v, perm |-> Ent(ram, r, k - 1).perm]
    BY DEF Look
  <2> QED BY <1>12, <2>2, <2>3 DEF Look, Written
<1>15. \A k \in J : "U" \in a[k].perm
  <2> SUFFICES ASSUME NEW k \in J PROVE "U" \in a[k].perm
    OBVIOUS
  <2>1. k \in 1 .. n /\ k - 1 \in K BY <1>12, <1>13
  <2>2. "U" \in Ent(ram, r, k - 1).perm BY <1>5, <2>1
  <2>3. a[k].perm = Ent(ram, r, k - 1).perm BY <1>10, <2>1 DEF Look
  <2> QED BY <2>2, <2>3
<1>16. b = [k \in DOMAIN a |-> IF k \in J THEN [a[k] EXCEPT !.data = v] ELSE a[k]]
  BY <1>9, <1>13, <1>14
<1>17. TakesStep(p, b) BY <1>6, <1>7, <1>10, StepsOwn
<1>18. a # NoSpace /\ J \in SUBSET (1 .. PageLimit)
  <2>1. a # NoSpace BY <1>8, AliveIs
  <2>2. 1 .. n \subseteq 1 .. PageLimit BY <1>2, Constants
  <2> QED BY <1>13, <2>1, <2>2
<1> QED BY <1>8, <1>13, <1>15, <1>16, <1>17, <1>18 DEF FillsPages

\* copyout() puts v into the pages that it reaches.
LEMMA CopyoutPuts ==
  ASSUME NEW r, NEW K \in SUBSET Addresses, NEW v, v # "kernel", ram' = Copyout(r, K, v)
  PROVE  Puts(r, Reached(r, K), v)
<1>1. Reached(r, K) \in SUBSET Addresses BY DEF Reached
<1>2. ASSUME NEW k \in Reached(r, K) PROVE IsUser(r, k)
  <2>1. k \in K /\ k <= k BY Constants DEF Reached
  <2> QED BY <2>1 DEF Reached
<1> QED BY <1>1, <1>2 DEF Puts, Copyout

\* A store of the process itself.
LEMMA StoreSteps ==
  ASSUME GoodPages, NEW p \in Procs, NEW k \in PageNumbers, NEW v \in Values, Store(p, k, v)
  PROVE  FillsPages(p)
<1>1. state[p] = "runnable" /\ pc[p] = "user" /\ Good /\ Typed
  BY DEF Store, Calls, Good, GoodPages
<1>2. Tree(ram, pagetable[p]) /\ Maps(ram, pagetable[p], PagesOf(sz[p])) /\ loc[p] = NoCall
  BY <1>1, User, Runs
<1>3. k \in Addresses /\ v # "kernel" /\ v \in Values \cup {"status"}
  BY PageIn, Constants, MemAssumption DEF PageNumbers
<1>4. IsUser(pagetable[p], k) BY DEF Store, IsUser
<1>5. ram' = [ram EXCEPT ![Pte(pagetable[p], k).pa] = Data(v)] /\ UNCHANGED <<free, panic, procs, pc, loc>>
  BY DEF Store
<1> DEFINE K == {k}
<1>6. Puts(pagetable[p], K, v)
  <2>1. FramesAt(pagetable[p], K) = {Pte(pagetable[p], k).pa} BY DEF FramesAt
  <2>2. ram' = [f \in Frames |-> IF f \in FramesAt(pagetable[p], K) THEN Data(v) ELSE ram[f]]
    BY <1>1, <1>5, <2>1 DEF Typed
  <2>3. K \in SUBSET Addresses /\ \A x \in K : IsUser(pagetable[p], x) BY <1>3, <1>4
  <2> HIDE DEF K
  <2> QED BY <1>3, <2>2, <2>3 DEF Puts
<1> HIDE DEF K
<1>7. pc' = [pc EXCEPT ![p] = "user"] /\ loc' = [loc EXCEPT ![p] = NoCall] /\ "user" \in Pc
  BY <1>1, <1>2, <1>5 DEF Typed, Pc
<1> QED BY <1>1, <1>3, <1>5, <1>6, <1>7, NoCallIs, PutsFills

\* read() and its like.
LEMMA ReadSteps ==
  ASSUME GoodPages, NEW p \in Procs, NEW k \in PageNumbers, NEW v \in Values, Read(p, k, k + 1, v)
  PROVE  FillsPages(p)
<1>1. state[p] = "runnable" /\ pc[p] = "user" /\ Good /\ Typed
  BY DEF Read, Calls, Good, GoodPages
<1>2. Tree(ram, pagetable[p]) /\ Maps(ram, pagetable[p], PagesOf(sz[p])) /\ loc[p] = NoCall
  BY <1>1, User, Runs
<1> DEFINE K == k .. k + 1
<1>3. K \in SUBSET Addresses /\ v # "kernel" /\ v \in Values \cup {"status"}
  <2>1. TRAMPOLINE \in Nat /\ TRAPFRAME = TRAMPOLINE - 1 BY PxTop, Constants DEF TRAPFRAME
  <2>2. k \in Nat /\ k + 1 <= TRAMPOLINE BY <2>1, PagesAssumption DEF PageNumbers
  <2> QED BY <2>1, <2>2, MemAssumption DEF Addresses
<1>4. ram' = Copyout(pagetable[p], K, v) /\ UNCHANGED <<free, panic, procs, pc, loc>>
  BY DEF Read
<1> HIDE DEF K
<1>5. Puts(pagetable[p], Reached(pagetable[p], K), v) BY <1>3, <1>4, CopyoutPuts
<1>6. PICK J : J = Reached(pagetable[p], K) OBVIOUS
<1>7. Puts(pagetable[p], J, v) BY <1>5, <1>6
<1>8. pc' = [pc EXCEPT ![p] = "user"] /\ loc' = [loc EXCEPT ![p] = NoCall] /\ "user" \in Pc
  BY <1>1, <1>2, <1>4 DEF Typed, Pc
<1> QED BY <1>1, <1>3, <1>4, <1>7, <1>8, NoCallIs, PutsFills

\* wait() finds a zombie, and may store its status.
LEMMA WaitSteps ==
  ASSUME GoodPages, NEW p \in Procs, NEW c \in Procs, NEW k \in PageNumbers, Wait(p, c, k)
  PROVE  TakesStep(p, AddressSpace(p)) \/ FillsPages(p)
<1> DEFINE l == [NoCall EXCEPT !.np = c]
<1>1. /\ state[p] = "runnable" /\ pc[p] = "user" /\ Typed /\ state[c] = "zombie" /\ parent[c] = p /\ Good
      /\ UNCHANGED <<free, panic, procs>>
  BY DEF Wait, Calls, Good, GoodPages
<1>2. loc[p] = NoCall BY <1>1, User
<1>3. k \in Addresses BY PageIn, Constants DEF PageNumbers
<1>4. IsLoc(l) /\ l.np = c /\ l.root = NoFrame /\ l.argv = {}
  <2>1. DOMAIN NoCall = {"np", "root", "at", "old", "new", "perm", "then", "segs", "size", "argv"}
    BY DEF NoCall
  <2>2. DOMAIN l = DOMAIN NoCall /\ l.segs = NoCall.segs /\ l.root = NoCall.root
        /\ l.np = c /\ l.at = NoCall.at /\ l.old = NoCall.old
        /\ l.new = NoCall.new /\ l.size = NoCall.size /\ l.argv = NoCall.argv
    BY <2>1
  <2>3. c \in Int BY MemAssumption DEF Procs
  <2> HIDE DEF l
  <2> QED BY <2>1, <2>2, <2>3, NoCallIs DEF IsLoc
<1>5. [loc EXCEPT ![p].np = c] = [loc EXCEPT ![p] = l] BY <1>2
<1> HIDE DEF l
<1>6. CASE UNCHANGED <<ram, pc, loc>>
  <2>1. UNCHANGED <<memory, procs, pc, loc>> BY <1>1, <1>6 DEF memory, procs
  <2> QED BY <2>1, Stands
<1>7. CASE Goto(p, "reap") /\ loc' = [loc EXCEPT ![p].np = c]
  <2>1. pc' = [pc EXCEPT ![p] = "reap"] /\ loc' = [loc EXCEPT ![p] = l] /\ "reap" \in Pc
    BY <1>5, <1>7 DEF Goto, Pc
  <2>2. Contents(p)'
    <3>1. pc'[p] = "reap" BY <1>1, <2>1 DEF Typed
    <3> QED BY <3>1, NothingDue
  <2>3. CASE UNCHANGED ram BY <1>1, <2>1, <2>2, <2>3, WritesNothing
  <2>4. CASE ram' = Copyout(pagetable[p], {k}, "status")
    <3>1. PICK K, v : K = {k} /\ v = "status" OBVIOUS
    <3>2. K \in SUBSET Addresses /\ v # "kernel" /\ v \in Values \cup {"status"}
            /\ ram' = Copyout(pagetable[p], K, v)
      BY <1>3, <2>4, <3>1
    <3>3. PICK J : J = Reached(pagetable[p], K) OBVIOUS
    <3>4. Puts(pagetable[p], J, v) BY <3>2, <3>3, CopyoutPuts
    <3> QED BY <1>1, <1>4, <2>1, <3>2, <3>4, PutsFills
  <2> QED BY <1>7, <2>3, <2>4 DEF Wait
<1> QED BY <1>6, <1>7 DEF Wait

-----
\* The image of a program.
\* What the segments of a program are.
LEMMA ProgramIs ==
  ASSUME NEW binary \in Binaries
  PROVE  /\ Len(binary) \in Nat /\ DOMAIN binary = 1 .. Len(binary) /\ binary \in Seq(Range(binary))
         /\ \A j \in 1 .. Len(binary) :
              /\ binary[j] \in Range(binary)
              /\ binary[j].vaddr \in Nat /\ binary[j].memsz \in Nat /\ binary[j].filesz \in Nat
              /\ binary[j].filesz <= binary[j].memsz /\ binary[j].vaddr % PGSIZE = 0
              /\ End(binary[j]) \in Nat /\ PagesOf(End(binary[j])) \in Nat
              /\ PagesOf(End(binary[j])) + 2 <= PageLimit
<1>1. binary \in Seq(Range(binary)) BY BinariesAssumption
<1>2. Len(binary) \in Nat /\ DOMAIN binary = 1 .. Len(binary) BY <1>1
<1>3. ASSUME NEW j \in 1 .. Len(binary)
      PROVE  /\ binary[j] \in Range(binary)
             /\ binary[j].vaddr \in Nat /\ binary[j].memsz \in Nat /\ binary[j].filesz \in Nat
             /\ binary[j].filesz <= binary[j].memsz /\ binary[j].vaddr % PGSIZE = 0
             /\ End(binary[j]) \in Nat /\ PagesOf(End(binary[j])) \in Nat
             /\ PagesOf(End(binary[j])) + 2 <= PageLimit
  <2>1. PICK s : s = binary[j] /\ s \in Range(binary) BY <1>2 DEF Range
  <2>2. /\ {s.vaddr, s.memsz, s.filesz} \subseteq Nat /\ s.filesz <= s.memsz
        /\ s.vaddr % PGSIZE = 0 /\ PagesOf(s.vaddr + s.memsz) + 2 <= PageLimit
    BY <2>1, BinariesAssumption
  <2>3. End(s) = s.vaddr + s.memsz /\ End(s) \in Nat BY <2>2 DEF End
  <2>4. PagesOf(End(s)) \in Nat BY <2>3, PagesAre
  <2> QED BY <2>1, <2>2, <2>3, <2>4
<1> QED BY <1>1, <1>2, <1>3

\* The pages that loadseg() reads.
LEMMA FilePages ==
  ASSUME NEW s, s.vaddr \in Nat, s.filesz \in Nat, s.vaddr % PGSIZE = 0, NEW j \in Nat
  PROVE  j \in {s.vaddr \div PGSIZE + k : k \in 0 .. PagesOf(s.filesz) - 1} <=> HasFile(s, j + 1)
<1> DEFINE a == s.vaddr \div PGSIZE
           b == a * PGSIZE
           c == j * PGSIZE
<1>1. a \in Nat /\ s.vaddr = b /\ b \in Nat /\ PagesOf(s.filesz) \in Nat /\ PGSIZE \in Nat \ {0}
  BY Aligned, PagesAre, Constants
<1>2. HasFile(s, j + 1) <=> s.filesz > 0 /\ c + PGSIZE > b /\ c < b + s.filesz
  <2>1. (j + 1) * PGSIZE = c + PGSIZE /\ ((j + 1) - 1) * PGSIZE = c BY <1>1
  <2> QED BY <1>1, <2>1 DEF HasFile
<1>3. ASSUME NEW k \in 0 .. PagesOf(s.filesz) - 1, j = a + k PROVE HasFile(s, j + 1)
  <2>1. k \in Nat /\ k < PagesOf(s.filesz) BY <1>1
  <2>2. k * PGSIZE < s.filesz BY <2>1, PagesCover
  <2>3. k * PGSIZE \in Nat /\ c = b + k * PGSIZE BY <1>1, <1>3, <2>1
  <2> HIDE DEF b, c
  <2>4. PICK z \in Nat : z < s.filesz /\ c = b + z BY <2>2, <2>3
  <2> QED BY <1>1, <1>2, <2>4
<1>4. ASSUME HasFile(s, j + 1) PROVE \E k \in 0 .. PagesOf(s.filesz) - 1 : j = a + k
  <2>1. c + PGSIZE > b /\ c < b + s.filesz BY <1>2, <1>4
  <2>2. j >= a
    <3>1. CASE j < a
      <4>1. j + 1 <= a BY <1>1, <3>1
      <4>2. (j + 1) * PGSIZE <= a * PGSIZE
        <5>1. PICK d \in Nat : a = j + 1 + d
          <6>1. a - (j + 1) \in Nat /\ a = j + 1 + (a - (j + 1)) BY <1>1, <4>1
          <6> QED BY <6>1
        <5>2. d * PGSIZE \in Nat BY <1>1
        <5>3. a * PGSIZE = (j + 1) * PGSIZE + d * PGSIZE /\ (j + 1) * PGSIZE \in Nat
          BY <1>1, <5>1
        <5> QED BY <5>2, <5>3
      <4>3. (j + 1) * PGSIZE = c + PGSIZE BY <1>1
      <4> QED BY <2>1, <4>2, <4>3, <1>1
    <3> QED BY <1>1, <3>1
  <2>3. PICK k \in Nat : j = a + k
    <3>1. j - a \in Nat /\ j = a + (j - a) BY <1>1, <2>2
    <3> QED BY <3>1
  <2>4. c = b + k * PGSIZE /\ k * PGSIZE \in Nat BY <1>1, <2>3
  <2>5. k * PGSIZE < s.filesz
    <3> DEFINE y == k * PGSIZE
    <3>1. c = b + y /\ y \in Nat BY <2>4
    <3> HIDE DEF b, c, y
    <3>2. y < s.filesz BY <1>1, <2>1, <3>1
    <3> QED BY <3>2 DEF y
  <2>6. k < PagesOf(s.filesz) BY <2>5, PagesCover
  <2> QED BY <1>1, <2>3, <2>6
<1> QED BY <1>3, <1>4

\* A page that has a part of the file lies below the end of the segment.
LEMMA FileBelow ==
  ASSUME NEW s, s.vaddr \in Nat, s.memsz \in Nat, s.filesz \in Nat, s.filesz <= s.memsz, NEW k \in Nat \ {0},
         HasFile(s, k)
  PROVE  k <= PagesOf(End(s))
<1>1. (k - 1) * PGSIZE < s.vaddr + s.filesz /\ k - 1 \in Nat BY DEF HasFile
<1>2. (k - 1) * PGSIZE < End(s)
  <2> DEFINE y == (k - 1) * PGSIZE
  <2>1. y \in Nat BY <1>1, Constants
  <2>2. y < s.vaddr + s.filesz BY <1>1
  <2> HIDE DEF y
  <2>3. y < End(s) BY <2>1, <2>2 DEF End
  <2> QED BY <2>3 DEF y
<1>3. End(s) \in Nat BY DEF End
<1>4. k - 1 < PagesOf(End(s)) /\ PagesOf(End(s)) \in Nat
  BY <1>1, <1>2, <1>3, PagesCover, PagesAre
<1> QED BY <1>4

\* The first segment that ends after a page.
LEMMA OwnerIs ==
  ASSUME NEW binary \in Binaries, NEW k, NEW i \in 1 .. Len(binary), Covers(binary[i], k),
         \A j \in 1 .. i - 1 : ~ Covers(binary[j], k)
  PROVE  Owner(binary, k) = i
<1> DEFINE S == {j \in DOMAIN binary : Covers(binary[j], k)}
<1>1. DOMAIN binary = 1 .. Len(binary) /\ Len(binary) \in Nat BY ProgramIs
<1>2. i \in S /\ \A y \in S : i <= y /\ y \in Nat BY <1>1
<1> HIDE DEF S
<1>3. Min(S) = i
  <2>1. Min(S) \in S /\ \A y \in S : Min(S) <= y BY <1>2 DEF Min
  <2>2. PICK v : v = Min(S) OBVIOUS
  <2>3. v \in Nat /\ i \in Nat /\ v <= i /\ i <= v BY <1>2, <2>1, <2>2
  <2>4. v = i BY <2>3
  <2> QED BY <2>2, <2>4
<1> QED BY <1>3 DEF Owner, S

\* The pages that loadseg() reads.
FileOf(s) == {s.vaddr \div PGSIZE + k : k \in 0 .. PagesOf(s.filesz) - 1}

\* They are those that have a part of the file.
LEMMA FileOfIs ==
  ASSUME NEW s, s.vaddr \in Nat, s.filesz \in Nat, s.vaddr % PGSIZE = 0, NEW j \in Nat
  PROVE  j \in FileOf(s) <=> HasFile(s, j + 1)
<1>1. j \in {s.vaddr \div PGSIZE + k : k \in 0 .. PagesOf(s.filesz) - 1} <=> HasFile(s, j + 1)
  BY FilePages
<1> QED BY <1>1 DEF FileOf

\* The next segment is loaded.
LEMMA LoadsSegment ==
  ASSUME NEW m, NEW m2, NEW r, NEW binary \in Binaries, NEW i \in Nat, i < Len(binary),
         NEW s, s = binary[i + 1], NEW n \in Nat, NEW n2 \in Nat, HasSegments(m, r, binary, i, n),
         n <= n2, n2 = n \/ n2 = PagesOf(End(s)), PagesOf(End(s)) <= n2,
         \A k \in n .. n2 - 1 : Look(m, r, k) = [data |-> "zero", perm |-> {"R", "U"} \cup s.perm],
         NEW K, K = FileOf(s),
         \A k \in 0 .. n2 - 1 : Look(m2, r, k) = Written(m, r, K, "text", k)
  PROVE  HasSegments(m2, r, binary, i + 1, n2)
<1>1. /\ Len(binary) \in Nat /\ i + 1 \in 1 .. Len(binary) /\ 1 .. i \subseteq 1 .. Len(binary)
      /\ \A j \in 1 .. Len(binary) :
              /\ binary[j].vaddr \in Nat /\ binary[j].memsz \in Nat /\ binary[j].filesz \in Nat
              /\ binary[j].filesz <= binary[j].memsz /\ binary[j].vaddr % PGSIZE = 0
              /\ PagesOf(End(binary[j])) \in Nat
  <2>1. /\ Len(binary) \in Nat
        /\ \A j \in 1 .. Len(binary) :
              /\ binary[j].vaddr \in Nat /\ binary[j].memsz \in Nat /\ binary[j].filesz \in Nat
              /\ binary[j].filesz <= binary[j].memsz /\ binary[j].vaddr % PGSIZE = 0
              /\ PagesOf(End(binary[j])) \in Nat
    BY ProgramIs
  <2>2. i + 1 \in 1 .. Len(binary) /\ 1 .. i \subseteq 1 .. Len(binary) BY <2>1
  <2> QED BY <2>1, <2>2
<1>2. /\ \A j \in 1 .. i : PagesOf(End(binary[j])) <= n
      /\ n = 0 \/ \E j \in 1 .. i : n = PagesOf(End(binary[j]))
      /\ \A k \in 1 .. n : Look(m, r, k - 1) = PageOf(binary, i, k)
  BY DEF HasSegments
<1>3. ASSUME NEW j \in 1 .. i + 1 PROVE PagesOf(End(binary[j])) <= n2
  <2>1. CASE j = i + 1 BY <2>1
  <2>2. CASE j \in 1 .. i BY <1>1, <1>2, <2>2
  <2> QED BY <2>1, <2>2
<1>4. n2 = 0 \/ \E j \in 1 .. i + 1 : n2 = PagesOf(End(binary[j]))
  <2>1. i + 1 \in 1 .. i + 1 /\ 1 .. i \subseteq 1 .. i + 1 OBVIOUS
  <2>2. CASE n2 = n BY <1>2, <2>1, <2>2
  <2>3. CASE n2 = PagesOf(End(s)) BY <2>1, <2>3
  <2> QED BY <2>2, <2>3, SMTT(30)
<1>5. ASSUME NEW k \in 1 .. n2 PROVE Look(m2, r, k - 1) = PageOf(binary, i + 1, k)
  <2>1. k - 1 \in 0 .. n2 - 1 /\ k - 1 \in Nat /\ k \in Nat \ {0} /\ (k - 1) + 1 = k OBVIOUS
  <2>2. k - 1 \in K <=> HasFile(s, k)
    <3>1. s.vaddr \in Nat /\ s.filesz \in Nat /\ s.vaddr % PGSIZE = 0 BY <1>1
    <3>2. PICK j \in Nat : j = k - 1 /\ j + 1 = k BY <2>1
    <3>3. j \in FileOf(s) <=> HasFile(s, j + 1) BY <3>1, FileOfIs
    <3> QED BY <3>2, <3>3
  <2>3. Look(m2, r, k - 1)
          = [data |-> IF HasFile(s, k) THEN "text" ELSE Look(m, r, k - 1).data, perm |-> Look(m, r, k - 1).perm]
    <3>1. Look(m2, r, k - 1) = Written(m, r, K, "text", k - 1) BY <2>1
    <3> QED BY <2>2, <3>1 DEF Written, Look
  <2>4. (\E j \in 1 .. i + 1 : HasFile(binary[j], k)) <=> HasFile(s, k)
          \/ \E j \in 1 .. i : HasFile(binary[j], k)
    <3>1. \A j : j \in 1 .. i + 1 <=> j = i + 1 \/ j \in 1 .. i OBVIOUS
    <3> QED BY <3>1
  <2>5. CASE k \in 1 .. n
    <3>1. Look(m, r, k - 1) = PageOf(binary, i, k) BY <1>2, <2>5
    <3>2. PICK lm, l : lm = Look(m, r, k - 1) /\ l = Look(m2, r, k - 1) OBVIOUS
    <3>3. l = [data |-> IF HasFile(s, k) THEN "text" ELSE lm.data, perm |-> lm.perm]
            /\ lm = PageOf(binary, i, k)
      BY <2>3, <3>1, <3>2
    <3>4. /\ lm.data = IF \E j \in 1 .. i : HasFile(binary[j], k) THEN "text" ELSE "zero"
          /\ lm.perm = {"R", "U"} \cup binary[Owner(binary, k)].perm
      BY <3>3, Zenon DEF PageOf
    <3>5. (IF HasFile(s, k) THEN "text" ELSE lm.data)
            = IF \E j \in 1 .. i + 1 : HasFile(binary[j], k) THEN "text" ELSE "zero"
      BY <2>4, <3>4
    <3>6. l = PageOf(binary, i + 1, k) BY <3>3, <3>4, <3>5, Zenon DEF PageOf
    <3> QED BY <3>2, <3>6
  <2>6. CASE k \notin 1 .. n
    <3>1. k - 1 \in n .. n2 - 1 /\ k > n /\ n2 # n BY <2>6
    <3>2. Look(m, r, k - 1) = [data |-> "zero", perm |-> {"R", "U"} \cup s.perm] BY <3>1
    <3>3. ASSUME NEW j \in 1 .. i PROVE ~ Covers(binary[j], k) /\ ~ HasFile(binary[j], k)
      <4>1. PICK t : t = binary[j] OBVIOUS
      <4>2. /\ t.vaddr \in Nat /\ t.memsz \in Nat /\ t.filesz \in Nat /\ t.filesz <= t.memsz
            /\ PagesOf(End(t)) \in Nat /\ PagesOf(End(t)) <= n
        BY <1>1, <1>2, <4>1
      <4>3. ~ (PagesOf(End(t)) >= k) BY <3>1, <4>2
      <4>4. ~ HasFile(t, k)
        <5>1. ASSUME HasFile(t, k) PROVE k <= PagesOf(End(t)) BY <2>1, <4>2, <5>1, FileBelow
        <5> QED BY <3>1, <4>2, <5>1
      <4> QED BY <4>1, <4>3, <4>4 DEF Covers
    <3>4. Covers(binary[i + 1], k)
      <4>1. n2 = PagesOf(End(s)) /\ k <= n2 BY <3>1
      <4> QED BY <4>1 DEF Covers
    <3>5. Owner(binary, k) = i + 1
      <4>1. PICK x : x = i + 1 /\ x \in 1 .. Len(binary) /\ x - 1 = i BY <1>1
      <4>2. Covers(binary[x], k) /\ \A j \in 1 .. x - 1 : ~ Covers(binary[j], k)
        BY <3>3, <3>4, <4>1
      <4> QED BY <4>1, <4>2, OwnerIs
    <3>6. ~ \E j \in 1 .. i : HasFile(binary[j], k) BY <3>3
    <3>7. PICK lm, l : lm = Look(m, r, k - 1) /\ l = Look(m2, r, k - 1) OBVIOUS
    <3>8. l = [data |-> IF HasFile(s, k) THEN "text" ELSE lm.data, perm |-> lm.perm]
          /\ lm.data = "zero" /\ lm.perm = {"R", "U"} \cup s.perm
      BY <2>3, <3>2, <3>7
    <3>9. (IF HasFile(s, k) THEN "text" ELSE lm.data)
            = IF \E j \in 1 .. i + 1 : HasFile(binary[j], k) THEN "text" ELSE "zero"
      BY <2>4, <3>6, <3>8
    <3>10. lm.perm = {"R", "U"} \cup binary[Owner(binary, k)].perm BY <3>5, <3>8
    <3>11. l = PageOf(binary, i + 1, k) BY <3>8, <3>9, <3>10, Zenon DEF PageOf
    <3> QED BY <3>7, <3>11
  <2> QED BY <2>5, <2>6
<1> QED BY <1>3, <1>4, <1>5 DEF HasSegments

\* The segments that are to come.
LEMMA RestOf ==
  ASSUME NEW binary \in Binaries, NEW i \in Nat, i <= Len(binary),
         NEW segs, segs = SubSeq(binary, i + 1, Len(binary)), segs # <<>>
  PROVE  /\ i < Len(binary) /\ Head(segs) = binary[i + 1]
         /\ Tail(segs) = SubSeq(binary, (i + 1) + 1, Len(binary))
<1>1. binary \in Seq(Range(binary)) /\ Len(binary) \in Nat BY ProgramIs
<1>2. i < Len(binary)
  <2>1. Len(binary) < i + 1 => SubSeq(binary, i + 1, Len(binary)) = <<>> BY <1>1, SubSeqEmpty
  <2> QED BY <1>1, <2>1
<1>3. i + 1 \in 1 .. Len(binary) /\ Len(binary) \in i + 1 .. Len(binary) BY <1>1, <1>2
<1>4. PICK a : a = i + 1 OBVIOUS
<1>5. /\ Head(SubSeq(binary, a, Len(binary))) = binary[a]
      /\ Tail(SubSeq(binary, a, Len(binary))) = SubSeq(binary, a + 1, Len(binary))
  <2>1. a \in 1 .. Len(binary) /\ Len(binary) \in a .. Len(binary) BY <1>3, <1>4
  <2> QED BY <1>1, <2>1, HeadTailOfSubSeq
<1> QED BY <1>2, <1>4, <1>5

\* loadseg() has read a segment.
LEMMA LoadedSteps ==
  ASSUME GoodPages, NEW p \in Procs, pc[p] = "load", loc[p].new # 0,
         NEW K, K = FileOf(Head(loc[p].segs)),
         ram' = Copyout(loc[p].root, K, "text"), panic' = (\E k \in K : ~ IsUser(loc[p].root, k)),
         loc' = [loc EXCEPT ![p].size = loc[p].new, ![p].segs = Tail(@)], Goto(p, "segment"),
         UNCHANGED free, UNCHANGED procs
  PROVE  TakesStep(p, AddressSpace(p))
<1>1. Good /\ Typed /\ Contents(p) /\ Adding(p) /\ InImage(p)
  <2>1. Good /\ Typed /\ Contents(p) BY DEF GoodPages, Good
  <2>2. Adding(p) BY <2>1 DEF Contents
  <2>3. InImage(p) BY <2>1 DEF Contents, Loads
  <2> QED BY <2>1, <2>2, <2>3
<1>2. InExec(p) /\ IsLoc(loc[p]) /\ NewRoot(p) = loc[p].root /\ Idle(p) BY <1>1, Execs
<1>3. PICK r, new, size, segs, s :
        r = loc[p].root /\ new = loc[p].new /\ size = loc[p].size /\ segs = loc[p].segs /\ s = Head(segs)
  OBVIOUS
<1>4. /\ new \in Nat /\ size \in Nat /\ new # 0 /\ segs # <<>> /\ Tree(ram, r) /\ End(s) <= new
      /\ PagesOf(new) + 2 <= PageLimit /\ Maps(ram, r, PagesOf(new)) /\ r # NoFrame
  <2>1. new \in Nat /\ size \in Nat /\ new # 0 BY <1>2, <1>3 DEF IsLoc
  <2>2. segs # <<>> /\ Tree(ram, r) /\ End(s) <= new /\ PagesOf(new) + 2 <= PageLimit
        /\ Maps(ram, r, PagesOf(new)) /\ r # NoFrame
    BY <1>2, <1>3 DEF InExec, End
  <2> QED BY <2>1, <2>2
<1>5. PICK n \in Nat, n2 \in Nat : n = PagesOf(size) /\ n2 = PagesOf(new) BY <1>4, PagesAre
<1>6. Footprint({p}, <<"space", p>>) /\ K \in SUBSET Addresses /\ \A k \in K : IsUser(r, k)
  BY <1>1, <1>3, Loaded, Zenon DEF FileOf
<1>7. Puts(r, K, "text")
  <2>1. Reached(r, K) = K BY <1>6 DEF Reached
  <2> DEFINE v == "text"
  <2>2. v # "kernel" /\ ram' = Copyout(r, K, v) BY <1>3
  <2> HIDE DEF v
  <2>3. Puts(r, K, v) BY <1>6, <2>1, <2>2, CopyoutPuts
  <2> QED BY <2>3 DEF v
<1>8. /\ n2 <= PageLimit /\ Maps(ram, r, n2)
      /\ SpaceOf(ram, r) \subseteq Managed(ram) /\ OnFrames(ram)
  <2>1. Holding[<<"image", p>>] = SpaceOf(ram, r) /\ <<"image", p>> \in Owners
    BY <1>2, <1>3, HoldingIs, OwnersAre
  <2>2. SpaceOf(ram, r) \subseteq Managed(ram) BY <1>1, <2>1, Parts
  <2>3. n2 <= PageLimit BY <1>4, <1>5, Constants
  <2> QED BY <1>1, <1>4, <1>5, <2>2, <2>3 DEF Typed, OnFrames
<1>9. \A j \in 0 .. n2 - 1 : Look(ram', r, j) = Written(ram, r, K, "text", j)
  <2> DEFINE v == "text"
  <2>1. Puts(r, K, v) BY <1>7
  <2> HIDE DEF v
  <2>2. Tree(ram, r) /\ SpaceOf(ram, r) \subseteq Managed(ram) /\ n2 <= PageLimit
          /\ Maps(ram, r, n2) /\ OnFrames(ram)
    BY <1>4, <1>8
  <2>3. /\ K \subseteq 0 .. n2 - 1 /\ Wrote(r) /\ Alike(ram, ram', r)
        /\ \A j \in 0 .. n2 - 1 : Look(ram', r, j) = Written(ram, r, K, v, j)
        /\ \A j \in K : "U" \in Ent(ram, r, j).perm
    BY <2>1, <2>2, PutsShows, Zenon
  <2> QED BY <2>3 DEF v
<1>10. /\ n <= n2 /\ new \in {size, End(s)}
       /\ \A k \in n .. n2 - 1 : Look(ram, r, k) = [data |-> "zero", perm |-> {"R", "U"} \cup s.perm]
  <2>1. Loads(p) /\ pc[p] # "uvmalloc" BY DEF Loads
  <2>2. loc[p].old = n /\ loc[p].perm = s.perm /\ loc[p].at = n2 /\ n <= n2 /\ new \in {size, End(s)}
        /\ Blank(ram, loc[p])
    BY <1>1, <1>2, <1>3, <1>4, <1>5, <2>1 DEF Adding
  <2> QED BY <1>3, <2>2, ZenonT(40) DEF Blank
<1>11. PICK binary \in Binaries, i \in Nat :
         i <= Len(binary) /\ segs = SubSeq(binary, i + 1, Len(binary)) /\ HasSegments(ram, r, binary, i, n)
  BY <1>1, <1>3, <1>5, ZenonT(40) DEF InImage
<1>12. i < Len(binary) /\ s = binary[i + 1] /\ Tail(segs) = SubSeq(binary, (i + 1) + 1, Len(binary))
  BY <1>3, <1>4, <1>11, RestOf
<1>13. n2 = n \/ n2 = PagesOf(End(s)) BY <1>5, <1>10
<1>14. PagesOf(End(s)) <= n2
  <2>1. End(s) \in Nat
    <3>1. i + 1 \in 1 .. Len(binary) BY <1>12, ProgramIs
    <3>2. PICK j \in 1 .. Len(binary) : s = binary[j] BY <1>12, <3>1
    <3> QED BY <3>2, ProgramIs
  <2> QED BY <1>4, <1>5, <2>1, PagesGrow
<1>15. K = FileOf(s) BY <1>3
<1>16. HasSegments(ram', r, binary, i + 1, n2)
  <2>1. PICK m2 : m2 = ram' OBVIOUS
  <2>2. \A k \in 0 .. n2 - 1 : Look(m2, r, k) = Written(ram, r, K, "text", k) BY <1>9, <2>1
  <2>3. /\ i < Len(binary) /\ s = binary[i + 1] /\ HasSegments(ram, r, binary, i, n)
        /\ n <= n2 /\ (n2 = n \/ n2 = PagesOf(End(s))) /\ PagesOf(End(s)) <= n2
    BY <1>10, <1>11, <1>12, <1>13, <1>14
  <2>4. /\ \A k \in n .. n2 - 1 : Look(ram, r, k) = [data |-> "zero", perm |-> {"R", "U"} \cup s.perm]
        /\ K = FileOf(s)
    BY <1>10, <1>15
  <2>5. HasSegments(m2, r, binary, i + 1, n2) BY <2>2, <2>3, <2>4, LoadsSegment, ZenonT(40)
  <2> QED BY <2>1, <2>5
<1>17. /\ pc'[p] = "segment" /\ loc'[p].root = r /\ loc'[p].size = new /\ loc'[p].segs = Tail(segs)
  <2>0. PICK l : l = loc[p] OBVIOUS
  <2>1. pc'[p] = "segment" /\ loc'[p] = [l EXCEPT !.size = new, !.segs = Tail(segs)]
    BY <1>1, <1>3, <2>0 DEF Goto, Typed
  <2>2. DOMAIN loc[p] = {"np", "root", "at", "old", "new", "perm", "then", "segs", "size", "argv"}
    BY <1>2 DEF IsLoc
  <2>3. PICK w : w = [l EXCEPT !.size = new, !.segs = Tail(segs)] OBVIOUS
  <2>4. w.root = l.root /\ w.size = new /\ w.segs = Tail(segs) BY <2>0, <2>2, <2>3
  <2> QED BY <1>3, <2>0, <2>1, <2>3, <2>4, ZenonT(40)
<1>18. InImage(p)'
  <2>1. i + 1 \in Nat /\ i + 1 <= Len(binary) BY <1>12, ProgramIs
  <2>2. /\ i + 1 <= Len(binary) /\ loc'[p].segs = SubSeq(binary, (i + 1) + 1, Len(binary))
        /\ HasSegments(ram', loc'[p].root, binary, i + 1, PagesOf(loc'[p].size))
    BY <1>5, <1>12, <1>16, <1>17, <2>1, ZenonT(40)
  <2>3. PICK a \in Nat : a = i + 1 BY <2>1
  <2> QED BY <2>2, <2>3, ZenonT(40) DEF InImage
<1>19. Contents(p)' BY <1>17, <1>18 DEF Contents, Loads, Stacks
<1>20. state'[p] = state[p] /\ sz'[p] = sz[p] /\ pagetable'[p] = pagetable[p] BY DEF procs
<1> QED BY <1>6, <1>19, <1>20, StepsApart

\* A segment is read, or exec() fails.
LEMMA LoadSteps ==
  ASSUME GoodPages, NEW p \in Procs, Load(p)
  PROVE  TakesStep(p, AddressSpace(p))
<1>1. Good /\ pc[p] = "load" /\ UNCHANGED procs BY DEF Load, GoodPages
<1>2. InExec(p) /\ IsLoc(loc[p]) BY <1>1, Execs
<1>3. /\ loc[p].new \in Nat /\ loc[p].size \in Nat /\ PagesOf(loc[p].size) + 2 <= PageLimit
      /\ loc[p].new # 0 => PagesOf(loc[p].new) + 2 <= PageLimit
      /\ Maps(ram, loc[p].root, PagesOf(IF loc[p].new = 0 THEN loc[p].size ELSE loc[p].new))
  BY <1>1, <1>2 DEF InExec, IsLoc
<1>4. PagesOf(loc[p].size) <= PageLimit /\ (loc[p].new # 0 => PagesOf(loc[p].new) <= PageLimit)
  BY <1>3, PagesAre, Constants
<1>5. CASE loc[p].new = 0 /\ Bad(p, loc[p].size) BY <1>1, <1>3, <1>4, <1>5, BadSteps
<1>6. CASE loc[p].new # 0 /\ Bad(p, loc[p].new) BY <1>1, <1>3, <1>4, <1>6, BadSteps, SMTT(30)
<1>7. CASE /\ loc[p].new # 0
           /\ \E K \in {{Head(loc[p].segs).vaddr \div PGSIZE + k :
                           k \in 0 .. PagesOf(Head(loc[p].segs).filesz) - 1}} :
                /\ ram' = Copyout(loc[p].root, K, "text")
                /\ panic' = \E k \in K : ~ IsUser(loc[p].root, k)
           /\ loc' = [loc EXCEPT ![p].size = loc[p].new, ![p].segs = Tail(@)]
           /\ Goto(p, "segment")
           /\ UNCHANGED free
  <2>1. PICK K : /\ K = {Head(loc[p].segs).vaddr \div PGSIZE + k :
                           k \in 0 .. PagesOf(Head(loc[p].segs).filesz) - 1}
                 /\ ram' = Copyout(loc[p].root, K, "text")
                 /\ panic' = (\E k \in K : ~ IsUser(loc[p].root, k))
    BY <1>7
  <2>2. K = FileOf(Head(loc[p].segs)) BY <2>1 DEF FileOf
  <2> QED BY <1>1, <1>7, <2>1, <2>2, LoadedSteps
<1> QED BY <1>5, <1>6, <1>7 DEF Load

\* The last of a set of numbers that has a bound.
LEMMA Greatest ==
  ASSUME NEW B \in Nat, NEW T \in SUBSET (0 .. B), T # {}
  PROVE  Max(T) \in T /\ \A y \in T : y <= Max(T)
<1> DEFINE D == {B - y : y \in T}
<1>0. D \in SUBSET Nat OBVIOUS
<1>1. PICK S \in SUBSET Nat : S = D BY <1>0
<1>2. S # {} BY <1>1
<1>3. PICK x \in S : \A y \in S : x <= y BY <1>2, Least
<1>4. PICK z \in T : x = B - z BY <1>1, <1>3
<1>5. ASSUME NEW y \in T PROVE z >= y
  <2>1. B - y \in S BY <1>1
  <2>2. B - z <= B - y BY <1>3, <1>4, <2>1
  <2> QED BY <2>2
<1>6. \E a \in T : \A y \in T : a >= y BY <1>5
<1>7. PICK v : v = Max(T) OBVIOUS
<1>8. v \in T /\ \A y \in T : v >= y BY <1>6, <1>7 DEF Max
<1>9. \A y \in T : y <= v BY <1>8
<1> QED BY <1>7, <1>8, <1>9

\* The pages up to the last end of a segment.
LEMMA ExtentIs ==
  ASSUME NEW binary \in Binaries
  PROVE  /\ Extent(binary) \in Nat
         /\ \A j \in 1 .. Len(binary) : End(binary[j]) <= Extent(binary)
         /\ Extent(binary) = 0 \/ \E j \in 1 .. Len(binary) : Extent(binary) = End(binary[j])
<1>1. PICK T : T = {0} \cup {End(s) : s \in Range(binary)} OBVIOUS
<1>2. PICK B : B = PageLimit * PGSIZE /\ B \in Nat BY Constants
<1>3. Range(binary) = {binary[j] : j \in 1 .. Len(binary)} BY ProgramIs DEF Range
<1>4. ASSUME NEW j \in 1 .. Len(binary) PROVE End(binary[j]) \in 0 .. B
  <2>1. PICK e : e = End(binary[j]) OBVIOUS
  <2>2. e \in Nat /\ PagesOf(e) \in Nat /\ PagesOf(e) + 2 <= PageLimit BY <2>1, ProgramIs
  <2>3. e <= PagesOf(e) * PGSIZE BY <2>2, PagesAre
  <2>4. PagesOf(e) * PGSIZE <= PageLimit * PGSIZE
    <3>1. \A a, b, c \in Nat : a <= b => a * c <= b * c OBVIOUS
    <3>2. PagesOf(e) <= PageLimit BY <2>2, Constants
    <3> QED BY <2>2, <3>1, <3>2, Constants
  <2>5. PagesOf(e) * PGSIZE \in Nat BY <2>2, Constants
  <2> QED BY <1>2, <2>1, <2>2, <2>3, <2>4, <2>5
<1>5. T \in SUBSET (0 .. B) /\ T # {}
  <2>1. \A s \in Range(binary) : End(s) \in 0 .. B BY <1>3, <1>4
  <2> QED BY <1>1, <1>2, <2>1
<1>6. PICK v : v = Max(T) OBVIOUS
<1>7. v \in T /\ \A y \in T : y <= v BY <1>2, <1>5, <1>6, Greatest
<1>8. Extent(binary) = v BY <1>1, <1>6 DEF Extent
<1>9. v \in Nat BY <1>2, <1>5, <1>7
<1>10. \A j \in 1 .. Len(binary) : End(binary[j]) \in T BY <1>1, <1>3
<1>11. v = 0 \/ \E j \in 1 .. Len(binary) : v = End(binary[j]) BY <1>1, <1>3, <1>7
<1> QED BY <1>7, <1>8, <1>9, <1>10, <1>11

\* A page of a program's image, but for the stack.
ImagePage(binary, k) ==
  [data |-> IF \E s \in Range(binary) : HasFile(s, k) THEN "text" ELSE "zero",
   perm |-> {"R", "U"} \cup binary[Owner(binary, k)].perm]

\* All segments are loaded.
LEMMA AllSegments ==
  ASSUME NEW m, NEW r, NEW binary \in Binaries, NEW n \in Nat, HasSegments(m, r, binary, Len(binary), n)
  PROVE  /\ n = PagesOf(Extent(binary))
         /\ \A k \in 1 .. n : Look(m, r, k - 1) = ImagePage(binary, k)
<1>1. PICK e \in Nat : /\ e = Extent(binary)
                       /\ \A j \in 1 .. Len(binary) : End(binary[j]) <= e
                       /\ (e = 0 \/ \E j \in 1 .. Len(binary) : e = End(binary[j]))
  BY ExtentIs
<1>2. /\ \A j \in 1 .. Len(binary) : PagesOf(End(binary[j])) <= n
      /\ n = 0 \/ \E j \in 1 .. Len(binary) : n = PagesOf(End(binary[j]))
      /\ \A k \in 1 .. n : Look(m, r, k - 1) = PageOf(binary, Len(binary), k)
  BY DEF HasSegments
<1>3. n <= PagesOf(e) /\ PagesOf(e) \in Nat
  <2>1. PagesOf(e) \in Nat BY PagesAre
  <2>2. ASSUME NEW j \in 1 .. Len(binary), n = PagesOf(End(binary[j])) PROVE n <= PagesOf(e)
    <3>0. End(binary[j]) \in Nat BY ProgramIs
    <3>1. PICK a \in Nat : a = End(binary[j]) BY <3>0
    <3>2. a <= e BY <1>1, <3>1
    <3>3. PagesOf(a) <= PagesOf(e) BY <3>2, PagesGrow
    <3> QED BY <2>2, <3>1, <3>3
  <2> QED BY <1>2, <2>1, <2>2
<1>4. PagesOf(e) <= n
  <2>1. CASE e = 0
    <3>1. PagesOf(0) = 0 BY PagesExact, Constants
    <3> QED BY <2>1, <3>1
  <2>2. CASE \E j \in 1 .. Len(binary) : e = End(binary[j])
    <3>1. PICK j \in 1 .. Len(binary) : e = End(binary[j]) BY <2>2
    <3>2. PagesOf(End(binary[j])) <= n BY <1>2
    <3> QED BY <3>1, <3>2
  <2>3. e = 0 \/ \E j \in 1 .. Len(binary) : e = End(binary[j]) BY <1>1
  <2> QED BY <2>1, <2>2, <2>3
<1>5. n = PagesOf(Extent(binary)) BY <1>1, <1>3, <1>4
<1>6. Range(binary) = {binary[j] : j \in 1 .. Len(binary)} BY ProgramIs DEF Range
<1>7. ASSUME NEW k \in 1 .. n PROVE PageOf(binary, Len(binary), k) = ImagePage(binary, k)
  <2>1. (\E j \in 1 .. Len(binary) : HasFile(binary[j], k)) <=> \E s \in Range(binary) : HasFile(s, k)
    BY <1>6
  <2> QED BY <2>1, Zenon DEF PageOf, ImagePage
<1> QED BY <1>2, <1>5, <1>7

\* The image of a program, page by page.
LEMMA ImageIs ==
  ASSUME NEW binary \in Binaries, NEW g \in Nat, g = PagesOf(Extent(binary)), NEW t, Lists(t, g + 2),
         \A k \in 1 .. g : t[k] = ImagePage(binary, k), t[g + 1] = Guard, t[g + 2] = Stack
  PROVE  t = Image(binary)
<1>1. PICK s, u : s = [k \in 1 .. g |-> ImagePage(binary, k)] /\ u = <<Guard, Stack>> OBVIOUS
<1>2. Image(binary) = s \o u BY <1>1 DEF Image, ImagePage
<1>3. Lists(s, g) /\ \A k \in 1 .. g : t[k] = s[k] BY <1>1 DEF Lists
<1>4. PICK a, b : a = Guard /\ b = Stack OBVIOUS
<1>5. PICK n \in Nat : n = g + 2 OBVIOUS
<1>6. Lists(u, n - g)
  <2>1. \A x, y : <<x, y>> = [k \in 1 .. 2 |-> <<x, y>>[k]] OBVIOUS
  <2>2. u = [k \in 1 .. 2 |-> u[k]] BY <1>1, <1>4, <2>1
  <2>3. n - g = 2 BY <1>5
  <2> QED BY <2>2, <2>3 DEF Lists
<1>7. \A k \in g + 1 .. n : t[k] = u[k - g]
  <2>1. u[1] = a /\ u[2] = b BY <1>1, <1>4
  <2>2. \A k \in g + 1 .. n : (k = g + 1 /\ k - g = 1) \/ (k = g + 2 /\ k - g = 2) BY <1>5
  <2>3. t[g + 1] = a /\ t[g + 2] = b BY <1>4
  <2> QED BY <2>1, <2>2, <2>3
<1>8. t = s \o u
  <2>1. Lists(t, n) /\ g <= n BY <1>5
  <2> QED BY <1>3, <1>6, <1>7, <2>1, Joins
<1> QED BY <1>2, <1>8

\* There is nothing to come.
LEMMA NothingToCome ==
  ASSUME NEW binary \in Binaries, NEW i \in Nat, i <= Len(binary),
         SubSeq(binary, i + 1, Len(binary)) = <<>>
  PROVE  i = Len(binary)
<1>1. binary \in Seq(Range(binary)) /\ Len(binary) \in Nat BY ProgramIs
<1>2. CASE i < Len(binary)
  <2>1. i + 1 \in 1 .. Len(binary) /\ \A j \in i + 1 .. Len(binary) : binary[j] \in Range(binary)
    BY <1>1, <1>2, ProgramIs
  <2>2. Len(SubSeq(binary, i + 1, Len(binary))) = Len(binary) - (i + 1) + 1
    <3>1. PICK a \in Int, b \in Int : a = i + 1 /\ b = Len(binary) /\ a <= b BY <1>1, <1>2
    <3>2. \A j \in a .. b : binary[j] \in Range(binary) BY <2>1, <3>1
    <3>3. Len(SubSeq(binary, a, b)) = IF a <= b THEN b - a + 1 ELSE 0 BY <3>2, SubSeqProperties
    <3> QED BY <3>1, <3>3
  <2>3. Len(SubSeq(binary, i + 1, Len(binary))) = 0
    <3>1. PICK q : q = SubSeq(binary, i + 1, Len(binary)) OBVIOUS
    <3>2. q = <<>> BY <3>1
    <3>3. Len(q) = 0 BY <3>2
    <3> QED BY <3>1, <3>3
  <2> QED BY <1>1, <1>2, <2>2, <2>3
<1> QED BY <1>1, <1>2

\* exec() gives the image of the program.
TakesImage(p) ==
  \E binary \in Binaries : AddressSpace(p) # NoSpace /\ TakesStep(p, Image(binary))

\* A page after Commit.
LEMMA ClearedLook ==
  ASSUME NEW r, NEW g \in Nat, NEW n, n = g + 2, ClearedPages(r, g, n)
  PROVE  /\ \A k \in 0 .. g - 1 : Look(ram', r, k) = Look(ram, r, k)
         /\ Look(ram', r, g) = [data |-> Look(ram, r, g).data, perm |-> Look(ram, r, g).perm \ {"U"}]
         /\ "U" \in Look(ram, r, g + 1).perm =>
              Look(ram', r, g + 1) = [data |-> "args", perm |-> Look(ram, r, g + 1).perm]
<1>1. ASSUME NEW k \in 0 .. g - 1 PROVE Look(ram', r, k) = Look(ram, r, k)
  <2>1. k \in 0 .. n - 1 /\ k # g /\ k # g + 1 OBVIOUS
  <2>2. Ent(ram', r, k) = Ent(ram, r, k) /\ ram'[Ent(ram, r, k).pa] = ram[Ent(ram, r, k).pa]
    BY <2>1 DEF ClearedPages
  <2> QED BY <2>2 DEF Look
<1>2. Look(ram', r, g) = [data |-> Look(ram, r, g).data, perm |-> Look(ram, r, g).perm \ {"U"}]
  <2>1. g \in 0 .. n - 1 /\ g # g + 1 OBVIOUS
  <2>2. /\ Ent(ram', r, g) = [pa |-> Ent(ram, r, g).pa, perm |-> Ent(ram, r, g).perm \ {"U"}]
        /\ ram'[Ent(ram, r, g).pa] = ram[Ent(ram, r, g).pa]
    BY <2>1 DEF ClearedPages
  <2>3. PICK f, x : f = Ent(ram, r, g).pa /\ x = Ent(ram, r, g).perm OBVIOUS
  <2>4. Ent(ram', r, g) = [pa |-> f, perm |-> x \ {"U"}] /\ ram'[f] = ram[f] BY <2>2, <2>3
  <2>5. Ent(ram', r, g).pa = f /\ Ent(ram', r, g).perm = x \ {"U"} BY <2>4
  <2>6. Look(ram, r, g) = [data |-> ram[f].data, perm |-> x] BY <2>3 DEF Look
  <2>7. Look(ram', r, g) = [data |-> ram[f].data, perm |-> x \ {"U"}] BY <2>4, <2>5 DEF Look
  <2> QED BY <2>6, <2>7
<1>3. ASSUME "U" \in Look(ram, r, g + 1).perm
      PROVE  Look(ram', r, g + 1) = [data |-> "args", perm |-> Look(ram, r, g + 1).perm]
  <2>1. PICK k : k = g + 1 /\ k \in 0 .. n - 1 /\ k # g OBVIOUS
  <2>2. "U" \in Ent(ram, r, k).perm BY <1>3, <2>1 DEF Look
  <2>3. Ent(ram', r, k) = Ent(ram, r, k) /\ ram'[Ent(ram, r, k).pa] = Data("args")
    BY <2>1, <2>2 DEF ClearedPages
  <2> QED BY <2>1, <2>3 DEF Look, Data
<1> QED BY <1>1, <1>2, <1>3

\* exec() commits: what it has loaded, the guard page and the stack are the image of the program.
LEMMA CommitSteps ==
  ASSUME GoodPages, NEW p \in Procs, Commit(p)
  PROVE  TakesImage(p)
<1>1. Good /\ Typed /\ pc[p] = "stack" /\ Adding(p) /\ InImage(p)
  <2>1. Good /\ Typed /\ pc[p] = "stack" /\ Contents(p) BY DEF GoodPages, Good, Commit
  <2>2. Adding(p) BY <2>1 DEF Contents
  <2>3. InImage(p) BY <2>1 DEF Contents, Stacks
  <2> QED BY <2>1, <2>2, <2>3
<1>2. InExec(p) /\ IsLoc(loc[p]) /\ NewRoot(p) = loc[p].root /\ Idle(p) /\ state[p] = "runnable"
  BY <1>1, Execs
<1>3. PICK r, new, size : r = loc[p].root /\ new = loc[p].new /\ size = loc[p].size OBVIOUS
<1>4. /\ new # 0 /\ r # NoFrame /\ Tree(ram, r) /\ PagesOf(size) + 2 <= PageLimit
      /\ size % PGSIZE = 0 /\ new = size + 2 * PGSIZE /\ size \in Nat /\ Maps(ram, r, PagesOf(new))
  <2>1. loc[p].new # 0 BY DEF Commit
  <2> QED BY <1>1, <1>2, <1>3, <2>1 DEF InExec, IsLoc
<1>5. PICK g \in Nat, n \in Nat : g = PagesOf(size) /\ n = PagesOf(new) /\ n = g + 2 /\ n <= PageLimit
  <2>1. PagesOf(size) \in Nat /\ PagesOf(new) = PagesOf(size) + 2 BY <1>4, TwoMore, PagesAre
  <2>2. PagesOf(new) \in Nat BY <2>1
  <2> QED BY <1>4, <2>1, <2>2
<1>6. Footprint({p}, <<"trapframe", p>>) /\ Clearing(p) BY <1>1, CommitKeeps
<1>7. SpaceOf(ram, r) \subseteq Managed(ram)
  <2>1. Holding[<<"image", p>>] = SpaceOf(ram, r) /\ <<"image", p>> \in Owners
    BY <1>2, <1>3, HoldingIs, OwnersAre
  <2> QED BY <1>1, <2>1, Parts
<1>8. ClearedPages(r, g, n)
  <2>1. PICK F : F \subseteq Managed(ram) /\ F \cap SpaceOf(ram, r) = {} /\ Cleared(r, g, F)
    BY <1>3, <1>5, <1>6 DEF Clearing
  <2>2. Tree(ram, r) /\ Maps(ram, r, n) /\ g + 1 < n BY <1>4, <1>5
  <2> QED BY <1>1, <1>5, <1>7, <2>1, <2>2, Clears
<1>9. /\ loc[p].segs = <<>>
      /\ \A k \in g .. n - 1 : Look(ram, r, k) = [data |-> "zero", perm |-> {"R", "W", "U"}]
  <2>1. Stacks(p) /\ pc[p] # "uvmalloc" /\ ~ Loads(p) BY <1>1 DEF Stacks, Loads
  <2>2. loc[p].segs = <<>> /\ loc[p].old = g /\ loc[p].at = n /\ loc[p].perm = {"W"} /\ Blank(ram, loc[p])
    BY <1>1, <1>2, <1>3, <1>4, <1>5, <2>1 DEF Adding
  <2>3. {"R", "U"} \cup loc[p].perm = {"R", "W", "U"} BY <2>2
  <2> QED BY <1>3, <2>2, <2>3 DEF Blank
<1>10. PICK binary \in Binaries : HasSegments(ram, r, binary, Len(binary), g)
  <2>1. PICK binary \in Binaries, i \in Nat :
          i <= Len(binary) /\ loc[p].segs = SubSeq(binary, i + 1, Len(binary))
            /\ HasSegments(ram, r, binary, i, g)
    BY <1>1, <1>3, <1>5 DEF InImage
  <2>2. i = Len(binary) BY <1>9, <2>1, NothingToCome
  <2> QED BY <2>1, <2>2
<1>11. g = PagesOf(Extent(binary)) /\ \A k \in 1 .. g : Look(ram, r, k - 1) = ImagePage(binary, k)
  BY <1>10, AllSegments
<1>12. PICK t : t = [k \in 1 .. n |-> Look(ram', r, k - 1)] OBVIOUS
<1>13. /\ \A k \in 0 .. g - 1 : Look(ram', r, k) = Look(ram, r, k)
       /\ Look(ram', r, g) = [data |-> Look(ram, r, g).data, perm |-> Look(ram, r, g).perm \ {"U"}]
       /\ "U" \in Look(ram, r, g + 1).perm =>
            Look(ram', r, g + 1) = [data |-> "args", perm |-> Look(ram, r, g + 1).perm]
  BY <1>5, <1>8, ClearedLook
<1>14. \A k \in 1 .. g : t[k] = ImagePage(binary, k)
  <2>1. \A k \in 1 .. g : k - 1 \in 0 .. g - 1 /\ k \in 1 .. n BY <1>5
  <2> QED BY <1>11, <1>12, <1>13, <2>1
<1>15. t[g + 1] = Guard
  <2>1. g + 1 \in 1 .. n /\ (g + 1) - 1 = g /\ g \in g .. n - 1 BY <1>5
  <2>2. t[g + 1] = Look(ram', r, g) BY <1>12, <2>1
  <2>3. Look(ram, r, g).data = "zero" /\ Look(ram, r, g).perm = {"R", "W", "U"} BY <1>9, <2>1
  <2>4. {"R", "W", "U"} \ {"U"} = {"R", "W"} OBVIOUS
  <2> QED BY <1>13, <2>2, <2>3, <2>4 DEF Guard
<1>16. t[g + 2] = Stack
  <2>1. g + 2 \in 1 .. n /\ (g + 2) - 1 = g + 1 /\ g + 1 \in g .. n - 1 BY <1>5
  <2>2. t[g + 2] = Look(ram', r, g + 1) BY <1>12, <2>1
  <2>3. Look(ram, r, g + 1).perm = {"R", "W", "U"} BY <1>9, <2>1
  <2> QED BY <1>13, <2>2, <2>3 DEF Stack
<1>17. t = Image(binary)
  <2>1. Lists(t, g + 2) BY <1>5, <1>12 DEF Lists
  <2> QED BY <1>11, <1>14, <1>15, <1>16, <2>1, ImageIs
<1>18. /\ state'[p] = "runnable" /\ sz'[p] = new /\ pagetable'[p] = r /\ pc'[p] = "user"
  BY <1>1, <1>2, <1>3 DEF Commit, Returns, Goto, Typed
<1>19. AddressSpace(p)' = t BY <1>5, <1>12, <1>18, AddressSpaceIs
<1>20. Contents(p)' BY <1>18, NothingDue
<1>21. TakesStep(p, t) BY <1>6, <1>19, <1>20, StepsOwn
<1>22. AddressSpace(p) # NoSpace BY <1>2, AliveIs
<1> QED BY <1>17, <1>21, <1>22 DEF TakesImage

-----
\* Steps of AddressSpaces.
\* What all processes find in their memory.
Memories == [q \in Procs |-> AddressSpace(q)]

\* A step keeps what is known of the pages, and is one that AddressSpaces allows.
Promised == (\A q \in Procs : Contents(q)') /\ (A!Next \/ Memories' = Memories)

\* A step of one process's memory.
LEMMA StepIs ==
  ASSUME NEW p \in Procs, NEW x, TakesStep(p, x)
  PROVE  (\A q \in Procs : Contents(q)') /\ Memories' = [Memories EXCEPT ![p] = x]
<1>1. \A q \in Procs : AddressSpace(q)' = IF q = p THEN x ELSE AddressSpace(q) BY DEF TakesStep
<1> QED BY <1>1 DEF TakesStep, Memories

\* Nobody's memory changes.
LEMMA Stuttering ==
  ASSUME NEW p \in Procs, TakesStep(p, AddressSpace(p))
  PROVE  Promised
<1>1. PICK x : x = AddressSpace(p) OBVIOUS
<1>2. TakesStep(p, x) BY <1>1
<1>3. (\A q \in Procs : Contents(q)') /\ Memories' = [Memories EXCEPT ![p] = x] BY <1>2, StepIs
<1>4. Memories' = Memories BY <1>1, <1>3 DEF Memories
<1> QED BY <1>3, <1>4 DEF Promised

\* The memory of p becomes x, as AddressSpaces has it.
LEMMA Promises ==
  ASSUME NEW p \in Procs, NEW x, TakesStep(p, x), Memories' = [Memories EXCEPT ![p] = x] => A!Next
  PROVE  Promised
<1>1. (\A q \in Procs : Contents(q)') /\ Memories' = [Memories EXCEPT ![p] = x] BY StepIs
<1> QED BY <1>1 DEF Promised

\* sbrk() that grows.
LEMMA PromisesGrow ==
  ASSUME NEW p \in Procs, GetsPages(p)
  PROVE  Promised
<1>1. PICK n \in 1 .. PageLimit : /\ AddressSpace(p) # NoSpace
                                 /\ TakesStep(p, AddressSpace(p) \o [k \in 1 .. n |-> A!Fresh])
  BY DEF GetsPages
<1>2. PICK x : x = AddressSpace(p) \o [k \in 1 .. n |-> A!Fresh] OBVIOUS
<1>3. ASSUME Memories' = [Memories EXCEPT ![p] = x] PROVE A!Next
  <2>1. A!Alive(p) BY <1>1 DEF A!Alive
  <2>2. A!Grow(p, n) BY <1>2, <1>3, <2>1 DEF A!Grow, Memories
  <2> QED BY <2>2 DEF A!Next
<1>4. TakesStep(p, x) BY <1>1, <1>2
<1> QED BY <1>3, <1>4, Promises

\* sbrk() that shrinks.
LEMMA PromisesShrink ==
  ASSUME NEW p \in Procs, LosesPages(p)
  PROVE  Promised
<1>1. PICK n \in 0 .. PageLimit : /\ AddressSpace(p) # NoSpace /\ n < Len(AddressSpace(p))
                                 /\ TakesStep(p, SubSeq(AddressSpace(p), 1, n))
  BY DEF LosesPages
<1>2. PICK x : x = SubSeq(AddressSpace(p), 1, n) OBVIOUS
<1>3. ASSUME Memories' = [Memories EXCEPT ![p] = x] PROVE A!Next
  <2>1. A!Alive(p) BY <1>1 DEF A!Alive
  <2>2. A!Shrink(p, n) BY <1>1, <1>2, <1>3, <2>1 DEF A!Shrink, Memories
  <2> QED BY <2>2 DEF A!Next
<1>4. TakesStep(p, x) BY <1>1, <1>2
<1> QED BY <1>3, <1>4, Promises

\* copyout(), or a store.
LEMMA PromisesFill ==
  ASSUME NEW p \in Procs, FillsPages(p)
  PROVE  Promised
<1>1. PICK K \in SUBSET (1 .. PageLimit), v \in Values \cup {"status"} :
        /\ AddressSpace(p) # NoSpace /\ K \subseteq DOMAIN AddressSpace(p)
        /\ \A k \in K : "U" \in AddressSpace(p)[k].perm
        /\ TakesStep(p, [k \in DOMAIN AddressSpace(p) |->
                           IF k \in K THEN [AddressSpace(p)[k] EXCEPT !.data = v] ELSE AddressSpace(p)[k]])
  BY DEF FillsPages
<1>2. PICK x : x = [k \in DOMAIN AddressSpace(p) |->
                      IF k \in K THEN [AddressSpace(p)[k] EXCEPT !.data = v] ELSE AddressSpace(p)[k]]
  OBVIOUS
<1>3. ASSUME Memories' = [Memories EXCEPT ![p] = x] PROVE A!Next
  <2>1. A!Alive(p) BY <1>1 DEF A!Alive
  <2>2. A!Fill(p, K, v) BY <1>1, <1>2, <1>3, <2>1 DEF A!Fill, Memories
  <2> QED BY <2>2 DEF A!Next
<1>4. TakesStep(p, x) BY <1>1, <1>2
<1> QED BY <1>3, <1>4, Promises

\* exec().
LEMMA PromisesExec ==
  ASSUME NEW p \in Procs, TakesImage(p)
  PROVE  Promised
<1>1. PICK binary \in Binaries : AddressSpace(p) # NoSpace /\ TakesStep(p, Image(binary))
  BY DEF TakesImage
<1>2. PICK x : x = Image(binary) OBVIOUS
<1>3. ASSUME Memories' = [Memories EXCEPT ![p] = x] PROVE A!Next
  <2>1. A!Alive(p) BY <1>1 DEF A!Alive
  <2>2. A!Exec(p) BY <1>2, <1>3, <2>1 DEF A!Exec, Memories
  <2> QED BY <2>2 DEF A!Next
<1>4. TakesStep(p, x) BY <1>1, <1>2
<1> QED BY <1>3, <1>4, Promises

\* wait() frees a child.
LEMMA PromisesFree ==
  ASSUME NEW q \in Procs, AddressSpace(q) # NoSpace, TakesStep(q, NoSpace)
  PROVE  Promised
<1>1. PICK x : x = NoSpace OBVIOUS
<1>2. ASSUME Memories' = [Memories EXCEPT ![q] = x] PROVE A!Next
  <2>1. A!Alive(q) BY DEF A!Alive
  <2>2. A!Free(q) BY <1>1, <1>2, <2>1 DEF A!Free, Memories
  <2> QED BY <2>2 DEF A!Next
<1> QED BY <1>1, <1>2, Promises

\* fork().
LEMMA PromisesFork ==
  ASSUME NEW p \in Procs, NEW c \in Procs, AddressSpace(p) # NoSpace, AddressSpace(c) = NoSpace,
         TakesStep(c, AddressSpace(p))
  PROVE  Promised
<1>1. PICK x : x = AddressSpace(p) OBVIOUS
<1>2. ASSUME Memories' = [Memories EXCEPT ![c] = x] PROVE A!Next
  <2>1. A!Alive(p) /\ ~ A!Alive(c) BY DEF A!Alive
  <2>2. A!Fork(p, c) BY <1>1, <1>2, <2>1 DEF A!Fork, Memories
  <2> QED BY <2>2 DEF A!Next
<1>3. TakesStep(c, x) BY <1>1
<1> QED BY <1>2, <1>3, Promises

\* Every step is one that AddressSpaces allows, or changes nobody's memory.
LEMMA NextPromised ==
  ASSUME GoodPages, MemNext
  PROVE  Promised
<1>1. ASSUME NEW p \in Procs, UserStep(p) PROVE Promised
  <2>1. ASSUME NEW n \in Increments, Sbrk(p, n) PROVE Promised
    BY <2>1, SbrkSteps, PromisesShrink, Stuttering, MemAssumption
  <2>2. ASSUME Fork(p) PROVE Promised BY <2>2, ForkSteps, Stuttering DEF Stutters
  <2>3. ASSUME ExitProcess(p) PROVE Promised BY <2>3, ExitSteps, Stuttering
  <2>4. ASSUME NEW c \in Procs, NEW k \in PageNumbers, Wait(p, c, k) PROVE Promised
    BY <2>4, WaitSteps, PromisesFill, Stuttering
  <2>5. ASSUME NEW file \in Binaries, Exec(p, file) PROVE Promised
    BY <2>5, ExecSteps, Stuttering
  <2>6. ASSUME NEW k \in PageNumbers, NEW v \in Values, Store(p, k, v) PROVE Promised
    BY <2>6, StoreSteps, PromisesFill
  <2>7. ASSUME NEW k \in PageNumbers, NEW v \in Values, Read(p, k, k + 1, v) PROVE Promised
    BY <2>7, ReadSteps, PromisesFill
  <2> QED BY <1>1, <2>1, <2>2, <2>3, <2>4, <2>5, <2>6, <2>7 DEF UserStep
<1>2. ASSUME NEW p \in Procs, KernelStep(p) PROVE Promised
  <2>1. CASE UvmallocPage(p) BY <2>1, UvmallocPageSteps, Stuttering
  <2>2. CASE UvmallocFails(p) BY <2>2, UvmallocFailsSteps, Stuttering
  <2>3. CASE SbrkReturns(p) BY <2>3, SbrkReturnsSteps, PromisesGrow, Stuttering
  <2>4. CASE CopyPage(p) BY <2>4, CopyPageSteps, Stuttering DEF Stutters
  <2>5. CASE CopyFails(p) BY <2>5, CopyFailsSteps, Stuttering DEF Stutters
  <2>6. CASE ForkReturns(p) BY <2>6, ForkReturnsSteps, PromisesFork
  <2>7. CASE Reap(p) BY <2>7, ReapSteps, PromisesFree
  <2>8. CASE FetchArg(p) BY <2>8, FetchArgSteps, Stuttering
  <2>9. CASE Open(p) BY <2>9, OpenSteps, Stuttering
  <2>10. CASE Segment(p) BY <2>10, SegmentAllSteps, Stuttering
  <2>11. CASE Load(p) BY <2>11, LoadSteps, Stuttering
  <2>12. CASE Commit(p) BY <2>12, CommitSteps, PromisesExec
  <2>13. CASE CommitFails(p) BY <2>13, CommitFailsSteps, Stuttering
  <2> QED BY <1>2, <2>1, <2>2, <2>3, <2>4, <2>5, <2>6, <2>7, <2>8, <2>9, <2>10, <2>11, <2>12,
    <2>13 DEF KernelStep
<1> QED BY <1>1, <1>2 DEF MemNext

\* Nothing happens.
LEMMA NothingPromised ==
  ASSUME GoodPages, UNCHANGED memVars
  PROVE  Promised
<1>1. PICK p : p \in Procs BY MemAssumption DEF Procs
<1>2. UNCHANGED <<memory, procs, pc, loc>> BY DEF memVars
<1> QED BY <1>1, <1>2, Stands, Stuttering

\* userinit() leaves the first process a page of text.
LEMMA StartPages ==
  ASSUME MemInit
  PROVE  GoodPages /\ A!Init
<1>1. PICK n \in BootFree : ram = FirstMemory(n) BY DEF MemInit, FirstMemory
<1>2. n \in 7 .. NFRAMES /\ 1 \in Procs BY MemAssumption DEF Procs
<1>3. Ent(ram, 2, 0) = [pa |-> 5, perm |-> {"R", "W", "X", "U"}] /\ ram[5] = Data("text")
  BY <1>1, <1>2, FirstSpace
<1>4. Look(ram, 2, 0) = [data |-> "text", perm |-> {"R", "W", "X", "U"}] BY <1>3 DEF Look, Data
<1>5. /\ \A q \in Procs : pc[q] = "user" /\ (q # 1 => state[q] = "unused")
      /\ state[1] = "runnable" /\ sz[1] = PGSIZE /\ pagetable[1] = 2
  BY <1>2 DEF MemInit
<1>6. GoodPages
  <2>1. Good BY InitGood
  <2>2. ASSUME NEW q \in Procs PROVE Contents(q) BY <1>5 DEF Contents, Loads, Stacks
  <2> QED BY <2>1, <2>2 DEF GoodPages
<1>7. PagesOf(PGSIZE) = 1
  <2>1. PagesOf(1 * PGSIZE) = 1 /\ 1 * PGSIZE = PGSIZE BY PagesExact, Constants
  <2> QED BY <2>1
<1>8. AddressSpace(1) = <<[data |-> "text", perm |-> {"R", "W", "X", "U"}]>>
  <2>1. PICK x : x = Look(ram, 2, 0) OBVIOUS
  <2>2. AddressSpace(1) = [k \in 1 .. 1 |-> Look(ram, 2, k - 1)]
    BY <1>5, <1>7, AddressSpaceIs, ZenonT(40)
  <2>3. AddressSpace(1) = [k \in 1 .. 1 |-> x]
    <3>1. \A k \in 1 .. 1 : k - 1 = 0 OBVIOUS
    <3> QED BY <2>1, <2>2, <3>1
  <2>4. [k \in 1 .. 1 |-> x] = <<x>> OBVIOUS
  <2> QED BY <1>4, <2>1, <2>3, <2>4
<1>9. \A q \in Procs \ {1} : AddressSpace(q) = NoSpace BY <1>5, AddressSpaceIs
<1>10. A!Init BY <1>8, <1>9 DEF A!Init
<1> QED BY <1>6, <1>10

\* IsAddressSpaces: what kalloc.c, vm.c and exec.c do with frames and page tables, page by page,
\* is to the processes what AddressSpaces says: no process's memory changes by what another
\* does, fork() gives a copy, exec() the image of the program or nothing, sbrk() zero pages,
\* whatever fails half way.
THEOREM AddressSpacesKept == MemSpec => IsAddressSpaces
<1>1. MemInit => GoodPages /\ A!Init BY StartPages
<1>2. GoodPages /\ [MemNext]_memVars => GoodPages' /\ [A!Next]_[p \in Procs |-> AddressSpace(p)]
  <2> SUFFICES ASSUME GoodPages, [MemNext]_memVars
               PROVE  GoodPages' /\ [A!Next]_[p \in Procs |-> AddressSpace(p)]
    OBVIOUS
  <2>1. Good' BY NextKeeps DEF GoodPages
  <2>2. Promised BY NextPromised, NothingPromised
  <2> QED BY <2>1, <2>2 DEF Promised, GoodPages, Memories
<1> QED BY <1>1, <1>2, PTL DEF MemSpec, IsAddressSpaces, A!Spec

=============================================================================
