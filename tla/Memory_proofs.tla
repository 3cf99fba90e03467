---------------------------- MODULE Memory_proofs ----------------------------
(***************************************************************************)
(* Proofs about the two programs that manage frames and page tables: the   *)
(* paging simulator (Paging) and the memory of the xv6 kernel (XvMem).     *)
(***************************************************************************)
EXTENDS Paging, XvMem, SequenceTheorems, FiniteSetTheorems, WellFoundedInduction, TLAPS

-----
\* Paging, for memories, processes and programs of any size.

-----
\* One memory: the processes R in it, their page tables pt, their numbers
\* of pages n, its free frames ff among all its frames F.
\* Every page has a frame of its own, and not a free one.
Sound(R, pt, n, ff, F) ==
  /\ ff \subseteq F
  /\ \A p \in R : \A k \in 0..(n[p] - 1) : pt[p][k] \in F \ ff
  /\ \A p, q \in R : \A j \in 0..(n[p] - 1), k \in 0..(n[q] - 1) :
       pt[p][j] = pt[q][k] => p = q /\ j = k

\* Every frame that is not free is a page's.
Full(R, pt, n, ff, F) ==
  \A f \in F \ ff : \E p \in R : \E k \in 0..(n[p] - 1) : pt[p][k] = f

\* The frames of the n pages of a page table.
Used(table_p, n) == {table_p[k] : k \in 0..(n - 1)}

\* As many frames are taken as there are pages.
LEMMA UsedCount ==
  ASSUME NEW n \in Nat, NEW t,
         \A j, k \in 0..(n - 1) : t[j] = t[k] => j = k
  PROVE  IsFiniteSet(Used(t, n)) /\ Cardinality(Used(t, n)) = n
<1> DEFINE f == [k \in 0..(n - 1) |-> t[k]]
<1>1. IsFiniteSet(0..(n - 1)) /\ Cardinality(0..(n - 1)) = n BY FS_Interval
<1>2. f \in Bijection(0..(n - 1), Used(t, n))
  BY DEF Bijection, Injection, Surjection, IsInjective, Used
<1>3. ExistsBijection(0..(n - 1), Used(t, n)) BY <1>2 DEF ExistsBijection
<1> QED BY <1>1, <1>3, FS_Bijection, SMTT(30)

\* get_freloc() takes as many different free frames as it was asked for.
LEMMA PlacedFrames ==
  ASSUME NEW n \in Nat, NEW ff, ff \subseteq Int, NEW place \in Placements(n, ff)
  PROVE  /\ place \in [0..(n - 1) -> ff]
         /\ \A j, k \in 0..(n - 1) : place[j] = place[k] => j = k
         /\ FramesOf(place) \subseteq ff
         /\ IsFiniteSet(ff) => Cardinality(ff \ FramesOf(place)) = Cardinality(ff) - n
<1>1. place \in [0..(n - 1) -> ff] /\ \A j, k \in 0..(n - 1) : j < k => place[j] < place[k]
  BY DEF Placements
<1>2. \A j, k \in 0..(n - 1) : place[j] = place[k] => j = k
  <2> TAKE j, k \in 0..(n - 1)
  <2>1. place[j] \in Int /\ (j < k => place[j] < place[k]) /\ (k < j => place[k] < place[j])
    BY <1>1
  <2> QED BY <2>1
<1>3. FramesOf(place) \subseteq ff /\ FramesOf(place) = Used(place, n)
  BY <1>1 DEF FramesOf, Used
<1>4. ASSUME IsFiniteSet(ff) PROVE Cardinality(ff \ FramesOf(place)) = Cardinality(ff) - n
  <2>1. Cardinality(FramesOf(place)) = n BY <1>2, <1>3, UsedCount
  <2>2. ff \cap FramesOf(place) = FramesOf(place) BY <1>3
  <2> QED BY <1>4, <2>1, <2>2, FS_Difference
<1> QED BY <1>1, <1>2, <1>3, <1>4

\* A process that is not in the memory gets frames.
LEMMA TakeKeeps ==
  ASSUME NEW R, NEW n, NEW S, NEW pt \in [Pids -> S], NEW F, NEW ff, F \subseteq Int,
         R \subseteq Pids, \A q \in R : n[q] \in 0..MaxPages,
         Sound(R, pt, n, ff, F),
         NEW p \in Pids, p \notin R, n[p] \in 0..MaxPages,
         NEW place \in Placements(n[p], ff)
  PROVE  LET pt2 == [pt EXCEPT ![p] = Mapped(@, place)]
             ff2 == ff \ FramesOf(place)
         IN  /\ Sound(R \cup {p}, pt2, n, ff2, F)
             /\ Full(R, pt, n, ff, F) => Full(R \cup {p}, pt2, n, ff2, F)
<1> DEFINE pt2 == [pt EXCEPT ![p] = Mapped(@, place)]
           ff2 == ff \ FramesOf(place)
<1>1. ff \subseteq Int /\ n[p] \in Nat BY DEF Sound
<1>2. /\ place \in [0..(n[p] - 1) -> ff]
      /\ \A j, k \in 0..(n[p] - 1) : place[j] = place[k] => j = k
      /\ FramesOf(place) \subseteq ff
  BY <1>1, PlacedFrames, ZenonT(40)
<1>3. \A k \in 0..(n[p] - 1) : k \in PageNos /\ pt2[p][k] = place[k]
  BY <1>2, BoundsAssumption DEF Mapped, PageNos
<1>4. \A q \in R : pt2[q] = pt[q] OBVIOUS
<1>5. \A k \in 0..(n[p] - 1) : place[k] \in ff /\ place[k] \in FramesOf(place)
  BY <1>2 DEF FramesOf
<1> HIDE DEF pt2
<1>6. \A q \in R \cup {p} : \A k \in 0..(n[q] - 1) : pt2[q][k] \in F \ ff2
  BY <1>3, <1>4, <1>5 DEF Sound
<1>7. \A q \in R : \A j \in 0..(n[q] - 1), k \in 0..(n[p] - 1) : pt2[q][j] # pt2[p][k]
  BY <1>3, <1>4, <1>5 DEF Sound
<1>8. Sound(R \cup {p}, pt2, n, ff2, F)
  <2>1. \A j, k \in 0..(n[p] - 1) : pt2[p][j] = pt2[p][k] => j = k BY <1>2, <1>3
  <2>2. \A q, r \in R : \A j \in 0..(n[q] - 1), k \in 0..(n[r] - 1) :
          pt2[q][j] = pt2[r][k] => q = r /\ j = k
    BY <1>4 DEF Sound
  <2>3. ff2 \subseteq F BY DEF Sound
  <2> QED BY <1>6, <1>7, <2>1, <2>2, <2>3 DEF Sound
<1>9. ASSUME Full(R, pt, n, ff, F) PROVE Full(R \cup {p}, pt2, n, ff2, F)
  <2> SUFFICES ASSUME NEW g \in F \ ff2
               PROVE  \E q \in R \cup {p} : \E k \in 0..(n[q] - 1) : pt2[q][k] = g
    BY DEF Full
  <2>1. CASE g \in FramesOf(place) BY <2>1, <1>2, <1>3 DEF FramesOf
  <2>2. CASE g \notin ff BY <2>2, <1>4, <1>9, ZenonT(40) DEF Full
  <2> QED BY <2>1, <2>2
<1> QED BY <1>8, <1>9 DEF pt2

\* A process in the memory gives its frames back.
LEMMA GiveKeeps ==
  ASSUME NEW R, NEW n, NEW pt, NEW pt2, NEW F, NEW ff, IsFiniteSet(F),
         Sound(R, pt, n, ff, F), NEW p \in R, n[p] \in Nat,
         \A q \in R \ {p} : pt2[q] = pt[q]
  PROVE  LET ff2 == ff \cup Used(pt[p], n[p])
         IN  /\ Sound(R \ {p}, pt2, n, ff2, F)
             /\ Full(R, pt, n, ff, F) => Full(R \ {p}, pt2, n, ff2, F)
             /\ Cardinality(ff2) = Cardinality(ff) + n[p]
<1> DEFINE ff2 == ff \cup Used(pt[p], n[p])
<1>1. Used(pt[p], n[p]) \subseteq F \ ff BY DEF Sound, Used
<1>2. Sound(R \ {p}, pt2, n, ff2, F) BY <1>1 DEF Sound, Used
<1>3. Full(R, pt, n, ff, F) => Full(R \ {p}, pt2, n, ff2, F) BY DEF Full, Used
<1>4. IsFiniteSet(Used(pt[p], n[p])) /\ Cardinality(Used(pt[p], n[p])) = n[p]
  BY UsedCount DEF Sound
<1>5. IsFiniteSet(ff) /\ ff \cap Used(pt[p], n[p]) = {} BY <1>1, FS_Subset DEF Sound
<1>6. Cardinality(ff2) = Cardinality(ff) + n[p]
  <2>1. Cardinality(ff2) = Cardinality(ff) + Cardinality(Used(pt[p], n[p]))
                             - Cardinality(ff \cap Used(pt[p], n[p]))
    BY <1>4, <1>5, FS_Union
  <2>2. Cardinality(ff \cap Used(pt[p], n[p])) = 0 /\ Cardinality(ff) \in Nat
    BY <1>5, FS_EmptySet, FS_CardinalityType
  <2> QED BY <1>4, <2>1, <2>2
<1> QED BY <1>2, <1>3, <1>6

-----
\* The inductive invariant.
MMSound ==
  /\ Sound(MMResident, MMPFNum, num_pg, ffMM, MMFrames)
  /\ MM_FF_CNT = Cardinality(ffMM)
VMSound ==
  /\ Sound(VMResident, VMPFNum, num_pg, ffVM, VMFrames)
  /\ VM_FF_CNT = Cardinality(ffVM)
MMFull == Full(MMResident, MMPFNum, num_pg, ffMM, MMFrames)

\* The books of the two memories; virtual memory may leak.
Ledger == MMSound /\ MMFull /\ VMSound

\* Only pids that have been used up are marked resident.
Known ==
  /\ in_mm \subseteq 1..PID_CNT /\ in_vm \subseteq 1..PID_CNT
  /\ program \in [Pids -> Programs \cup {<<>>}] /\ ip \in Nat \ {0}

\* No process is in both memories.
Apart == \A p \in VPID : ~(p \in in_mm /\ p \in in_vm)

\* A command works on valid processes: the victim of a swap-out is in neither
\* memory, the process that is swapped in is not in main memory, and when it is
\* picked as a victim itself there is no room for it there.
InFlight ==
  /\ at = "run" => cur \in VPID
  /\ at = "swapOutPlace" => victim \in VPID \ (in_mm \cup in_vm)
  /\ at \in {"evict", "swapInPlace"} => cmd # "swapout"
  /\ at \in {"evict", "swapInPlace", "swapOutPlace"} /\ cmd # "swapout" =>
       cur \in VPID \ in_mm
  /\ at = "swapOutPlace" /\ cmd # "swapout" /\ victim = cur => MM_FF_CNT < num_pg[cur]

IInv == TypeOK /\ Known /\ Apart /\ InFlight /\ Ledger

\* The types of the memories.
MemoryTypes ==
  /\ ffMM \subseteq MMFrames /\ MM_FF_CNT \in Int
  /\ ffVM \subseteq VMFrames /\ VM_FF_CNT \in Int
  /\ in_mm \subseteq Pids /\ in_vm \subseteq Pids
  /\ MMPFNum \in [Pids -> [PageNos -> MMFrames \cup {ERROR_ENTRY}]]
  /\ VMPFNum \in [Pids -> [PageNos -> VMFrames \cup {ERROR_ENTRY}]]

LEMMA FiniteMemories ==
  /\ IsFiniteSet(MMFrames) /\ IsFiniteSet(VMFrames)
  /\ MMFrames \subseteq Int /\ VMFrames \subseteq Int
BY FramesAssumption, FS_Interval DEF MMFrames, VMFrames

\* A counter that is the number of free frames is a number.
LEMMA FreeCounts ==
  ASSUME NEW ff, ff \subseteq MMFrames \/ ff \subseteq VMFrames
  PROVE  IsFiniteSet(ff) /\ Cardinality(ff) \in Int
BY FiniteMemories, FS_Subset, FS_CardinalityType

\* A valid pid has an entry in the tables.
LEMMA ValidPids ==
  ASSUME TypeOK
  PROVE  VPID \subseteq Pids /\ \A p \in Pids : num_pg[p] \in 0..MaxPages /\ num_pg[p] \in Nat
<1>1. VPID \subseteq 1..PID_CNT /\ PID_CNT \in 0..MaxPid /\ num_pg \in [Pids -> 0..MaxPages]
  BY DEF TypeOK
<1> QED BY <1>1, BoundsAssumption DEF Pids

LEMMA InitIInv == Init => IInv
<1> SUFFICES ASSUME Init PROVE IInv
  OBVIOUS
<1>1. TypeOK /\ Known
  BY FramesAssumption, BoundsAssumption DEF Init, TypeOK, Known, Pids, PageNos, NoPages,
    ERROR_ENTRY, NoEntry, Erased, MMFrames, VMFrames
<1>2. Apart /\ InFlight BY DEF Init, Apart, InFlight
<1>3. Ledger
  <2>1. MM_FF_CNT = Cardinality(ffMM) /\ VM_FF_CNT = Cardinality(ffVM)
    BY FramesAssumption, FS_Interval DEF Init, MMFrames, VMFrames
  <2> QED BY <2>1 DEF Init, Ledger, MMSound, VMSound, MMFull, Sound, Full, MMResident,
    VMResident
<1> QED BY <1>1, <1>2, <1>3 DEF IInv

-----
\* What the helpers keep.
\* get_freloc() in main memory, for a process that is not there.
LEMMA PlaceMMKeeps ==
  ASSUME TypeOK, MMSound, NEW p \in Pids, p \notin in_mm, PlaceMM(p, num_pg'[p]),
         VPID' = VPID \cup {p}, num_pg' \in [Pids -> 0..MaxPages],
         \A q \in VPID \ {p} : num_pg'[q] = num_pg[q]
  PROVE  /\ MMSound' /\ (MMFull => MMFull')
         /\ ffMM' \subseteq MMFrames /\ MM_FF_CNT' \in Int
         /\ MMPFNum' \in [Pids -> [PageNos -> MMFrames \cup {ERROR_ENTRY}]]
<1> DEFINE n == num_pg'
<1>1. PICK place \in Placements(n[p], ffMM) :
        /\ ffMM' = ffMM \ FramesOf(place) /\ MM_FF_CNT' = MM_FF_CNT - n[p]
        /\ in_mm' = in_mm \cup {p}
        /\ MMPFNum' = [MMPFNum EXCEPT ![p] = Mapped(@, place)]
  BY DEF PlaceMM
<1>2. MMResident' = MMResident \cup {p} /\ p \notin MMResident /\ MMResident \subseteq Pids
  BY <1>1 DEF MMResident, TypeOK
<1>3. Sound(MMResident, MMPFNum, n, ffMM, MMFrames) BY <1>2 DEF MMSound, Sound, MMResident
<1>4. MMFull => Full(MMResident, MMPFNum, n, ffMM, MMFrames)
  BY <1>2 DEF MMFull, Full, MMResident
<1>5. /\ n[p] \in Nat /\ n[p] \in 0..MaxPages /\ ffMM \subseteq MMFrames /\ ffMM \subseteq Int
      /\ \A q \in MMResident : n[q] \in 0..MaxPages
  BY <1>2, FiniteMemories DEF TypeOK
<1>6. /\ Sound(MMResident', MMPFNum', n, ffMM', MMFrames)
      /\ MMFull => MMFull'
  <2>1. MMPFNum \in [Pids -> [PageNos -> MMFrames \cup {ERROR_ENTRY}]] BY DEF TypeOK
  <2> QED BY <1>1, <1>2, <1>3, <1>4, <1>5, <2>1, FiniteMemories, TakeKeeps DEF MMFull
<1>7. MM_FF_CNT' = Cardinality(ffMM') /\ MM_FF_CNT' \in Int /\ ffMM' \subseteq MMFrames
  <2>1. Cardinality(ffMM \ FramesOf(place)) = Cardinality(ffMM) - n[p]
    BY <1>5, FreeCounts, PlacedFrames
  <2> QED BY <1>1, <1>5, <2>1, FreeCounts DEF MMSound
<1>8. MMPFNum' \in [Pids -> [PageNos -> MMFrames \cup {ERROR_ENTRY}]]
  <2>1. place \in [0..(n[p] - 1) -> ffMM] BY <1>1, <1>5, PlacedFrames
  <2>2. MMPFNum \in [Pids -> [PageNos -> MMFrames \cup {ERROR_ENTRY}]] BY DEF TypeOK
  <2>3. Mapped(MMPFNum[p], place) \in [PageNos -> MMFrames \cup {ERROR_ENTRY}]
    BY <2>1, <2>2, <1>5 DEF Mapped
  <2> QED BY <1>1, <2>2, <2>3
<1> QED BY <1>6, <1>7, <1>8 DEF MMSound

\* get_freloc() in virtual memory; a process that is there already gets new
\* frames, and its old ones are lost.
LEMMA PlaceVMKeeps ==
  ASSUME TypeOK, VMSound, NEW p \in Pids, PlaceVM(p, num_pg'[p]),
         VPID' = VPID \cup {p}, num_pg' \in [Pids -> 0..MaxPages],
         \A q \in VPID \ {p} : num_pg'[q] = num_pg[q]
  PROVE  /\ VMSound'
         /\ ffVM' \subseteq VMFrames /\ VM_FF_CNT' \in Int
         /\ VMPFNum' \in [Pids -> [PageNos -> VMFrames \cup {ERROR_ENTRY}]]
<1> DEFINE n == num_pg'
           R == VMResident \ {p}
<1>1. PICK place \in Placements(n[p], ffVM) :
        /\ ffVM' = ffVM \ FramesOf(place) /\ VM_FF_CNT' = VM_FF_CNT - n[p]
        /\ in_vm' = in_vm \cup {p}
        /\ VMPFNum' = [VMPFNum EXCEPT ![p] = Mapped(@, place)]
  BY DEF PlaceVM
<1>2. VMResident' = R \cup {p} /\ p \notin R /\ R \subseteq Pids BY <1>1 DEF VMResident, TypeOK
<1>3. Sound(R, VMPFNum, n, ffVM, VMFrames) BY <1>2 DEF VMSound, Sound, VMResident
<1>5. /\ n[p] \in Nat /\ n[p] \in 0..MaxPages /\ ffVM \subseteq VMFrames /\ ffVM \subseteq Int
      /\ \A q \in R : n[q] \in 0..MaxPages
  BY <1>2, FiniteMemories DEF TypeOK
<1>6. Sound(VMResident', VMPFNum', n, ffVM', VMFrames)
  <2>1. VMPFNum \in [Pids -> [PageNos -> VMFrames \cup {ERROR_ENTRY}]] BY DEF TypeOK
  <2>2. Sound(R \cup {p}, [VMPFNum EXCEPT ![p] = Mapped(@, place)], n,
              ffVM \ FramesOf(place), VMFrames)
    <3> HIDE DEF R
    <3> QED BY <1>2, <1>3, <1>5, <2>1, FiniteMemories, TakeKeeps
  <2> QED BY <1>1, <1>2, <2>2
<1>7. VM_FF_CNT' = Cardinality(ffVM') /\ VM_FF_CNT' \in Int /\ ffVM' \subseteq VMFrames
  <2>1. Cardinality(ffVM \ FramesOf(place)) = Cardinality(ffVM) - n[p]
    BY <1>5, FreeCounts, PlacedFrames
  <2> QED BY <1>1, <1>5, <2>1, FreeCounts DEF VMSound
<1>8. VMPFNum' \in [Pids -> [PageNos -> VMFrames \cup {ERROR_ENTRY}]]
  <2>1. place \in [0..(n[p] - 1) -> ffVM] BY <1>1, <1>5, PlacedFrames
  <2>2. VMPFNum \in [Pids -> [PageNos -> VMFrames \cup {ERROR_ENTRY}]] BY DEF TypeOK
  <2>3. Mapped(VMPFNum[p], place) \in [PageNos -> VMFrames \cup {ERROR_ENTRY}]
    BY <2>1, <2>2, <1>5 DEF Mapped
  <2> QED BY <1>1, <2>2, <2>3
<1> QED BY <1>6, <1>7, <1>8 DEF VMSound

\* kill_process() and free_process() give a valid process's frames back.
LEMMA ReleaseKeeps ==
  ASSUME TypeOK, Apart, Ledger, NEW p \in VPID, ReleaseFrames(p),
         VPID' \in {VPID, VPID \ {p}}, UNCHANGED num_pg
  PROVE  /\ Ledger' /\ MemoryTypes'
         /\ in_mm' = in_mm \ {p} /\ in_vm' = in_vm \ {p}
<1>1. p \in Pids /\ num_pg[p] \in Nat BY ValidPids
<1>2. CASE p \in in_mm
  <2>1. /\ ffMM' = ffMM \cup Used(MMPFNum[p], num_pg[p])
        /\ MM_FF_CNT' = MM_FF_CNT + num_pg[p] /\ in_mm' = in_mm \ {p}
        /\ MMPFNum' = [MMPFNum EXCEPT ![p] = [k \in PageNos |->
                         IF k \in Pages(p) THEN ERROR_ENTRY ELSE @[k]]]
        /\ UNCHANGED vmState
    BY <1>2 DEF ReleaseFrames, Used, Pages
  <2>2. /\ MMResident' = MMResident \ {p} /\ p \in MMResident
        /\ VMResident' = VMResident /\ in_vm' = in_vm \ {p}
    BY <1>2, <2>1 DEF MMResident, VMResident, Apart, vmState
  <2>3. \A q \in MMResident \ {p} : MMPFNum'[q] = MMPFNum[q] BY <2>1 DEF TypeOK, MMResident
  <2>4. /\ Sound(MMResident', MMPFNum', num_pg, ffMM', MMFrames)
        /\ MMFull => Full(MMResident', MMPFNum', num_pg, ffMM', MMFrames)
        /\ Cardinality(ffMM') = Cardinality(ffMM) + num_pg[p]
    <3> DEFINE ff2 == ffMM \cup Used(MMPFNum[p], num_pg[p])
    <3>1. Sound(MMResident, MMPFNum, num_pg, ffMM, MMFrames) BY DEF Ledger, MMSound
    <3>2. /\ Sound(MMResident \ {p}, MMPFNum', num_pg, ff2, MMFrames)
          /\ Full(MMResident, MMPFNum, num_pg, ffMM, MMFrames) =>
               Full(MMResident \ {p}, MMPFNum', num_pg, ff2, MMFrames)
          /\ Cardinality(ff2) = Cardinality(ffMM) + num_pg[p]
      BY <1>1, <2>2, <2>3, <3>1, FiniteMemories, GiveKeeps
    <3> QED BY <2>1, <2>2, <3>2 DEF MMFull
  <2>5. MMSound' /\ MMFull' BY <2>1, <2>4 DEF Ledger, MMSound, MMFull
  <2>6. VMSound' BY <2>1, <2>2 DEF Ledger, VMSound, vmState
  <2>7. MemoryTypes'
    <3>1. ffMM' \subseteq MMFrames /\ MM_FF_CNT' \in Int BY <1>1, <2>1, <2>4 DEF Sound, TypeOK
    <3> QED BY <2>1, <3>1 DEF TypeOK, MemoryTypes, vmState
  <2> QED BY <2>1, <2>2, <2>5, <2>6, <2>7 DEF Ledger
<1>3. CASE p \notin in_mm /\ p \in in_vm
  <2>1. /\ ffVM' = ffVM \cup Used(VMPFNum[p], num_pg[p])
        /\ VM_FF_CNT' = VM_FF_CNT + num_pg[p] /\ in_vm' = in_vm \ {p}
        /\ VMPFNum' = [VMPFNum EXCEPT ![p] = [k \in PageNos |->
                         IF k \in Pages(p) THEN ERROR_ENTRY ELSE @[k]]]
        /\ UNCHANGED mmState
    BY <1>3 DEF ReleaseFrames, Used, Pages
  <2>2. /\ VMResident' = VMResident \ {p} /\ p \in VMResident
        /\ MMResident' = MMResident /\ in_mm' = in_mm \ {p}
    BY <1>3, <2>1 DEF MMResident, VMResident, mmState
  <2>3. \A q \in VMResident \ {p} : VMPFNum'[q] = VMPFNum[q] BY <2>1 DEF TypeOK, VMResident
  <2>4. /\ Sound(VMResident', VMPFNum', num_pg, ffVM', VMFrames)
        /\ Cardinality(ffVM') = Cardinality(ffVM) + num_pg[p]
    <3> DEFINE ff2 == ffVM \cup Used(VMPFNum[p], num_pg[p])
    <3>1. Sound(VMResident, VMPFNum, num_pg, ffVM, VMFrames) BY DEF Ledger, VMSound
    <3>2. /\ Sound(VMResident \ {p}, VMPFNum', num_pg, ff2, VMFrames)
          /\ Cardinality(ff2) = Cardinality(ffVM) + num_pg[p]
      BY <1>1, <2>2, <2>3, <3>1, FiniteMemories, GiveKeeps
    <3> QED BY <2>1, <2>2, <3>2
  <2>5. VMSound' BY <2>1, <2>4 DEF Ledger, VMSound
  <2>6. MMSound' /\ MMFull' BY <2>1, <2>2 DEF Ledger, MMSound, MMFull, mmState
  <2>7. MemoryTypes'
    <3>1. ffVM' \subseteq VMFrames /\ VM_FF_CNT' \in Int BY <1>1, <2>1, <2>4 DEF Sound, TypeOK
    <3> QED BY <2>1, <3>1 DEF TypeOK, MemoryTypes, mmState
  <2> QED BY <2>1, <2>2, <2>5, <2>6, <2>7 DEF Ledger
<1>4. CASE p \notin in_mm \cup in_vm
  <2>1. UNCHANGED <<mmState, vmState>> BY <1>4 DEF ReleaseFrames
  <2>2. MMResident' = MMResident /\ VMResident' = VMResident
    BY <1>4, <2>1 DEF MMResident, VMResident, mmState, vmState
  <2> QED BY <1>4, <2>1, <2>2 DEF Ledger, MMSound, VMSound, MMFull, mmState, vmState,
    MemoryTypes, TypeOK
<1> QED BY <1>2, <1>3, <1>4

\* load_into_mm() for a valid process that is not in main memory.
LEMMA LoadIntoMMKeeps ==
  ASSUME TypeOK, Apart, Ledger, NEW p \in VPID, p \notin in_mm, LoadIntoMM(p),
         UNCHANGED <<num_pg, VPID>>
  PROVE  /\ Ledger' /\ Apart' /\ MemoryTypes'
         /\ in_mm' \subseteq in_mm \cup {p} /\ in_vm' \subseteq in_vm
         /\ MM_FF_CNT < num_pg[p] => UNCHANGED <<mmState, vmState>>
<1>1. p \in Pids /\ num_pg[p] \in Int /\ MM_FF_CNT \in Int BY ValidPids DEF TypeOK
<1>2. CASE MM_FF_CNT >= num_pg[p]
  <2>1. /\ PlaceMM(p, num_pg[p]) /\ in_vm' = in_vm \ {p}
        /\ UNCHANGED <<ffVM, VM_FF_CNT, VMPFNum>>
    BY <1>1, <1>2 DEF LoadIntoMM
  <2>2. /\ MMSound' /\ MMFull'
        /\ ffMM' \subseteq MMFrames /\ MM_FF_CNT' \in Int
        /\ MMPFNum' \in [Pids -> [PageNos -> MMFrames \cup {ERROR_ENTRY}]]
    <3>1. PlaceMM(p, num_pg'[p]) /\ VPID' = VPID \cup {p} /\ num_pg' \in [Pids -> 0..MaxPages]
      BY <2>1 DEF TypeOK
    <3> QED BY <1>1, <3>1, PlaceMMKeeps DEF Ledger
  <2>3. VMSound' BY <2>1 DEF Ledger, VMSound, Sound, VMResident
  <2>4. in_mm' = in_mm \cup {p} BY <2>1 DEF PlaceMM
  <2>5. Apart' /\ MemoryTypes' BY <1>1, <2>1, <2>2, <2>4 DEF Apart, MemoryTypes, TypeOK
  <2> QED BY <1>1, <1>2, <2>1, <2>2, <2>3, <2>4, <2>5 DEF Ledger
<1>3. CASE MM_FF_CNT < num_pg[p]
  <2>1. UNCHANGED <<mmState, vmState>> BY <1>1, <1>3 DEF LoadIntoMM
  <2> QED BY <2>1 DEF Ledger, MMSound, VMSound, MMFull, MMResident, VMResident, Apart,
    MemoryTypes, TypeOK, mmState, vmState
<1> QED BY <1>1, <1>2, <1>3

\* load_into_vm() for a valid process that is not in main memory.
LEMMA LoadIntoVMKeeps ==
  ASSUME TypeOK, Apart, Ledger, NEW p \in VPID, p \notin in_mm, LoadIntoVM(p),
         UNCHANGED <<num_pg, VPID>>
  PROVE  /\ Ledger' /\ Apart' /\ MemoryTypes'
         /\ in_mm' = in_mm /\ in_vm' \subseteq in_vm \cup {p}
<1>1. p \in Pids /\ num_pg[p] \in Int /\ VM_FF_CNT \in Int BY ValidPids DEF TypeOK
<1>2. CASE VM_FF_CNT >= num_pg[p]
  <2>1. /\ PlaceVM(p, num_pg[p]) /\ in_mm' = in_mm
        /\ UNCHANGED <<ffMM, MM_FF_CNT, MMPFNum>>
    BY <1>1, <1>2 DEF LoadIntoVM
  <2>2. /\ VMSound'
        /\ ffVM' \subseteq VMFrames /\ VM_FF_CNT' \in Int
        /\ VMPFNum' \in [Pids -> [PageNos -> VMFrames \cup {ERROR_ENTRY}]]
    <3>1. PlaceVM(p, num_pg'[p]) /\ VPID' = VPID \cup {p} /\ num_pg' \in [Pids -> 0..MaxPages]
      BY <2>1 DEF TypeOK
    <3> QED BY <1>1, <3>1, PlaceVMKeeps DEF Ledger
  <2>3. MMSound' /\ MMFull' BY <2>1 DEF Ledger, MMSound, MMFull, MMResident
  <2>4. in_vm' = in_vm \cup {p} BY <2>1 DEF PlaceVM
  <2>5. Apart' /\ MemoryTypes' BY <1>1, <2>1, <2>2, <2>4 DEF Apart, MemoryTypes, TypeOK
  <2> QED BY <2>1, <2>2, <2>3, <2>4, <2>5 DEF Ledger
<1>3. CASE VM_FF_CNT < num_pg[p]
  <2>1. UNCHANGED <<mmState, vmState>> BY <1>1, <1>3 DEF LoadIntoVM
  <2> QED BY <2>1 DEF Ledger, MMSound, VMSound, MMFull, MMResident, VMResident, Apart,
    MemoryTypes, TypeOK, mmState, vmState
<1> QED BY <1>1, <1>2, <1>3

-----
\* Every action keeps the invariant.
\* The parts of the type invariant.
ControlTypes ==
  /\ at \in {"script", "run", "evict", "swapInPlace", "swapOutPlace", "unknown",
             "over", "crashed"}
  /\ cmd \in {"none", "run", "swapin", "swapout"}
  /\ cur \in Pids \cup {0} /\ victim \in Pids \cup {0} /\ ip \in Nat \ {0}
  /\ it \in Nat \X (Pids \cup {0})
TableTypes ==
  /\ VPID \subseteq 1..PID_CNT /\ PID_CNT \in 0..MaxPid /\ GLB_TIME \in Nat
  /\ LRU_SET \subseteq (1..GLB_TIME) \X Pids
  /\ num_pg \in [Pids -> 0..MaxPages]
  /\ program \in [Pids -> Programs \cup {<<>>}]
Marked == in_mm \subseteq 1..PID_CNT /\ in_vm \subseteq 1..PID_CNT

LEMMA TypeParts ==
  TypeOK /\ Known <=>
    ControlTypes /\ MemoryTypes /\ TableTypes /\ Marked /\ MM \in [MMFrames -> Int]
BY DEF TypeOK, Known, ControlTypes, MemoryTypes, TableTypes, Marked

LEMMA TypePartsNext ==
  ASSUME ControlTypes', MemoryTypes', TableTypes', Marked', MM' \in [MMFrames -> Int]
  PROVE  TypeOK' /\ Known'
BY DEF TypeOK, Known, ControlTypes, MemoryTypes, TableTypes, Marked

LEMMA SameMemories ==
  ASSUME TypeOK, Apart, Ledger, UNCHANGED <<mmState, vmState, VPID, num_pg>>
  PROVE  Ledger' /\ Apart' /\ MemoryTypes'
BY DEF Ledger, MMSound, VMSound, MMFull, MMResident, VMResident, Apart, MemoryTypes, TypeOK,
  mmState, vmState

LEMMA TouchTypes ==
  ASSUME TableTypes, NEW p \in Pids, Touch(p)
  PROVE  GLB_TIME' \in Nat /\ LRU_SET' \subseteq (1..GLB_TIME') \X Pids
<1>1. GLB_TIME \in Nat /\ LRU_SET \subseteq (1..GLB_TIME) \X Pids BY DEF TableTypes
<1>2. RemoveSet(p) \subseteq LRU_SET /\ <<GLB_TIME + 1, p>> \in (1..(GLB_TIME + 1)) \X Pids
  BY <1>1 DEF RemoveSet
<1>3. (1..GLB_TIME) \X Pids \subseteq (1..(GLB_TIME + 1)) \X Pids BY <1>1
<1> QED BY <1>1, <1>2, <1>3 DEF Touch

LEMMA LoadToMMKeeps ==
  ASSUME IInv, NEW n \in 1..MaxPages, NEW prog \in Programs, LoadToMM(n, prog)
  PROVE  IInv'
<1> DEFINE p == NextPid
<1>1. TypeOK /\ Known /\ Apart /\ Ledger /\ TableTypes BY TypeParts DEF IInv
<1>2. p \in Pids /\ p \notin VPID /\ p \notin in_mm /\ p \notin in_vm /\ p = PID_CNT + 1
  BY <1>1, BoundsAssumption DEF LoadToMM, NewProcess, NextPid, TableTypes, Pids, Known
<1> HIDE DEF p
<1>3. /\ VPID' = VPID \cup {p} /\ PID_CNT' = p
      /\ num_pg' = [num_pg EXCEPT ![p] = n] /\ program' = [program EXCEPT ![p] = prog]
      /\ PlaceMM(p, n) /\ Touch(p) /\ UNCHANGED <<control, vmState, MM>>
  BY DEF LoadToMM, NewProcess, p
<1>4. num_pg' \in [Pids -> 0..MaxPages] /\ \A q \in VPID : num_pg'[q] = num_pg[q]
  BY <1>1, <1>2, <1>3, BoundsAssumption DEF TableTypes
<1>5. /\ MMSound' /\ MMFull'
      /\ ffMM' \subseteq MMFrames /\ MM_FF_CNT' \in Int
      /\ MMPFNum' \in [Pids -> [PageNos -> MMFrames \cup {ERROR_ENTRY}]]
  <2>1. PlaceMM(p, num_pg'[p]) BY <1>1, <1>2, <1>3 DEF TableTypes
  <2> QED BY <1>1, <1>2, <1>3, <1>4, <2>1, PlaceMMKeeps DEF Ledger
<1>6. VMSound'
  <2>1. VMResident' = VMResident BY <1>2, <1>3 DEF VMResident, vmState
  <2> QED BY <1>1, <1>3, <1>4, <2>1 DEF Ledger, VMSound, Sound, VMResident, vmState
<1>7. in_mm' = in_mm \cup {p} /\ in_vm' = in_vm BY <1>3 DEF PlaceMM, vmState
<1>8. MemoryTypes' /\ Apart'
  BY <1>1, <1>2, <1>3, <1>5, <1>7 DEF MemoryTypes, TypeOK, vmState, Apart
<1>9. ControlTypes' /\ MM' \in [MMFrames -> Int]
  BY <1>1, <1>3, TypeParts DEF ControlTypes, control
<1>10. TableTypes' /\ Marked'
  <2>1. VPID' \subseteq 1..PID_CNT' /\ PID_CNT' \in 0..MaxPid /\ Marked'
    BY <1>1, <1>2, <1>3, <1>7, BoundsAssumption DEF TableTypes, Marked, Known, Pids
  <2>2. program' \in [Pids -> Programs \cup {<<>>}] BY <1>1, <1>3 DEF TableTypes
  <2> QED BY <1>1, <1>2, <1>3, <1>4, <2>1, <2>2, TouchTypes DEF TableTypes
<1>11. InFlight'
  <2>1. at' = "script" BY <1>3 DEF LoadToMM, control
  <2> QED BY <2>1 DEF InFlight
<1> QED BY <1>5, <1>6, <1>8, <1>9, <1>10, <1>11, TypePartsNext DEF IInv, Ledger

LEMMA LoadToVMKeeps ==
  ASSUME IInv, NEW n \in 1..MaxPages, NEW prog \in Programs, LoadToVM(n, prog)
  PROVE  IInv'
<1> DEFINE p == NextPid
<1>1. TypeOK /\ Known /\ Apart /\ Ledger /\ TableTypes BY TypeParts DEF IInv
<1>2. p \in Pids /\ p \notin VPID /\ p \notin in_mm /\ p \notin in_vm /\ p = PID_CNT + 1
  BY <1>1, BoundsAssumption DEF LoadToVM, NewProcess, NextPid, TableTypes, Pids, Known
<1> HIDE DEF p
<1>3. /\ VPID' = VPID \cup {p} /\ PID_CNT' = p
      /\ num_pg' = [num_pg EXCEPT ![p] = n] /\ program' = [program EXCEPT ![p] = prog]
      /\ PlaceVM(p, n) /\ UNCHANGED <<control, mmState, lru, MM>>
  BY DEF LoadToVM, NewProcess, p
<1>4. num_pg' \in [Pids -> 0..MaxPages] /\ \A q \in VPID : num_pg'[q] = num_pg[q]
  BY <1>1, <1>2, <1>3, BoundsAssumption DEF TableTypes
<1>5. /\ VMSound'
      /\ ffVM' \subseteq VMFrames /\ VM_FF_CNT' \in Int
      /\ VMPFNum' \in [Pids -> [PageNos -> VMFrames \cup {ERROR_ENTRY}]]
  <2>1. PlaceVM(p, num_pg'[p]) BY <1>1, <1>2, <1>3 DEF TableTypes
  <2> QED BY <1>1, <1>2, <1>3, <1>4, <2>1, PlaceVMKeeps DEF Ledger
<1>6. MMSound' /\ MMFull'
  <2>1. MMResident' = MMResident BY <1>2, <1>3 DEF MMResident, mmState
  <2> QED BY <1>1, <1>3, <1>4, <2>1 DEF Ledger, MMSound, MMFull, Sound, Full, MMResident,
    mmState
<1>7. in_vm' = in_vm \cup {p} /\ in_mm' = in_mm BY <1>3 DEF PlaceVM, mmState
<1>8. MemoryTypes' /\ Apart'
  BY <1>1, <1>2, <1>3, <1>5, <1>7 DEF MemoryTypes, TypeOK, mmState, Apart
<1>9. ControlTypes' /\ MM' \in [MMFrames -> Int]
  BY <1>1, <1>3, TypeParts DEF ControlTypes, control
<1>10. TableTypes' /\ Marked'
  <2>1. VPID' \subseteq 1..PID_CNT' /\ PID_CNT' \in 0..MaxPid /\ Marked'
    BY <1>1, <1>2, <1>3, <1>7, BoundsAssumption DEF TableTypes, Marked, Known, Pids
  <2>2. program' \in [Pids -> Programs \cup {<<>>}] BY <1>1, <1>3 DEF TableTypes
  <2> QED BY <1>1, <1>3, <1>4, <2>1, <2>2 DEF TableTypes, lru
<1>11. InFlight'
  <2>1. at' = "script" BY <1>3 DEF LoadToVM, control
  <2> QED BY <2>1 DEF InFlight
<1> QED BY <1>5, <1>6, <1>8, <1>9, <1>10, <1>11, TypePartsNext DEF IInv, Ledger

LEMMA KillKeeps ==
  ASSUME IInv, NEW p \in Pids, Kill(p)
  PROVE  IInv'
<1>1. TypeOK /\ Known /\ Apart /\ Ledger /\ TableTypes BY TypeParts DEF IInv
<1>2. /\ Ledger' /\ MemoryTypes'
      /\ in_mm' = in_mm \ {p} /\ in_vm' = in_vm \ {p}
  <2>1. p \in VPID /\ ReleaseFrames(p) /\ VPID' \in {VPID, VPID \ {p}} /\ UNCHANGED num_pg
    BY DEF Kill
  <2> QED BY <1>1, <2>1, ReleaseKeeps
<1>3. /\ VPID' \subseteq VPID /\ LRU_SET' \subseteq LRU_SET
      /\ UNCHANGED <<control, GLB_TIME, PID_CNT, num_pg, program, MM>>
  BY DEF Kill, RemoveSet
<1>4. ControlTypes' /\ MM' \in [MMFrames -> Int]
  BY <1>1, <1>3, TypeParts DEF ControlTypes, control
<1>5. TableTypes' /\ Marked' /\ Apart' BY <1>1, <1>2, <1>3 DEF TableTypes, Marked, Known, Apart
<1>6. InFlight'
  <2>1. at' = "script" BY <1>3 DEF Kill, control
  <2> QED BY <2>1 DEF InFlight
<1> QED BY <1>2, <1>4, <1>5, <1>6, TypePartsNext DEF IInv

\* swap_out_process() up to the search for a place in VM.
LEMMA FreeForSwapOutKeeps ==
  ASSUME IInv, NEW p \in VPID, FreeForSwapOut(p), cmd' \in {"none", "run", "swapin", "swapout"},
         cmd' # "swapout" => /\ cur \in VPID \ in_mm /\ p \notin in_vm
                             /\ MM_FF_CNT < num_pg[cur]
  PROVE  IInv'
<1>1. TypeOK /\ Known /\ Apart /\ Ledger /\ TableTypes /\ p \in Pids
  BY TypeParts, ValidPids DEF IInv
<1>2. /\ victim' = p /\ at' = "swapOutPlace" /\ LRU_SET' \subseteq LRU_SET
      /\ ReleaseFrames(p) /\ UNCHANGED <<cur, it, ip, GLB_TIME, table, MM>>
  BY DEF FreeForSwapOut, RemoveSet
<1>3. /\ Ledger' /\ MemoryTypes'
      /\ in_mm' = in_mm \ {p} /\ in_vm' = in_vm \ {p}
  BY <1>1, <1>2, ReleaseKeeps DEF table
<1>4. ControlTypes' /\ MM' \in [MMFrames -> Int] BY <1>1, <1>2, TypeParts DEF ControlTypes
<1>5. TableTypes' /\ Marked' /\ Apart'
  BY <1>1, <1>2, <1>3 DEF TableTypes, Marked, Known, Apart, table
<1>6. ASSUME cmd' # "swapout", p = cur PROVE MM_FF_CNT' = MM_FF_CNT
  BY <1>2, <1>6 DEF ReleaseFrames, mmState
<1>7. InFlight' BY <1>2, <1>3, <1>6 DEF InFlight, table
<1> QED BY <1>3, <1>4, <1>5, <1>7, TypePartsNext DEF IInv

\* Where swap_out_process() returns to.
LEMMA AdvanceTypes ==
  ASSUME TableTypes, Advance
  PROVE  it' \in Nat \X (Pids \cup {0}) /\ at' \in {"evict", "swapInPlace", "crashed"}
<1>1. LRU_SET \subseteq Nat \X (Pids \cup {0}) BY DEF TableTypes
<1> QED BY <1>1 DEF Advance, NoEntry

LEMMA ReturnTypes ==
  ASSUME Return
  PROVE  /\ at' = "script" /\ cmd' = "none" /\ cur' = 0 /\ victim' = 0 /\ ip' = 1
         /\ ControlTypes' /\ InFlight'
BY DEF Return, NoEntry, ControlTypes, InFlight

LEMMA SwapOutPlaceKeeps ==
  ASSUME IInv, SwapOutPlace
  PROVE  IInv'
<1>1. TypeOK /\ Known /\ Apart /\ Ledger /\ ControlTypes /\ TableTypes /\ Marked
      /\ MM \in [MMFrames -> Int]
  BY TypeParts DEF IInv
<1>2. /\ at = "swapOutPlace" /\ victim \in VPID /\ victim \notin in_mm
      /\ UNCHANGED <<lru, table, MM>>
  BY DEF SwapOutPlace, IInv, InFlight
<1>3. PICK pass \in BOOLEAN :
        /\ ReturnFromSwapOut(pass)
        /\ pass => LoadIntoVM(victim)
        /\ ~pass => LoadIntoMM(victim)
  BY DEF SwapOutPlace
<1>4. /\ Ledger' /\ Apart' /\ MemoryTypes'
      /\ in_mm' \subseteq in_mm \cup {victim} /\ in_vm' \subseteq in_vm \cup {victim}
      /\ cmd # "swapout" /\ victim = cur => in_mm' = in_mm
  <2>1. CASE pass BY <1>1, <1>2, <1>3, <2>1, LoadIntoVMKeeps DEF table
  <2>2. CASE ~pass
    <3>1. /\ Ledger' /\ Apart' /\ MemoryTypes'
          /\ in_mm' \subseteq in_mm \cup {victim} /\ in_vm' \subseteq in_vm
          /\ MM_FF_CNT < num_pg[victim] => UNCHANGED <<mmState, vmState>>
      BY <1>1, <1>2, <1>3, <2>2, LoadIntoMMKeeps DEF table
    <3>2. cmd # "swapout" /\ victim = cur => in_mm' = in_mm
      BY <1>2, <3>1 DEF IInv, InFlight, mmState
    <3> QED BY <3>1, <3>2
  <2> QED BY <2>1, <2>2
<1>5. TableTypes' /\ Marked' /\ MM' \in [MMFrames -> Int]
  BY <1>1, <1>2, <1>4 DEF TableTypes, Marked, lru, table
<1>6. ControlTypes' /\ InFlight'
  <2>1. CASE cmd = "swapout" BY <1>3, <2>1, ReturnTypes DEF ReturnFromSwapOut
  <2>2. CASE cmd # "swapout"
    <3>1. /\ UNCHANGED <<cmd, cur, ip>> /\ victim' = 0
          /\ it' \in Nat \X (Pids \cup {0}) /\ at' \in {"evict", "swapInPlace", "crashed"}
      BY <1>1, <1>3, <2>2, AdvanceTypes DEF ReturnFromSwapOut, NoEntry
    <3>2. cur \in VPID \ in_mm' BY <1>2, <1>4, <2>2 DEF IInv, InFlight
    <3> QED BY <1>1, <1>2, <2>2, <3>1, <3>2 DEF ControlTypes, InFlight, table
  <2> QED BY <2>1, <2>2
<1> QED BY <1>4, <1>5, <1>6, TypePartsNext DEF IInv

LEMMA SwapInKeeps ==
  ASSUME IInv, NEW p \in Pids, NEW c \in {"swapin", "run"}, SwapIn(p, c)
  PROVE  IInv'
<1>1. TypeOK /\ Known /\ Apart /\ Ledger /\ ControlTypes /\ TableTypes BY TypeParts DEF IInv
<1>2. /\ p \in VPID /\ p \notin in_mm /\ cmd' = c /\ cur' = p /\ LRU_SET' \subseteq LRU_SET
      /\ ReleaseFrames(p) /\ UNCHANGED <<victim, ip, GLB_TIME, table, MM>>
      /\ at' \in {"evict", "swapInPlace"} /\ it' \in LRU_SET' \cup {NoEntry}
  BY DEF SwapIn, RemoveSet
<1>3. /\ Ledger' /\ MemoryTypes'
      /\ in_mm' = in_mm \ {p} /\ in_vm' = in_vm \ {p}
  BY <1>1, <1>2, ReleaseKeeps DEF table
<1>4. ControlTypes' /\ MM' \in [MMFrames -> Int]
  <2>1. it' \in Nat \X (Pids \cup {0}) BY <1>1, <1>2 DEF TableTypes, NoEntry
  <2> QED BY <1>1, <1>2, <2>1, TypeParts DEF ControlTypes
<1>5. TableTypes' /\ Marked' /\ Apart'
  BY <1>1, <1>2, <1>3 DEF TableTypes, Marked, Known, Apart, table
<1>6. InFlight' BY <1>2, <1>3 DEF InFlight, table
<1> QED BY <1>3, <1>4, <1>5, <1>6, TypePartsNext DEF IInv

LEMMA EvictVictimKeeps ==
  ASSUME IInv, EvictVictim
  PROVE  IInv'
<1>1. /\ at = "evict" /\ MM_FF_CNT < num_pg[cur] /\ it[2] \in VPID /\ it[2] \notin in_vm
      /\ FreeForSwapOut(it[2]) /\ UNCHANGED cmd
  BY DEF EvictVictim
<1>2. cmd # "swapout" /\ cur \in VPID \ in_mm BY <1>1 DEF IInv, InFlight
<1>3. cmd' = cmd /\ cmd \in {"none", "run", "swapin", "swapout"} BY <1>1 DEF IInv, TypeOK
<1> QED BY <1>1, <1>2, <1>3, FreeForSwapOutKeeps

\* Actions that leave the memories, the table and the words alone.
LEMMA ControlKeeps ==
  ASSUME IInv, UNCHANGED <<mmState, vmState, lru, table, MM>>, ControlTypes', InFlight'
  PROVE  IInv'
<1>1. TypeOK /\ Known /\ Apart /\ Ledger /\ TableTypes /\ Marked /\ MM \in [MMFrames -> Int]
  BY TypeParts DEF IInv
<1>2. Ledger' /\ Apart' /\ MemoryTypes' BY <1>1, SameMemories DEF table
<1>3. TableTypes' /\ Marked' /\ MM' \in [MMFrames -> Int]
  BY <1>1 DEF TableTypes, Marked, mmState, vmState, lru, table
<1> QED BY <1>2, <1>3, TypePartsNext DEF IInv

LEMMA EvictKeeps ==
  ASSUME IInv, EvictEnough \/ EvictSkip
  PROVE  IInv'
<1>1. /\ at = "evict" /\ UNCHANGED <<cmd, cur, victim, ip, mmState, vmState, lru, table, MM>>
      /\ (at' = "swapInPlace" /\ it' = NoEntry) \/ Advance
  BY DEF EvictEnough, EvictSkip
<1>2. ControlTypes /\ TableTypes BY TypeParts DEF IInv
<1>3. it' \in Nat \X (Pids \cup {0}) /\ at' \in {"evict", "swapInPlace", "crashed"}
  BY <1>1, <1>2, AdvanceTypes DEF NoEntry
<1>4. ControlTypes' /\ InFlight'
  BY <1>1, <1>2, <1>3 DEF ControlTypes, IInv, InFlight, mmState, table
<1> QED BY <1>1, <1>4, ControlKeeps

LEMMA SwapInPlaceKeeps ==
  ASSUME IInv, SwapInPlace
  PROVE  IInv'
<1>1. TypeOK /\ Known /\ Apart /\ Ledger /\ TableTypes /\ Marked /\ MM \in [MMFrames -> Int]
  BY TypeParts DEF IInv
<1>2. /\ cur \in VPID /\ cur \notin in_mm /\ cur \in Pids
      /\ LoadIntoMM(cur) /\ Touch(cur) /\ Return /\ UNCHANGED <<table, MM>>
  BY <1>1, ValidPids DEF SwapInPlace, IInv, InFlight
<1>3. /\ Ledger' /\ Apart' /\ MemoryTypes'
      /\ in_mm' \subseteq in_mm \cup {cur} /\ in_vm' \subseteq in_vm
  BY <1>1, <1>2, LoadIntoMMKeeps DEF table
<1>4. TableTypes' /\ Marked' /\ MM' \in [MMFrames -> Int]
  BY <1>1, <1>2, <1>3, TouchTypes DEF TableTypes, Marked, table
<1> QED BY <1>2, <1>3, <1>4, ReturnTypes, TypePartsNext DEF IInv

LEMMA SwapInFailsKeeps ==
  ASSUME IInv, SwapInFails
  PROVE  IInv'
<1>1. TypeOK /\ Known /\ Apart /\ Ledger /\ TableTypes /\ Marked /\ MM \in [MMFrames -> Int]
  BY TypeParts DEF IInv
<1>2. /\ cur \in VPID /\ cur \notin in_mm /\ cur \in Pids
      /\ LoadIntoVM(cur) /\ Return /\ UNCHANGED <<lru, table, MM>>
  BY <1>1, ValidPids DEF SwapInFails, IInv, InFlight
<1>3. /\ Ledger' /\ Apart' /\ MemoryTypes'
      /\ in_mm' = in_mm /\ in_vm' \subseteq in_vm \cup {cur}
  BY <1>1, <1>2, LoadIntoVMKeeps DEF table
<1>4. TableTypes' /\ Marked' /\ MM' \in [MMFrames -> Int]
  BY <1>1, <1>2, <1>3 DEF TableTypes, Marked, table, lru
<1> QED BY <1>2, <1>3, <1>4, ReturnTypes, TypePartsNext DEF IInv

LEMMA RunKeeps ==
  ASSUME IInv, NEW p \in Pids, Run(p)
  PROVE  IInv'
<1>1. TypeOK /\ Known /\ Apart /\ Ledger /\ ControlTypes /\ TableTypes /\ Marked
      /\ MM \in [MMFrames -> Int]
  BY TypeParts DEF IInv
<1>2. /\ p \in VPID /\ Touch(p) /\ at' = "run" /\ cmd' = "run" /\ cur' = p /\ ip' = 1
      /\ UNCHANGED <<victim, it, mmState, vmState, table, MM>>
  BY DEF Run
<1>3. Ledger' /\ Apart' /\ MemoryTypes' BY <1>1, <1>2, SameMemories DEF table
<1>4. TableTypes' /\ Marked' /\ ControlTypes' /\ InFlight'
  <2>1. VPID' = VPID BY <1>2 DEF table
  <2>2. TableTypes' /\ Marked'
    BY <1>1, <1>2, TouchTypes DEF TableTypes, Marked, mmState, vmState, table
  <2> QED BY <1>1, <1>2, <2>1, <2>2 DEF ControlTypes, InFlight
<1> QED BY <1>1, <1>2, <1>3, <1>4, TypePartsNext DEF IInv

\* What an instruction that stores stores, and where.
LEMMA StoreTypes ==
  ASSUME IInv, Fetching, Stores
  PROVE  /\ Target \in Pages(cur) /\ cur \in MMResident
         /\ MMPFNum[cur][Target] \in MMFrames /\ Result \in Int
<1>1. /\ cur \in VPID /\ cur \in in_mm /\ cur \in MMResident /\ cur \in Pids
      /\ ip \in Nat \ {0} /\ program[cur] \in Programs \cup {<<>>} /\ num_pg[cur] \in Nat
      /\ MM \in [MMFrames -> Int]
  BY ValidPids DEF IInv, InFlight, Fetching, Stores, MMResident, Known, TypeOK
<1>2. Instr \in Instructions BY <1>1, ProgramsAssumption DEF Fetching, Instr
<1>3. /\ Instr.op \in {"load", "add", "sub"} /\ Instr.val \in Int /\ Instr.adr \in Seq(Nat)
      /\ Instr.op = "load" => Len(Instr.adr) = 1
      /\ Instr.op \in {"add", "sub"} => Len(Instr.adr) = 3
      /\ \A k \in DOMAIN Instr.adr : Instr.adr[k] < num_pg[cur]
  BY <1>2 DEF Instructions, Stores
<1> DEFINE adr == Instr.adr
           op == Instr.op
<1>4. \A k \in 1..Len(adr) : adr[k] \in Pages(cur) BY <1>1, <1>3 DEF Pages
<1>5. \A a \in Pages(cur) : MMPFNum[cur][a] \in MMFrames /\ Word(a) \in Int
  <2>1. Sound(MMResident, MMPFNum, num_pg, ffMM, MMFrames) BY DEF IInv, Ledger, MMSound
  <2> QED BY <1>1, <2>1 DEF Sound, Pages, Word
<1>6. Len(adr) \in {1, 3} /\ Target \in Pages(cur)
  <2>1. Len(adr) \in {1, 3} BY <1>3
  <2> QED BY <1>4, <2>1 DEF Target
<1>7. Result \in Int
  <2>1. op \in {"add", "sub"} => Word(adr[1]) \in Int /\ Word(adr[2]) \in Int
    BY <1>3, <1>4, <1>5
  <2> HIDE DEF adr, op
  <2> QED BY <1>3, <2>1 DEF Result, adr, op
<1> QED BY <1>1, <1>5, <1>6, <1>7

LEMMA ExecuteKeeps ==
  ASSUME IInv, Execute
  PROVE  IInv'
<1>1. TypeOK /\ Known /\ Apart /\ Ledger /\ ControlTypes /\ TableTypes /\ Marked
      /\ MM \in [MMFrames -> Int]
  BY TypeParts DEF IInv
<1>2. /\ Fetching /\ at = "run" /\ ip' = ip + 1
      /\ UNCHANGED <<at, cmd, cur, victim, it, mmState, vmState, lru, table>>
      /\ MM' = IF Stores THEN [MM EXCEPT ![MMPFNum[cur][Target]] = Result] ELSE MM
  BY DEF Execute, Fetching
<1>3. Ledger' /\ Apart' /\ MemoryTypes' BY <1>1, <1>2, SameMemories DEF table
<1>4. MM' \in [MMFrames -> Int] BY <1>1, <1>2, StoreTypes
<1>5. TableTypes' /\ Marked' /\ ControlTypes' /\ InFlight'
  <2>1. TableTypes' /\ Marked'
    BY <1>1, <1>2 DEF TableTypes, Marked, mmState, vmState, lru, table
  <2>2. ControlTypes' BY <1>1, <1>2 DEF ControlTypes
  <2>3. InFlight' BY <1>2 DEF InFlight, IInv, table
  <2> QED BY <2>1, <2>2, <2>3
<1> QED BY <1>3, <1>4, <1>5, TypePartsNext DEF IInv

LEMMA ExitKeeps ==
  ASSUME IInv, Exit
  PROVE  IInv'
<1>1. TypeOK /\ Known /\ ControlTypes /\ TableTypes /\ Marked BY TypeParts DEF IInv
<1>2. /\ at = "script" /\ UNCHANGED <<control, in_mm, in_vm, PID_CNT, num_pg, program,
                                      MMPFNum, VMPFNum>>
      /\ ffMM' = MMFrames /\ MM_FF_CNT' = MM_PG_CNT
      /\ ffVM' = VMFrames /\ VM_FF_CNT' = VM_PG_CNT
      /\ VPID' = {} /\ LRU_SET' = {} /\ GLB_TIME' = 0
      /\ MM' = [f \in MMFrames |-> Erased]
  BY DEF Exit
<1>3. MM_PG_CNT = Cardinality(MMFrames) /\ VM_PG_CNT = Cardinality(VMFrames)
  BY FramesAssumption, FS_Interval DEF MMFrames, VMFrames
<1>4. Ledger' /\ Apart'
  BY <1>2, <1>3 DEF Ledger, MMSound, VMSound, MMFull, Sound, Full, MMResident, VMResident, Apart
<1>5. MemoryTypes' /\ MM' \in [MMFrames -> Int]
  BY <1>1, <1>2, FramesAssumption DEF TypeOK, MemoryTypes, Erased
<1>6. TableTypes' /\ Marked' /\ ControlTypes' /\ InFlight'
  BY <1>1, <1>2 DEF TableTypes, Marked, ControlTypes, InFlight, control
<1> QED BY <1>4, <1>5, <1>6, TypePartsNext DEF IInv

\* The rest of the program only moves on.
LEMMA MovesKeep ==
  ASSUME IInv, BadInstruction \/ RunOver \/ UnknownCommand \/ NextCommand \/ EndOfScript
  PROVE  IInv'
<1>1. ControlTypes BY TypeParts DEF IInv
<1>2. CASE BadInstruction \/ RunOver
  BY <1>2, ReturnTypes, ControlKeeps DEF BadInstruction, RunOver
<1>3. CASE UnknownCommand \/ NextCommand \/ EndOfScript
  <2>1. /\ at' \in {"script", "unknown", "over"}
        /\ UNCHANGED <<cmd, cur, victim, it, ip, mmState, vmState, lru, table, MM>>
    BY <1>3 DEF UnknownCommand, NextCommand, EndOfScript
  <2>2. ControlTypes' /\ InFlight' BY <1>1, <2>1 DEF ControlTypes, InFlight
  <2> QED BY <2>1, <2>2, ControlKeeps
<1> QED BY <1>2, <1>3

LEMMA NextIInv == IInv /\ [Next]_vars => IInv'
<1> SUFFICES ASSUME IInv, [Next]_vars PROVE IInv'
  OBVIOUS
<1>1. ASSUME NEW n \in 1..MaxPages, NEW prog \in Programs,
             LoadToMM(n, prog) \/ LoadToVM(n, prog)
      PROVE  IInv'
  BY <1>1, LoadToMMKeeps, LoadToVMKeeps
<1>2. ASSUME NEW p \in Pids, Kill(p) \/ Run(p) PROVE IInv' BY <1>2, KillKeeps, RunKeeps
<1>3. ASSUME NEW p \in Pids, SwapOut(p) PROVE IInv' BY <1>3, FreeForSwapOutKeeps DEF SwapOut
<1>4. ASSUME NEW p \in Pids, NEW c \in {"swapin", "run"}, SwapIn(p, c) PROVE IInv'
  BY <1>4, SwapInKeeps
<1>5. ASSUME SwapOutPlace \/ EvictEnough \/ EvictSkip \/ EvictVictim PROVE IInv'
  BY <1>5, SwapOutPlaceKeeps, EvictKeeps, EvictVictimKeeps
<1>6. ASSUME SwapInPlace \/ SwapInFails \/ Execute \/ Exit PROVE IInv'
  BY <1>6, SwapInPlaceKeeps, SwapInFailsKeeps, ExecuteKeeps, ExitKeeps
<1>7. ASSUME BadInstruction \/ RunOver \/ UnknownCommand \/ NextCommand \/ EndOfScript
      PROVE  IInv'
  BY <1>7, MovesKeep
<1>8. ASSUME UNCHANGED vars PROVE IInv'
  <2>1. ControlTypes' /\ InFlight'
    BY <1>8, TypeParts DEF IInv, ControlTypes, InFlight, vars, control, mmState, vmState, table
  <2> QED BY <1>8, <2>1, ControlKeeps DEF vars
<1> QED BY <1>1, <1>2, <1>3, <1>4, <1>5, <1>6, <1>7, <1>8 DEF Next, Command, Continue, Stopped

-----
\* The theorems.
LEMMA Invariance == Spec => []IInv
BY InitIInv, NextIInv, PTL DEF Spec

\* The variables stay in their types; above all, every entry of a page table is a
\* frame of its memory, and every word is a number.
THEOREM TypeCorrect == Spec => []TypeOK
<1>1. IInv => TypeOK BY DEF IInv
<1> QED BY Invariance, <1>1, PTL

\* get_freloc(), kill_process() and free_process() keep MM_FF_CNT and VM_FF_CNT
\* equal to the numbers of free frames, through failed swaps too.
THEOREM CountsExact == Spec => []CountsMatch
<1>1. IInv => CountsMatch BY DEF IInv, Ledger, MMSound, VMSound, CountsMatch
<1> QED BY Invariance, <1>1, PTL

\* No two pages of resident processes share a frame, and none of their frames is
\* marked free.
THEOREM Exclusive == Spec => []FramesExclusive
<1>1. IInv => FramesExclusive
  BY DEF IInv, Ledger, MMSound, VMSound, Sound, FramesExclusive, MMOwned, VMOwned, Pages,
    MMResident, VMResident
<1> QED BY Invariance, <1>1, PTL

\* Main memory does not leak: who is not free is a resident process's.
THEOREM Conserved == Spec => []MMConserved
<1>1. IInv => MMConserved BY DEF IInv, Ledger, MMFull, Full, MMConserved, MMOwned, Pages
<1> QED BY Invariance, <1>1, PTL

\* Process::load, add and sub reach, through get_real_addr(), no word of another
\* process in main memory.
THEOREM Isolation == Spec => WordsIsolated
<1> DEFINE Elsewhere == \A p \in MMResident : (at = "run" /\ cur # p) =>
                  \A k \in Pages(p) : MM'[MMPFNum[p][k]] = MM[MMPFNum[p][k]]
<1>1. IInv /\ [Next]_vars => [Elsewhere]_vars
  <2> SUFFICES ASSUME IInv, Next, at = "run", NEW p \in MMResident, cur # p, NEW k \in Pages(p)
               PROVE  MM'[MMPFNum[p][k]] = MM[MMPFNum[p][k]]
    BY DEF vars
  <2>1. CASE Execute /\ Stores
    <3>1. /\ Target \in Pages(cur) /\ cur \in MMResident /\ MMPFNum[cur][Target] \in MMFrames
          /\ MM' = [MM EXCEPT ![MMPFNum[cur][Target]] = Result]
      BY <2>1, StoreTypes DEF Execute
    <3>2. MMPFNum[p][k] # MMPFNum[cur][Target] /\ MMPFNum[p][k] \in MMFrames
      BY <3>1 DEF IInv, Ledger, MMSound, Sound, Pages
    <3> QED BY <3>1, <3>2 DEF IInv, TypeOK
  <2>2. CASE ~(Execute /\ Stores)
    <3>1. UNCHANGED MM
      BY <2>2 DEF Next, Command, Continue, Stopped, vars, LoadToMM, LoadToVM, Kill, Run,
        SwapOut, FreeForSwapOut, SwapIn, Exit, UnknownCommand, EndOfScript, SwapOutPlace,
        EvictEnough, EvictSkip, EvictVictim, SwapInPlace, SwapInFails, Execute, BadInstruction,
        RunOver, NextCommand
    <3> QED BY <3>1
  <2> QED BY <2>1, <2>2
<1> QED BY Invariance, <1>1, PTL DEF Spec, WordsIsolated

-----
\* XvMem, for any number of processes and frames, page-table pages and
\* pages of any size, and any programs: every frame has one owner at every
\* moment, page tables are trees, and what a process has mapped is its
\* size, on every way out of a call that fails for want of a frame too.

-----
\* Addresses, and the pages of a size.
\* The division that PX() takes addresses apart with.
LEMMA Division ==
  ASSUME NEW a \in Int, NEW b \in Nat \ {0}
  PROVE  /\ a % b \in 0 .. b - 1 /\ a \div b \in Int
         /\ a = b * (a \div b) + (a % b)
OBVIOUS

\* Quotient and remainder are the only ones.
LEMMA Quotient ==
  ASSUME NEW b \in Nat \ {0}, NEW q \in Int, NEW r \in 0 .. b - 1, NEW a \in Int, a = b * q + r
  PROVE  a \div b = q /\ a % b = r
OBVIOUS

\* An address as three digits.
LEMMA Digits ==
  ASSUME NEW x \in 0 .. FANOUT - 1, NEW y \in 0 .. FANOUT - 1, NEW z \in 0 .. FANOUT - 1, NEW va \in Int,
         va = (x * FANOUT + y) * FANOUT + z
  PROVE  PX(2, va) = x /\ PX(1, va) = y /\ PX(0, va) = z
<1>1. FANOUT \in Nat \ {0} /\ FANOUT * FANOUT \in Nat \ {0} BY MemAssumption
<1>2. x * FANOUT + y \in Int /\ y * FANOUT + z \in Int /\ va = FANOUT * (x * FANOUT + y) + z
  BY <1>1
<1>3. va \div FANOUT = x * FANOUT + y /\ va % FANOUT = z BY <1>1, <1>2, Quotient
<1>4. (x * FANOUT + y) % FANOUT = y BY <1>1, Quotient
<1>5. y * FANOUT + z \in 0 .. FANOUT * FANOUT - 1
  <2>1. y * FANOUT + z <= (FANOUT - 1) * FANOUT + (FANOUT - 1) BY <1>1
  <2>2. y * FANOUT >= 0 BY <1>1
  <2> QED BY <1>1, <2>1, <2>2
<1>6. va = (FANOUT * FANOUT) * x + (y * FANOUT + z) BY <1>1, <1>2
<1>7. va \div (FANOUT * FANOUT) = x BY <1>1, <1>2, <1>5, <1>6, Quotient
<1>8. x % FANOUT = x BY <1>1, Quotient
<1>9. va \div 1 = va OBVIOUS
<1>10. Span(2) = FANOUT * FANOUT /\ Span(1) = FANOUT /\ Span(0) = 1 BY DEF Span
<1> QED BY <1>3, <1>4, <1>7, <1>8, <1>9, <1>10 DEF PX

\* Every address has three digits in base FANOUT: its indexes into the three tables.
LEMMA DigitsOf ==
  ASSUME NEW va \in Addresses
  PROVE  \E x, y, z \in 0 .. FANOUT - 1 : va = (x * FANOUT + y) * FANOUT + z
<1>1. FANOUT \in Nat \ {0} /\ va \in Nat /\ va < FANOUT * FANOUT * FANOUT
  BY MemAssumption DEF Addresses, TRAMPOLINE
<1> DEFINE q == va \div FANOUT
           z == va % FANOUT
           x == q \div FANOUT
           y == q % FANOUT
<1>2. q \in Int /\ z \in 0 .. FANOUT - 1 /\ va = FANOUT * q + z BY <1>1, Division
<1>3. x \in Int /\ y \in 0 .. FANOUT - 1 /\ q = FANOUT * x + y BY <1>1, <1>2, Division
<1> HIDE DEF q, x, y, z
<1>4. q >= 0
  <2>1. q < 0 => FANOUT * q <= - FANOUT BY <1>1, <1>2
  <2> QED BY <1>1, <1>2, <2>1
<1>5. x >= 0
  <2>1. x < 0 => FANOUT * x <= - FANOUT BY <1>1, <1>3
  <2> QED BY <1>1, <1>3, <1>4, <2>1
<1>6. q < FANOUT * FANOUT
  <2>1. q >= FANOUT * FANOUT => FANOUT * q >= FANOUT * (FANOUT * FANOUT) BY <1>1, <1>2
  <2> QED BY <1>1, <1>2, <2>1
<1>7. x < FANOUT
  <2>1. x >= FANOUT => FANOUT * x >= FANOUT * FANOUT BY <1>1, <1>3
  <2> QED BY <1>1, <1>3, <1>6, <2>1
<1>8. va = q * FANOUT + z /\ q = x * FANOUT + y BY <1>1, <1>2, <1>3
<1>9. va = (x * FANOUT + y) * FANOUT + z
  <2> DEFINE t == x * FANOUT + y
  <2>1. q = t BY <1>8
  <2> HIDE DEF t
  <2>2. va = t * FANOUT + z BY <1>8, <2>1
  <2> QED BY <2>2 DEF t
<1>10. x \in 0 .. FANOUT - 1 /\ y \in 0 .. FANOUT - 1 /\ z \in 0 .. FANOUT - 1
  BY <1>1, <1>2, <1>3, <1>5, <1>7
<1> QED BY <1>9, <1>10, Zenon

\* PX() gives an index into a page-table page.
LEMMA PxIn ==
  ASSUME NEW va \in Addresses
  PROVE  PX(2, va) \in Entries /\ PX(1, va) \in Entries /\ PX(0, va) \in Entries
<1>1. va \in Int BY MemAssumption DEF Addresses
<1>2. PICK x, y, z \in 0 .. FANOUT - 1 : va = (x * FANOUT + y) * FANOUT + z BY DigitsOf
<1> QED BY <1>1, <1>2, Digits DEF Entries

\* The three indexes of PX() tell addresses apart.
LEMMA PxTells ==
  ASSUME NEW va \in Addresses, NEW vb \in Addresses,
         PX(2, va) = PX(2, vb), PX(1, va) = PX(1, vb), PX(0, va) = PX(0, vb)
  PROVE  va = vb
<1>1. va \in Int /\ vb \in Int BY MemAssumption DEF Addresses
<1>2. PICK x, y, z \in 0 .. FANOUT - 1 : va = (x * FANOUT + y) * FANOUT + z BY DigitsOf
<1>3. PICK u, v, w \in 0 .. FANOUT - 1 : vb = (u * FANOUT + v) * FANOUT + w BY DigitsOf
<1>4. x = u /\ y = v /\ z = w BY <1>1, <1>2, <1>3, Digits
<1> QED BY <1>2, <1>3, <1>4

\* TRAMPOLINE and TRAPFRAME share their page-table pages; page 0 is first in all three.
LEMMA PxTop ==
  /\ TRAMPOLINE \in Addresses /\ TRAPFRAME \in Addresses /\ 0 \in Addresses /\ TRAMPOLINE # TRAPFRAME
  /\ PX(2, TRAMPOLINE) = FANOUT - 1 /\ PX(1, TRAMPOLINE) = FANOUT - 1 /\ PX(0, TRAMPOLINE) = FANOUT - 1
  /\ PX(2, TRAPFRAME) = FANOUT - 1 /\ PX(1, TRAPFRAME) = FANOUT - 1 /\ PX(0, TRAPFRAME) = FANOUT - 2
  /\ PX(2, 0) = 0 /\ PX(1, 0) = 0 /\ PX(0, 0) = 0
<1>1. FANOUT \in Nat /\ FANOUT > 1 BY MemAssumption
<1>2. TRAMPOLINE = ((FANOUT - 1) * FANOUT + (FANOUT - 1)) * FANOUT + (FANOUT - 1)
  BY <1>1 DEF TRAMPOLINE
<1>3. TRAPFRAME = ((FANOUT - 1) * FANOUT + (FANOUT - 1)) * FANOUT + (FANOUT - 2)
  BY <1>1, <1>2 DEF TRAPFRAME
<1>4. FANOUT * FANOUT > 1 /\ FANOUT * FANOUT \in Nat BY <1>1
<1>5. FANOUT * FANOUT * FANOUT > 2
  <2>1. (FANOUT * FANOUT) * FANOUT >= 2 * FANOUT BY <1>1, <1>4
  <2> QED BY <1>1, <2>1
<1>6. TRAMPOLINE \in Int /\ TRAMPOLINE > 1 BY <1>1, <1>4, <1>5 DEF TRAMPOLINE
<1>7. TRAMPOLINE \in Addresses /\ TRAPFRAME \in Addresses /\ 0 \in Addresses /\ TRAMPOLINE # TRAPFRAME
  BY <1>6 DEF Addresses, TRAPFRAME
<1>8. FANOUT - 1 \in 0 .. FANOUT - 1 /\ FANOUT - 2 \in 0 .. FANOUT - 1 /\ 0 \in 0 .. FANOUT - 1
      /\ TRAPFRAME \in Int
  BY <1>1, <1>6 DEF TRAPFRAME
<1>9. PX(2, 0) = 0 /\ PX(1, 0) = 0 /\ PX(0, 0) = 0 BY <1>1, <1>8, Digits
<1>10. PX(2, TRAMPOLINE) = FANOUT - 1 /\ PX(1, TRAMPOLINE) = FANOUT - 1 /\ PX(0, TRAMPOLINE) = FANOUT - 1
  BY <1>2, <1>6, <1>8, Digits
<1>11. PX(2, TRAPFRAME) = FANOUT - 1 /\ PX(1, TRAPFRAME) = FANOUT - 1 /\ PX(0, TRAPFRAME) = FANOUT - 2
  BY <1>3, <1>8, Digits
<1> QED BY <1>7, <1>9, <1>10, <1>11

\* Sizes and pages.
LEMMA PagesAre ==
  ASSUME NEW n \in Nat
  PROVE  PagesOf(n) \in Nat /\ n <= PagesOf(n) * PGSIZE /\ PagesOf(n) * PGSIZE < n + PGSIZE
         /\ PGROUNDUP(n) = PagesOf(n) * PGSIZE
<1>1. PGSIZE \in Nat \ {0} /\ n + PGSIZE - 1 \in Nat BY MemAssumption
<1> DEFINE k == (n + PGSIZE - 1) \div PGSIZE
           r == (n + PGSIZE - 1) % PGSIZE
<1>2. k \in Int /\ r \in 0 .. PGSIZE - 1 /\ n + PGSIZE - 1 = PGSIZE * k + r BY <1>1, Division
<1>3. PGROUNDUP(n) = k * PGSIZE BY DEF PGROUNDUP
<1> HIDE DEF k, r
<1>4. k * PGSIZE \in Int /\ k * PGSIZE = PGSIZE * k + 0 /\ 0 \in 0 .. PGSIZE - 1 BY <1>1, <1>2
<1>5. (k * PGSIZE) \div PGSIZE = k BY <1>1, <1>2, <1>4, Quotient
<1>6. PagesOf(n) = k BY <1>3, <1>5 DEF PagesOf
<1>7. k >= 0
  <2>1. k < 0 => PGSIZE * k <= - PGSIZE BY <1>1, <1>2
  <2> QED BY <1>1, <1>2, <2>1
<1> QED BY <1>1, <1>2, <1>3, <1>4, <1>6, <1>7

\* PagesOf() is the only number of pages that fits.
LEMMA PagesIs ==
  ASSUME NEW n \in Nat, NEW k \in Nat, n <= k * PGSIZE, k * PGSIZE < n + PGSIZE
  PROVE  PagesOf(n) = k
<1>1. PGSIZE \in Nat \ {0} BY MemAssumption
<1> DEFINE m == PagesOf(n)
<1>2. m \in Nat /\ n <= m * PGSIZE /\ m * PGSIZE < n + PGSIZE BY PagesAre
<1> HIDE DEF m
<1>3. k < m => (k + 1) * PGSIZE <= m * PGSIZE BY <1>1, <1>2
<1>4. m < k => (m + 1) * PGSIZE <= k * PGSIZE BY <1>1, <1>2
<1>5. (k + 1) * PGSIZE = k * PGSIZE + PGSIZE /\ (m + 1) * PGSIZE = m * PGSIZE + PGSIZE
  BY <1>1, <1>2
<1>6. k * PGSIZE \in Int /\ m * PGSIZE \in Int BY <1>1, <1>2
<1>7. m = k BY <1>1, <1>2, <1>3, <1>4, <1>5, <1>6
<1> QED BY <1>7 DEF m

\* More bytes take no fewer pages.
LEMMA PagesGrow ==
  ASSUME NEW m \in Nat, NEW n \in Nat, m <= n
  PROVE  PagesOf(m) <= PagesOf(n)
<1>1. PGSIZE \in Nat \ {0} BY MemAssumption
<1> DEFINE a == PagesOf(m)
           b == PagesOf(n)
<1>2. a \in Nat /\ b \in Nat /\ a * PGSIZE < m + PGSIZE /\ n <= b * PGSIZE BY PagesAre
<1> HIDE DEF a, b
<1>3. b < a => (b + 1) * PGSIZE <= a * PGSIZE BY <1>1, <1>2
<1>4. (b + 1) * PGSIZE = b * PGSIZE + PGSIZE /\ b * PGSIZE \in Int /\ a * PGSIZE \in Int
  BY <1>1, <1>2
<1>5. a <= b BY <1>1, <1>2, <1>3, <1>4
<1> QED BY <1>5 DEF a, b

\* k pages are enough for n bytes, or the next one begins within them.
LEMMA PagesCover ==
  ASSUME NEW n \in Nat, NEW k \in Nat
  PROVE  (k * PGSIZE < n) <=> k < PagesOf(n)
<1>1. PGSIZE \in Nat \ {0} BY MemAssumption
<1> DEFINE b == PagesOf(n)
<1>2. b \in Nat /\ n <= b * PGSIZE /\ b * PGSIZE < n + PGSIZE BY PagesAre
<1> HIDE DEF b
<1>3. k < b => (k + 1) * PGSIZE <= b * PGSIZE BY <1>1, <1>2
<1>4. b <= k => b * PGSIZE <= k * PGSIZE BY <1>1, <1>2
<1>5. (k + 1) * PGSIZE = k * PGSIZE + PGSIZE /\ b * PGSIZE \in Int /\ k * PGSIZE \in Int
  BY <1>1, <1>2
<1>6. (k * PGSIZE < n) <=> k < b BY <1>1, <1>2, <1>3, <1>4, <1>5
<1> QED BY <1>6 DEF b

\* k whole pages.
LEMMA PagesExact ==
  ASSUME NEW k \in Nat
  PROVE  PagesOf(k * PGSIZE) = k /\ k * PGSIZE \in Nat /\ (k * PGSIZE) % PGSIZE = 0
         /\ (k * PGSIZE) \div PGSIZE = k /\ PGROUNDUP(k * PGSIZE) = k * PGSIZE
<1>1. PGSIZE \in Nat \ {0} /\ k * PGSIZE \in Nat /\ k * PGSIZE = PGSIZE * k + 0 /\ 0 \in 0 .. PGSIZE - 1
  BY MemAssumption
<1>2. (k * PGSIZE) % PGSIZE = 0 /\ (k * PGSIZE) \div PGSIZE = k BY <1>1, Quotient
<1>3. PagesOf(k * PGSIZE) = k BY <1>1, PagesIs
<1> QED BY <1>1, <1>2, <1>3, PagesAre

\* A size that PGROUNDUP() leaves as it is.
LEMMA Aligned ==
  ASSUME NEW n \in Nat, n % PGSIZE = 0
  PROVE  n = (n \div PGSIZE) * PGSIZE /\ n \div PGSIZE \in Nat /\ PagesOf(n) = n \div PGSIZE
<1>1. PGSIZE \in Nat \ {0} BY MemAssumption
<1> DEFINE k == n \div PGSIZE
<1>2. k \in Int /\ n = PGSIZE * k + 0 BY <1>1, Division
<1> HIDE DEF k
<1>3. k >= 0
  <2>1. k < 0 => PGSIZE * k <= - PGSIZE BY <1>1, <1>2
  <2> QED BY <1>1, <1>2, <2>1
<1>4. n = k * PGSIZE /\ k \in Nat BY <1>1, <1>2, <1>3
<1>5. PagesOf(n) = k BY <1>4, PagesExact
<1> QED BY <1>4, <1>5 DEF k

\* The two pages exec() adds for the guard and the stack.
LEMMA TwoMore ==
  ASSUME NEW n \in Nat, n % PGSIZE = 0
  PROVE  PagesOf(n + 2 * PGSIZE) = PagesOf(n) + 2 /\ (n + 2 * PGSIZE) \div PGSIZE = PagesOf(n) + 2
         /\ (n + 2 * PGSIZE) % PGSIZE = 0 /\ n + 2 * PGSIZE \in Nat
<1>1. PGSIZE \in Nat \ {0} BY MemAssumption
<1> DEFINE k == n \div PGSIZE
<1>2. n = k * PGSIZE /\ k \in Nat /\ PagesOf(n) = k BY Aligned
<1> HIDE DEF k
<1>3. n + 2 * PGSIZE = (k + 2) * PGSIZE /\ k + 2 \in Nat BY <1>1, <1>2
<1>4. /\ PagesOf((k + 2) * PGSIZE) = k + 2 /\ ((k + 2) * PGSIZE) \div PGSIZE = k + 2
      /\ ((k + 2) * PGSIZE) % PGSIZE = 0 /\ (k + 2) * PGSIZE \in Nat
  BY <1>3, PagesExact
<1> QED BY <1>2, <1>3, <1>4

-----
\* Page tables, and the inductive invariant.
\* The tables below root in the memory m, and the entry for va.
Mid(m, root, va) == m[root].table[PX(2, va)].pa

\* The page-table page of the lowest level for va.
Low(m, root, va) ==
  IF Mid(m, root, va) = NoFrame THEN NoFrame ELSE m[Mid(m, root, va)].table[PX(1, va)].pa

\* The entry for va.
Ent(m, root, va) ==
  IF Low(m, root, va) = NoFrame THEN NoPte ELSE m[Low(m, root, va)].table[PX(0, va)]

\* The pages of the kernel in every address space.
Top == {TRAMPOLINE, TRAPFRAME}

\* The page-table pages below root, with root.
TablesOf(m, root) ==
  ({root} \cup {Mid(m, root, va) : va \in Addresses} \cup {Low(m, root, va) : va \in Addresses})
  \ {NoFrame}

\* The pages they map.
LeavesOf(m, root) == {Ent(m, root, va).pa : va \in Addresses \ Top} \ {NoFrame}

\* All frames of the page table root.
SpaceOf(m, root) ==
  IF root = NoFrame THEN {} ELSE TablesOf(m, root) \cup LeavesOf(m, root)

\* An entry: empty, or with a frame (or the trampoline) and permissions.
IsPte(x) ==
  /\ x = [pa |-> x.pa, perm |-> x.perm] /\ x.pa \in 0 .. NFRAMES + 1
  /\ x.pa = NoFrame => x.perm = {}

\* A page-table page.
IsTable(x) ==
  /\ x = [table |-> x.table] /\ x.table = [e \in Entries |-> x.table[e]]
  /\ \A e \in Entries : IsPte(x.table[e])

\* The page tables below root are a tree.
Tree(m, root) ==
  /\ root \in Frames
  /\ \A f \in TablesOf(m, root) : f \in Frames /\ IsTable(m[f])
  /\ \A va, vb \in Addresses :
       Mid(m, root, va) # NoFrame =>
         /\ Mid(m, root, va) # root
         /\ Mid(m, root, va) = Mid(m, root, vb) => PX(2, va) = PX(2, vb)
         /\ Mid(m, root, va) # Low(m, root, vb)
  /\ \A va, vb \in Addresses :
       Low(m, root, va) # NoFrame =>
         /\ Low(m, root, va) # root
         /\ Low(m, root, va) = Low(m, root, vb) => PX(2, va) = PX(2, vb) /\ PX(1, va) = PX(1, vb)
  /\ \A va, vb \in Addresses \ Top :
       Ent(m, root, va).pa # NoFrame =>
         /\ Ent(m, root, va).pa \in Frames \ TablesOf(m, root)
         /\ Ent(m, root, va).pa = Ent(m, root, vb).pa => va = vb

\* The first n pages are mapped, and the two at the top, which are the kernel's.
Maps(m, root, n) ==
  \A va \in Addresses :
    /\ Ent(m, root, va).pa # NoFrame <=> va \in 0 .. n - 1 \cup Top
    /\ va \in Top => "U" \notin Ent(m, root, va).perm
    /\ va \in 0 .. n - 1 => "R" \in Ent(m, root, va).perm

\* The first n pages are the user's.
UserPages(m, root, n) == \A k \in 0 .. n - 1 : "U" \in Ent(m, root, k).perm

\* The page table that exec() is making.
NewRoot(p) == IF loc[p].root = pagetable[p] THEN NoFrame ELSE loc[p].root

\* Who has frames: the free list, the memory of a process, the image that exec() makes, a
\* trapframe, the arguments of an exec().
Owners == {<<"free", 0>>} \cup ({"space", "image", "trapframe", "args"} \X Procs)

\* What each of them has.
Holding ==
  [o \in Owners |->
     CASE o[1] = "free" -> free
       [] o[1] = "space" -> SpaceOf(ram, pagetable[o[2]])
       [] o[1] = "image" -> SpaceOf(ram, NewRoot(o[2]))
       [] o[1] = "trapframe" -> {trapframe[o[2]]} \ {NoFrame}
       [] OTHER -> loc[o[2]].argv]

\* The frames that kinit() has put on the free list.
Managed(m) == {f \in Frames : m[f] # Data("kernel")}

\* Every managed frame has exactly one owner.
Partition(H, M) ==
  /\ \A a, b \in Owners : a # b => H[a] \cap H[b] = {}
  /\ \A f : f \in M <=> \E o \in Owners : f \in H[o]

\* The segments of a program that exec() has still to load.
IsSegs(segs) ==
  /\ segs \in Seq(Range(segs))
  /\ \A s \in Range(segs) :
       /\ {s.vaddr, s.memsz, s.filesz} \subseteq Nat /\ s.filesz <= s.memsz
       /\ s.vaddr % PGSIZE = 0 /\ PagesOf(s.vaddr + s.memsz) + 2 <= PageLimit

\* Where a process can be in a call.
Pc == {"user", "uvmalloc", "sbrk", "copy", "reap", "argv", "open", "segment", "load", "stack"}

\* The locals of a call.
IsLoc(l) ==
  /\ DOMAIN l = {"np", "root", "at", "old", "new", "perm", "then", "segs", "size", "argv"}
  /\ l.np \in Int /\ l.root \in Frames \cup {NoFrame} /\ l.at \in Nat /\ l.old \in Nat /\ l.new \in Nat
  /\ l.size \in Nat /\ IsSegs(l.segs) /\ l.argv \subseteq Frames

\* The types of the variables.
Typed ==
  /\ ram = [f \in Frames |-> ram[f]] /\ free \subseteq Frames
  /\ state \in [Procs -> {"unused", "used", "runnable", "zombie"}]
  /\ parent \in [Procs -> Int] /\ sz \in [Procs -> Nat]
  /\ pagetable \in [Procs -> Frames \cup {NoFrame}] /\ trapframe \in [Procs -> Frames \cup {NoFrame}]
  /\ pc \in [Procs -> Pc] /\ loc = [p \in Procs |-> loc[p]]
  /\ \A p \in Procs : IsLoc(loc[p])

\* A process and its memory.
Idle(p) == pc[p] # "sbrk" /\ ~ (pc[p] = "uvmalloc" /\ loc[p].then = "sbrk")

\* What struct proc says of a process in its state: page table and trapframe are there from
\* allocproc() to freeproc(), and sz is what is mapped while no sbrk() runs.
Process(p) ==
  /\ state[p] = "unused" => pagetable[p] = NoFrame /\ trapframe[p] = NoFrame
  /\ state[p] # "unused" =>
       trapframe[p] # NoFrame /\ pagetable[p] # NoFrame /\ Tree(ram, pagetable[p])
  /\ pc[p] # "user" => state[p] = "runnable"
  /\ pc[p] = "user" => loc[p] = NoCall
  /\ PagesOf(sz[p]) <= PageLimit
  /\ state[p] \in {"unused", "used"} => sz[p] = 0
  /\ state[p] \in {"runnable", "zombie"} /\ Idle(p) => Maps(ram, pagetable[p], PagesOf(sz[p]))

\* uvmalloc() runs: the pages below at are mapped, and at is short of the new size.
Growing(p) ==
  LET l == loc[p] IN
  /\ l.root # NoFrame /\ l.old <= l.at /\ l.at * PGSIZE < l.new /\ Maps(ram, l.root, l.at)
  /\ UserPages(ram, l.root, l.at) \/ l.then = "sbrk"

\* A process in sbrk(): its own page table grows, and sz is still the old size.
InSbrk(p) ==
  LET l == loc[p] IN
  /\ l.root = pagetable[p] /\ l.argv = {} /\ PagesOf(l.new) <= PageLimit
  /\ pc[p] = "uvmalloc" => Growing(p) /\ l.old = PagesOf(sz[p])
  /\ pc[p] = "sbrk" => Maps(ram, l.root, PagesOf(IF l.new = 0 THEN sz[p] ELSE l.new))

\* A process in fork(): the child has the pages that are copied, and its sz is 0.
InFork(p) ==
  LET l == loc[p] IN
  /\ l.root = NoFrame /\ l.argv = {} /\ l.np \in Procs /\ state[l.np] = "used"
  /\ l.at <= PagesOf(sz[p]) /\ Maps(ram, pagetable[l.np], l.at)

\* A process in wait(): it has found a child that is a zombie.
InWait(p) ==
  LET l == loc[p] IN
  l.root = NoFrame /\ l.argv = {} /\ l.np \in Procs /\ state[l.np] = "zombie" /\ parent[l.np] = p

\* A process in exec(): the new page table has the pages of size, and while uvmalloc() runs
\* those below at; a segment that has been given memory fits it.
InExec(p) ==
  LET l == loc[p] IN
  /\ l.root # pagetable[p]
  /\ pc[p] \in {"argv", "open"} => l.root = NoFrame /\ l.size = 0
  /\ pc[p] \notin {"argv", "open"} =>
       /\ l.root # NoFrame /\ Tree(ram, l.root) /\ PagesOf(l.size) + 2 <= PageLimit
       /\ pc[p] = "segment" =>
            Maps(ram, l.root, PagesOf(l.size)) /\ UserPages(ram, l.root, PagesOf(l.size))
       /\ pc[p] = "uvmalloc" => Growing(p) /\ l.old = PagesOf(l.size)
       /\ (pc[p] = "uvmalloc" /\ l.then = "load") \/ pc[p] = "load" =>
            /\ l.segs # <<>>
            /\ l.new # 0 =>
                 Head(l.segs).vaddr + Head(l.segs).memsz <= l.new /\ PagesOf(l.new) + 2 <= PageLimit
       /\ (pc[p] = "uvmalloc" /\ l.then = "stack") \/ pc[p] = "stack" =>
            l.size % PGSIZE = 0 /\ (l.new # 0 => l.new = l.size + 2 * PGSIZE)
       /\ pc[p] \in {"load", "stack"} =>
            \E n \in {PagesOf(IF l.new = 0 THEN l.size ELSE l.new)} :
              Maps(ram, l.root, n) /\ UserPages(ram, l.root, n)

\* Where a process is in a call, the locals are those of that call.
Caller(p) ==
  /\ pc[p] = "uvmalloc" => loc[p].then \in {"sbrk", "load", "stack"}
  /\ ~ Idle(p) => InSbrk(p)
  /\ pc[p] = "copy" => InFork(p)
  /\ pc[p] = "reap" => InWait(p)
  /\ pc[p] \in {"argv", "open", "segment", "load", "stack"} \/ (pc[p] = "uvmalloc" /\ Idle(p)) => InExec(p)

\* Two calls of fork() make different children.
Forks == \A p, q \in Procs : pc[p] = "copy" /\ pc[q] = "copy" /\ loc[p].np = loc[q].np => p = q

\* The inductive invariant.
Good ==
  /\ ~ panic /\ Typed /\ Partition(Holding, Managed(ram)) /\ Forks
  /\ \A p \in Procs : Process(p) /\ Caller(p)

\* What the assumptions say of frames and addresses.
LEMMA Constants ==
  /\ NFRAMES \in Nat /\ FANOUT \in Nat /\ FANOUT > 1 /\ PGSIZE \in Nat \ {0} /\ PageLimit \in Nat
  /\ NoFrame \notin Frames /\ Frames \subseteq Nat /\ Addresses \subseteq Nat /\ Trampoline \notin Frames
  /\ Top \subseteq Addresses /\ TRAPFRAME \in Int
<1>1. NFRAMES \in Nat /\ FANOUT \in Nat /\ FANOUT > 1 /\ PGSIZE \in Nat \ {0} /\ PageLimit \in Nat
  BY MemAssumption, PagesAssumption
<1>2. NoFrame \notin Frames /\ Frames \subseteq Nat /\ Addresses \subseteq Nat /\ Trampoline \notin Frames
  BY <1>1 DEF NoFrame, Frames, Addresses, Trampoline
<1>3. Top \subseteq Addresses BY PxTop DEF Top
<1>4. TRAPFRAME \in Int BY <1>1 DEF TRAPFRAME, TRAMPOLINE
<1> QED BY <1>1, <1>2, <1>3, <1>4

\* A process's pages end before TRAPFRAME.
LEMMA PageIn ==
  ASSUME NEW k \in Nat, k < PageLimit
  PROVE  k \in Addresses \ Top
<1>1. k < TRAPFRAME /\ TRAPFRAME < TRAMPOLINE /\ TRAPFRAME \in Int /\ TRAMPOLINE \in Int
  <2>1. TRAPFRAME \in Int /\ TRAPFRAME = TRAMPOLINE - 1 /\ PageLimit \in Nat
    BY Constants DEF TRAPFRAME
  <2>2. TRAMPOLINE \in Int BY Constants DEF TRAMPOLINE
  <2> QED BY <2>1, <2>2, PagesAssumption
<1> QED BY <1>1 DEF Addresses, Top

\* What a tree of page tables is made of.
LEMMA TreeFacts ==
  ASSUME NEW m, NEW r, Tree(m, r), NEW va \in Addresses
  PROVE  /\ r \in Frames /\ r \in TablesOf(m, r) /\ IsTable(m[r])
         /\ Mid(m, r, va) # NoFrame =>
              Mid(m, r, va) \in TablesOf(m, r) \cap Frames /\ IsTable(m[Mid(m, r, va)])
         /\ Low(m, r, va) # NoFrame =>
              /\ Low(m, r, va) \in TablesOf(m, r) \cap Frames /\ IsTable(m[Low(m, r, va)])
              /\ Mid(m, r, va) # NoFrame
         /\ IsPte(Ent(m, r, va)) /\ (Ent(m, r, va).pa = NoFrame => Ent(m, r, va) = NoPte)
         /\ Ent(m, r, va).pa # NoFrame => Low(m, r, va) # NoFrame
<1>1. r \in Frames /\ r # NoFrame BY Constants DEF Tree
<1>2. r \in TablesOf(m, r) /\ IsTable(m[r]) BY <1>1 DEF TablesOf, Tree
<1>3. Mid(m, r, va) # NoFrame =>
        Mid(m, r, va) \in TablesOf(m, r) \cap Frames /\ IsTable(m[Mid(m, r, va)])
  BY DEF TablesOf, Tree
<1>4. Low(m, r, va) # NoFrame =>
              /\ Low(m, r, va) \in TablesOf(m, r) \cap Frames /\ IsTable(m[Low(m, r, va)])
              /\ Mid(m, r, va) # NoFrame
  BY DEF TablesOf, Tree, Low
<1>5. NoPte.pa = NoFrame /\ IsPte(NoPte) BY MemAssumption DEF NoPte, IsPte, NoFrame
<1>6. PX(0, va) \in Entries BY PxIn
<1>7. Low(m, r, va) # NoFrame => IsPte(Ent(m, r, va)) BY <1>4, <1>6 DEF IsTable, Ent
<1>8. Low(m, r, va) = NoFrame => Ent(m, r, va) = NoPte BY DEF Ent
<1>9. IsPte(Ent(m, r, va)) BY <1>5, <1>7, <1>8
<1>10. Ent(m, r, va).pa = NoFrame => Ent(m, r, va) = NoPte BY <1>9 DEF IsPte, NoPte
<1> QED BY <1>1, <1>2, <1>3, <1>4, <1>5, <1>8, <1>9, <1>10

\* walk() finds the same in two memories: they hold the same page table.
LEMMA SameView ==
  ASSUME NEW m, NEW m2, NEW r,
         \A va \in Addresses : /\ Mid(m2, r, va) = Mid(m, r, va) /\ Low(m2, r, va) = Low(m, r, va)
                               /\ Ent(m2, r, va) = Ent(m, r, va)
  PROVE  /\ TablesOf(m2, r) = TablesOf(m, r) /\ SpaceOf(m2, r) = SpaceOf(m, r)
         /\ \A n : Maps(m, r, n) => Maps(m2, r, n)
         /\ \A n \in Nat : n <= PageLimit /\ UserPages(m, r, n) => UserPages(m2, r, n)
         /\ Tree(m, r) /\ (\A f \in TablesOf(m, r) : IsTable(m2[f])) => Tree(m2, r)
<1>1. TablesOf(m2, r) = TablesOf(m, r) BY DEF TablesOf
<1>2. LeavesOf(m2, r) = LeavesOf(m, r) BY DEF LeavesOf
<1>3. SpaceOf(m2, r) = SpaceOf(m, r) BY <1>1, <1>2 DEF SpaceOf
<1>4. \A n : Maps(m, r, n) => Maps(m2, r, n) BY DEF Maps
<1>5. \A n \in Nat : n <= PageLimit /\ UserPages(m, r, n) => UserPages(m2, r, n)
  <2> SUFFICES ASSUME NEW n \in Nat, n <= PageLimit, UserPages(m, r, n), NEW k \in 0 .. n - 1
               PROVE  "U" \in Ent(m2, r, k).perm
    BY DEF UserPages
  <2>1. k \in Addresses BY PageIn, Constants
  <2> QED BY <2>1 DEF UserPages
<1>6. Tree(m, r) /\ (\A f \in TablesOf(m, r) : IsTable(m2[f])) => Tree(m2, r) BY <1>1 DEF Tree
<1> QED BY <1>1, <1>3, <1>4, <1>5, <1>6

\* Who writes elsewhere leaves a page table as it is.
LEMMA Untouched ==
  ASSUME NEW m, NEW m2, NEW r, Tree(m, r), \A f \in TablesOf(m, r) : m2[f] = m[f]
  PROVE  /\ Tree(m2, r) /\ TablesOf(m2, r) = TablesOf(m, r) /\ SpaceOf(m2, r) = SpaceOf(m, r)
         /\ \A va \in Addresses : /\ Mid(m2, r, va) = Mid(m, r, va) /\ Low(m2, r, va) = Low(m, r, va)
                                  /\ Ent(m2, r, va) = Ent(m, r, va)
         /\ \A n : Maps(m, r, n) => Maps(m2, r, n)
         /\ \A n \in Nat : n <= PageLimit /\ UserPages(m, r, n) => UserPages(m2, r, n)
<1>1. \A va \in Addresses : /\ Mid(m2, r, va) = Mid(m, r, va) /\ Low(m2, r, va) = Low(m, r, va)
                            /\ Ent(m2, r, va) = Ent(m, r, va)
  <2> SUFFICES ASSUME NEW va \in Addresses
               PROVE  /\ Mid(m2, r, va) = Mid(m, r, va) /\ Low(m2, r, va) = Low(m, r, va)
                      /\ Ent(m2, r, va) = Ent(m, r, va)
    OBVIOUS
  <2>1. Mid(m2, r, va) = Mid(m, r, va) BY TreeFacts DEF Mid
  <2>2. Low(m2, r, va) = Low(m, r, va) BY <2>1, TreeFacts DEF Low
  <2>3. Ent(m2, r, va) = Ent(m, r, va) BY <2>2, TreeFacts DEF Ent
  <2> QED BY <2>1, <2>2, <2>3
<1>2. \A f \in TablesOf(m, r) : IsTable(m2[f]) BY DEF Tree
<1> QED BY <1>1, <1>2, SameView, Zenon

\* The entries of the lowest tables change, or go.
LEMMA Changed ==
  ASSUME NEW m, NEW m2, NEW r, Tree(m, r),
         \A va \in Addresses : /\ Mid(m2, r, va) = Mid(m, r, va) /\ Low(m2, r, va) = Low(m, r, va)
                               /\ Ent(m2, r, va).pa \in {NoFrame, Ent(m, r, va).pa},
         \A f \in TablesOf(m, r) : IsTable(m2[f])
  PROVE  Tree(m2, r) /\ TablesOf(m2, r) = TablesOf(m, r) /\ LeavesOf(m2, r) \subseteq LeavesOf(m, r)
<1>1. TablesOf(m2, r) = TablesOf(m, r) BY DEF TablesOf
<1>2. LeavesOf(m2, r) \subseteq LeavesOf(m, r) BY DEF LeavesOf
<1>3. \A va, vb \in Addresses \ Top :
       Ent(m2, r, va).pa # NoFrame =>
         /\ Ent(m2, r, va).pa \in Frames \ TablesOf(m2, r)
         /\ Ent(m2, r, va).pa = Ent(m2, r, vb).pa => va = vb
  <2> SUFFICES ASSUME NEW va \in Addresses \ Top, NEW vb \in Addresses \ Top, Ent(m2, r, va).pa # NoFrame
               PROVE  /\ Ent(m2, r, va).pa \in Frames \ TablesOf(m2, r)
                      /\ Ent(m2, r, va).pa = Ent(m2, r, vb).pa => va = vb
    OBVIOUS
  <2>1. Ent(m2, r, va).pa = Ent(m, r, va).pa OBVIOUS
  <2>2. Ent(m, r, va).pa \in Frames \ TablesOf(m, r) BY <2>1 DEF Tree
  <2>3. ASSUME Ent(m2, r, va).pa = Ent(m2, r, vb).pa PROVE va = vb
    <3>1. Ent(m, r, va).pa = Ent(m, r, vb).pa BY <2>1, <2>3
    <3> QED BY <2>1, <3>1 DEF Tree
  <2> QED BY <1>1, <2>1, <2>2, <2>3
<1>4. Tree(m2, r) BY <1>1, <1>3 DEF Tree
<1> QED BY <1>1, <1>2, <1>4

-----
\* What mappages() and proc_pagetable() do to a page table.
\* walk() and mappages(): for the address va there are the tables g1 and g0 and the entry
\* pte, which were there or are new.
Extends(m, m2, r, va, g1, g0, pte) ==
  \A vb \in Addresses :
    /\ Mid(m2, r, vb) = IF PX(2, vb) = PX(2, va) THEN g1 ELSE Mid(m, r, vb)
    /\ Low(m2, r, vb) =
         IF PX(2, vb) = PX(2, va) /\ PX(1, vb) = PX(1, va) THEN g0 ELSE Low(m, r, vb)
    /\ Ent(m2, r, vb) = IF vb = va THEN pte ELSE Ent(m, r, vb)

\* What of it is new was in no use of this page table.
Added(m, r, va, g1, g0, pte) ==
  /\ \/ g1 = Mid(m, r, va)
     \/ Mid(m, r, va) = NoFrame /\ g1 \in Frames \ SpaceOf(m, r)
  /\ \/ g0 = Low(m, r, va)
     \/ Low(m, r, va) = NoFrame /\ g0 \in Frames \ SpaceOf(m, r)
  /\ g0 # NoFrame => g1 # g0
  /\ \/ pte = Ent(m, r, va)
     \/ va \in Top
     \/ Ent(m, r, va).pa = NoFrame /\ pte.pa \in Frames \ (SpaceOf(m, r) \cup {g1, g0})

\* The frames it takes; the pages at the top are not the process's.
NewFrames(va, g1, g0, pte) == ({g1, g0} \cup (IF va \in Top THEN {} ELSE {pte.pa})) \ {NoFrame}

\* mappages() makes the tree one page larger and keeps it a tree.
LEMMA Extended ==
  ASSUME NEW m, NEW m2, NEW r, Tree(m, r), NEW va \in Addresses, NEW g1, NEW g0, NEW pte,
         Extends(m, m2, r, va, g1, g0, pte), Added(m, r, va, g1, g0, pte),
         \A f \in TablesOf(m, r) \cup ({g1, g0} \ {NoFrame}) : IsTable(m2[f])
  PROVE  /\ Tree(m2, r) /\ SpaceOf(m2, r) = SpaceOf(m, r) \cup NewFrames(va, g1, g0, pte)
         /\ TablesOf(m2, r) = TablesOf(m, r) \cup ({g1, g0} \ {NoFrame})
<1>1. r \in Frames /\ r # NoFrame /\ SpaceOf(m, r) = TablesOf(m, r) \cup LeavesOf(m, r)
      /\ SpaceOf(m2, r) = TablesOf(m2, r) \cup LeavesOf(m2, r)
  BY Constants DEF Tree, SpaceOf
<1>2. \A vb \in Addresses : PX(2, vb) = PX(2, va) => Mid(m, r, vb) = Mid(m, r, va) BY DEF Mid
<1>3. \A vb \in Addresses : PX(2, vb) = PX(2, va) /\ PX(1, vb) = PX(1, va) => Low(m, r, vb) = Low(m, r, va)
  BY <1>2 DEF Low
<1>4. ASSUME NEW vb \in Addresses
      PROVE  /\ PX(2, vb) = PX(2, va) => Mid(m2, r, vb) = g1
             /\ PX(2, vb) # PX(2, va) => Mid(m2, r, vb) = Mid(m, r, vb)
             /\ Mid(m, r, vb) # NoFrame => Mid(m2, r, vb) = Mid(m, r, vb)
             /\ PX(2, vb) = PX(2, va) /\ PX(1, vb) = PX(1, va) => Low(m2, r, vb) = g0
             /\ ~ (PX(2, vb) = PX(2, va) /\ PX(1, vb) = PX(1, va)) => Low(m2, r, vb) = Low(m, r, vb)
             /\ Low(m, r, vb) # NoFrame => Low(m2, r, vb) = Low(m, r, vb)
             /\ Ent(m2, r, va) = pte /\ (vb # va => Ent(m2, r, vb) = Ent(m, r, vb))
  BY <1>2, <1>3 DEF Extends, Added
<1>5. TablesOf(m2, r) = TablesOf(m, r) \cup ({g1, g0} \ {NoFrame})
  <2>1. TablesOf(m2, r) \subseteq TablesOf(m, r) \cup ({g1, g0} \ {NoFrame})
    BY <1>4 DEF TablesOf
  <2>2. TablesOf(m, r) \subseteq TablesOf(m2, r) BY <1>4 DEF TablesOf
  <2>3. {g1, g0} \ {NoFrame} \subseteq TablesOf(m2, r) BY <1>4 DEF TablesOf
  <2> QED BY <2>1, <2>2, <2>3
<1>6. {g1, g0} \ {NoFrame} \subseteq Frames \ LeavesOf(m, r)
  <2>1. ASSUME NEW vb \in Addresses \ Top, Ent(m, r, vb).pa # NoFrame
        PROVE  Ent(m, r, vb).pa \notin TablesOf(m, r)
    BY <2>1 DEF Tree
  <2>2. TablesOf(m, r) \subseteq Frames \ LeavesOf(m, r) BY <2>1 DEF LeavesOf, Tree
  <2>3. Mid(m, r, va) # NoFrame => Mid(m, r, va) \in TablesOf(m, r) BY DEF TablesOf
  <2>4. Low(m, r, va) # NoFrame => Low(m, r, va) \in TablesOf(m, r) BY DEF TablesOf
  <2>5. g1 # NoFrame => g1 \in Frames \ LeavesOf(m, r) BY <1>1, <2>2, <2>3 DEF Added
  <2>6. g0 # NoFrame => g0 \in Frames \ LeavesOf(m, r) BY <1>1, <2>2, <2>4 DEF Added
  <2> QED BY <2>5, <2>6
<1>7. \A f \in TablesOf(m2, r) : f \in Frames /\ IsTable(m2[f]) BY <1>5, <1>6 DEF Tree
<1>8. ASSUME NEW vb \in Addresses, NEW vc \in Addresses, Mid(m2, r, vb) # NoFrame
      PROVE  /\ Mid(m2, r, vb) # r
             /\ Mid(m2, r, vb) = Mid(m2, r, vc) => PX(2, vb) = PX(2, vc)
             /\ Mid(m2, r, vb) # Low(m2, r, vc)
  <2> DEFINE P == PX(2, vb) = PX(2, va)
             Q == PX(2, vc) = PX(2, va)
             R == PX(2, vc) = PX(2, va) /\ PX(1, vc) = PX(1, va)
  <2>1. r \in SpaceOf(m, r) BY <1>1, TreeFacts
  <2>2. \A v \in Addresses :
          Mid(m, r, v) # NoFrame =>
            /\ Mid(m, r, v) # r /\ Mid(m, r, v) \in SpaceOf(m, r)
            /\ \A w \in Addresses : Mid(m, r, v) = Mid(m, r, w) => PX(2, v) = PX(2, w)
            /\ \A w \in Addresses : Mid(m, r, v) # Low(m, r, w)
    BY <1>1, TreeFacts DEF Tree
  <2>3. \A v \in Addresses : Low(m, r, v) # NoFrame => Low(m, r, v) # r /\ Low(m, r, v) \in SpaceOf(m, r)
    BY <1>1, TreeFacts DEF Tree
  <2>4. g1 # NoFrame => g1 # r /\ (\A w \in Addresses : ~ (PX(2, w) = PX(2, va)) => g1 # Mid(m, r, w))
                        /\ (\A w \in Addresses : Low(m, r, w) # g1)
    BY <2>1, <2>2, <2>3 DEF Added
  <2>5. g0 # NoFrame => g0 # r /\ \A w \in Addresses : Mid(m, r, w) # g0
    BY <2>1, <2>2, <2>3 DEF Added
  <2>6. Mid(m2, r, vb) # r BY <1>4, <1>8, <2>2, <2>4
  <2>7. ASSUME Mid(m2, r, vb) = Mid(m2, r, vc) PROVE PX(2, vb) = PX(2, vc)
    <3>1. CASE P /\ Q BY <3>1
    <3>2. CASE P /\ ~ Q BY <1>4, <1>8, <2>4, <2>7, <3>2
    <3>3. CASE ~ P /\ Q BY <1>4, <1>8, <2>4, <2>7, <3>3
    <3>4. CASE ~ P /\ ~ Q BY <1>4, <1>8, <2>2, <2>7, <3>4
    <3> QED BY <3>1, <3>2, <3>3, <3>4
  <2>8. Mid(m2, r, vb) # Low(m2, r, vc)
    <3>1. CASE P /\ R
      <4>1. Mid(m2, r, vb) = g1 /\ Low(m2, r, vc) = g0 BY <1>4, <3>1
      <4> QED BY <1>8, <4>1 DEF Added
    <3>2. CASE P /\ ~ R
      <4>1. Mid(m2, r, vb) = g1 /\ Low(m2, r, vc) = Low(m, r, vc) BY <1>4, <3>2
      <4> QED BY <1>8, <2>4, <4>1
    <3>3. CASE ~ P /\ R
      <4>1. Mid(m2, r, vb) = Mid(m, r, vb) /\ Low(m2, r, vc) = g0 BY <1>4, <3>3
      <4> QED BY <1>8, <2>5, <4>1
    <3>4. CASE ~ P /\ ~ R
      <4>1. Mid(m2, r, vb) = Mid(m, r, vb) /\ Low(m2, r, vc) = Low(m, r, vc) BY <1>4, <3>4
      <4> QED BY <1>8, <2>2, <4>1
    <3> QED BY <3>1, <3>2, <3>3, <3>4
  <2> QED BY <2>6, <2>7, <2>8
<1>9. ASSUME NEW vb \in Addresses, NEW vc \in Addresses, Low(m2, r, vb) # NoFrame
      PROVE  /\ Low(m2, r, vb) # r
             /\ Low(m2, r, vb) = Low(m2, r, vc) => PX(2, vb) = PX(2, vc) /\ PX(1, vb) = PX(1, vc)
  <2> DEFINE P(v) == PX(2, v) = PX(2, va) /\ PX(1, v) = PX(1, va)
  <2>1. r \in SpaceOf(m, r) BY <1>1, TreeFacts
  <2>2. \A v, w \in Addresses : Low(m, r, v) # NoFrame =>
          /\ Low(m, r, v) # r /\ Low(m, r, v) \in SpaceOf(m, r)
          /\ Low(m, r, v) = Low(m, r, w) => PX(2, v) = PX(2, w) /\ PX(1, v) = PX(1, w)
    BY <1>1, TreeFacts DEF Tree
  <2>3. g0 # NoFrame => g0 # r /\ \A w \in Addresses : ~ P(w) => g0 # Low(m, r, w)
    BY <2>1, <2>2 DEF Added
  <2>4. \A v \in Addresses : /\ P(v) => Low(m2, r, v) = g0
                             /\ ~ P(v) => Low(m2, r, v) = Low(m, r, v)
    BY <1>4
  <2>5. Low(m2, r, vb) # r BY <1>9, <2>2, <2>3, <2>4
  <2>6. ASSUME Low(m2, r, vb) = Low(m2, r, vc) PROVE PX(2, vb) = PX(2, vc) /\ PX(1, vb) = PX(1, vc)
    <3>1. CASE P(vb) /\ P(vc) BY <3>1
    <3>2. CASE P(vb) /\ ~ P(vc) BY <1>9, <2>3, <2>4, <2>6, <3>2
    <3>3. CASE ~ P(vb) /\ P(vc) BY <1>9, <2>3, <2>4, <2>6, <3>3
    <3>4. CASE ~ P(vb) /\ ~ P(vc) BY <1>9, <2>2, <2>4, <2>6, <3>4
    <3> QED BY <3>1, <3>2, <3>3, <3>4
  <2> QED BY <2>5, <2>6
<1>10. ASSUME NEW vb \in Addresses \ Top, NEW vc \in Addresses \ Top, Ent(m2, r, vb).pa # NoFrame
       PROVE  /\ Ent(m2, r, vb).pa \in Frames \ TablesOf(m2, r)
              /\ Ent(m2, r, vb).pa = Ent(m2, r, vc).pa => vb = vc
  <2>1. \A v, w \in Addresses \ Top : Ent(m, r, v).pa # NoFrame =>
          /\ Ent(m, r, v).pa \in Frames \ TablesOf(m, r) /\ Ent(m, r, v).pa \in LeavesOf(m, r)
          /\ Ent(m, r, v).pa = Ent(m, r, w).pa => v = w
    BY DEF Tree, LeavesOf
  <2>2. \A v \in Addresses \ Top : v # va => Ent(m2, r, v) = Ent(m, r, v) BY <1>4
  <2>3. \A v \in Addresses \ Top : v # va /\ Ent(m, r, v).pa # NoFrame =>
          Ent(m2, r, v).pa \in Frames \ TablesOf(m2, r)
    BY <1>5, <1>6, <2>1, <2>2
  <2>4. va \notin Top /\ pte.pa # NoFrame =>
          /\ pte.pa \in Frames \ TablesOf(m2, r)
          /\ \A w \in Addresses \ Top : w # va => pte.pa # Ent(m, r, w).pa
    <3> SUFFICES ASSUME va \notin Top, pte.pa # NoFrame
                 PROVE  /\ pte.pa \in Frames \ TablesOf(m2, r)
                        /\ \A w \in Addresses \ Top : w # va => pte.pa # Ent(m, r, w).pa
      OBVIOUS
    <3>1. CASE pte = Ent(m, r, va) BY <1>5, <1>6, <2>1, <3>1
    <3>2. CASE pte.pa \in Frames \ (SpaceOf(m, r) \cup {g1, g0})
      BY <1>1, <1>5, <2>1, <3>2, Constants
    <3> QED BY <3>1, <3>2 DEF Added
  <2>5. Ent(m2, r, va) = pte BY <1>4
  <2>6. Ent(m2, r, vb).pa \in Frames \ TablesOf(m2, r) BY <1>10, <2>2, <2>3, <2>4, <2>5
  <2>7. ASSUME Ent(m2, r, vb).pa = Ent(m2, r, vc).pa PROVE vb = vc
    BY <1>10, <2>1, <2>2, <2>4, <2>5, <2>7
  <2> QED BY <2>6, <2>7
<1>11. Tree(m2, r) BY <1>1, <1>7, <1>8, <1>9, <1>10 DEF Tree
<1>12. TablesOf(m2, r) \cup LeavesOf(m2, r)
         = TablesOf(m, r) \cup LeavesOf(m, r) \cup NewFrames(va, g1, g0, pte)
  <2>1. LeavesOf(m2, r) \subseteq LeavesOf(m, r) \cup NewFrames(va, g1, g0, pte)
    BY <1>4 DEF LeavesOf, NewFrames
  <2>2. ASSUME NEW v \in Addresses \ Top, Ent(m, r, v).pa # NoFrame
        PROVE  Ent(m2, r, v).pa = Ent(m, r, v).pa
    <3>1. CASE v # va BY <1>4, <3>1
    <3>2. CASE v = va BY <1>4, <2>2, <3>2 DEF Added
    <3> QED BY <3>1, <3>2
  <2>3. LeavesOf(m, r) \subseteq LeavesOf(m2, r) BY <2>2 DEF LeavesOf
  <2>4. va \notin Top /\ pte.pa # NoFrame => pte.pa \in LeavesOf(m2, r) BY <1>4 DEF LeavesOf
  <2>5. NewFrames(va, g1, g0, pte) \subseteq TablesOf(m2, r) \cup LeavesOf(m2, r)
    BY <1>5, <2>4 DEF NewFrames
  <2> QED BY <1>5, <2>1, <2>3, <2>5 DEF NewFrames
<1> QED BY <1>1, <1>5, <1>11, <1>12

\* What is mapped after it.
LEMMA MapsMore ==
  ASSUME NEW m, NEW m2, NEW r, NEW n \in Nat, n < PageLimit, Maps(m, r, n), NEW g1, NEW g0, NEW pte,
         Extends(m, m2, r, n, g1, g0, pte), pte.pa # NoFrame, "R" \in pte.perm
  PROVE  /\ Maps(m2, r, n + 1)
         /\ UserPages(m, r, n) /\ "U" \in pte.perm => UserPages(m2, r, n + 1)
<1>1. n \in Addresses \ Top BY PageIn
<1>2. n + 1 \in Nat /\ 0 .. n + 1 - 1 = (0 .. n - 1) \cup {n} OBVIOUS
<1>3. \A vb \in Addresses : Ent(m2, r, vb) = IF vb = n THEN pte ELSE Ent(m, r, vb)
  BY DEF Extends
<1>4. Maps(m2, r, n + 1) BY <1>1, <1>2, <1>3 DEF Maps
<1>5. ASSUME UserPages(m, r, n), "U" \in pte.perm, NEW k \in 0 .. n + 1 - 1
      PROVE  "U" \in Ent(m2, r, k).perm
  <2>1. k \in Addresses BY <1>2, PageIn, Constants
  <2> QED BY <1>2, <1>3, <1>5, <2>1 DEF UserPages
<1> QED BY <1>4, <1>5 DEF UserPages

\* A store to an entry of a page-table page.
LEMMA TableSet ==
  ASSUME NEW x, IsTable(x), NEW k \in Entries, NEW pte, IsPte(pte)
  PROVE  /\ IsTable([x EXCEPT !.table[k] = pte])
         /\ \A e \in Entries : [x EXCEPT !.table[k] = pte].table[e] = IF e = k THEN pte ELSE x.table[e]
<1>1. [x EXCEPT !.table[k] = pte] = [table |-> [e \in Entries |-> IF e = k THEN pte ELSE x.table[e]]]
  BY DEF IsTable
<1> QED BY <1>1 DEF IsTable

\* Entries that the code makes.
LEMMA Ptes ==
  /\ IsPte(NoPte) /\ NoPte.pa = NoFrame /\ Pointer(NoFrame) = NoPte
  /\ \A f \in Frames : IsPte(Pointer(f)) /\ Pointer(f).pa = f
  /\ \A f \in Frames \cup {Trampoline} : \A perm : IsPte([pa |-> f, perm |-> perm]) /\ f # NoFrame
<1>1. NFRAMES \in Nat BY MemAssumption
<1> QED BY <1>1 DEF NoPte, Pointer, IsPte, NoFrame, Frames, Trampoline

\* A page-table page that walk() has made, with its first entry.
LEMMA TableNew ==
  ASSUME NEW k \in Entries, NEW pte, IsPte(pte)
  PROVE  /\ IsTable(Table(k, pte))
         /\ \A e \in Entries : Table(k, pte).table[e] = IF e = k THEN pte ELSE NoPte
BY Ptes DEF Table, IsTable

\* An entry in a table that is there.
LEMMA ExtendsHere ==
  ASSUME NEW m, NEW m2, NEW r, Tree(m, r), NEW va \in Addresses, NEW pte, Low(m, r, va) # NoFrame,
         IsTable(m2[Low(m, r, va)]),
         \A e \in Entries : m2[Low(m, r, va)].table[e]
                              = IF e = PX(0, va) THEN pte ELSE m[Low(m, r, va)].table[e],
         \A x \in TablesOf(m, r) \ {Low(m, r, va)} : m2[x] = m[x]
  PROVE  /\ Extends(m, m2, r, va, Mid(m, r, va), Low(m, r, va), pte)
         /\ \A x \in TablesOf(m, r) : IsTable(m2[x])
<1>1. \A x \in TablesOf(m, r) : IsTable(m2[x]) BY DEF Tree
<1>2. ASSUME NEW vb \in Addresses
      PROVE  /\ Mid(m2, r, vb) = IF PX(2, vb) = PX(2, va) THEN Mid(m, r, va) ELSE Mid(m, r, vb)
             /\ Low(m2, r, vb) = IF PX(2, vb) = PX(2, va) /\ PX(1, vb) = PX(1, va)
                                   THEN Low(m, r, va) ELSE Low(m, r, vb)
             /\ Ent(m2, r, vb) = IF vb = va THEN pte ELSE Ent(m, r, vb)
  <2>1. r \in TablesOf(m, r) /\ r # Low(m, r, va) BY TreeFacts DEF Tree
  <2>2. Mid(m2, r, vb) = Mid(m, r, vb) BY <2>1 DEF Mid
  <2>3. Mid(m, r, vb) # NoFrame => Mid(m, r, vb) \in TablesOf(m, r) /\ Mid(m, r, vb) # Low(m, r, va)
    BY TreeFacts DEF Tree
  <2>4. Low(m2, r, vb) = Low(m, r, vb) BY <2>2, <2>3 DEF Low
  <2>5. PX(2, vb) = PX(2, va) => Mid(m, r, vb) = Mid(m, r, va) BY SMTT(30) DEF Mid
  <2>6. PX(2, vb) = PX(2, va) /\ PX(1, vb) = PX(1, va) => Low(m, r, vb) = Low(m, r, va)
    BY <2>5 DEF Low
  <2>7. PX(0, vb) \in Entries /\ PX(0, va) \in Entries BY PxIn
  <2>8. Low(m, r, vb) = Low(m, r, va) => Ent(m2, r, vb) = IF vb = va THEN pte ELSE Ent(m, r, vb)
    <3> SUFFICES ASSUME Low(m, r, vb) = Low(m, r, va)
                 PROVE  Ent(m2, r, vb) = IF vb = va THEN pte ELSE Ent(m, r, vb)
      OBVIOUS
    <3>1. PX(2, vb) = PX(2, va) /\ PX(1, vb) = PX(1, va) BY DEF Tree
    <3>2. PX(0, vb) = PX(0, va) => vb = va BY <3>1, PxTells
    <3>3. Ent(m2, r, vb) = m2[Low(m, r, va)].table[PX(0, vb)] BY <2>4 DEF Ent
    <3>4. Ent(m, r, vb) = m[Low(m, r, va)].table[PX(0, vb)] BY DEF Ent
    <3> QED BY <2>7, <3>2, <3>3, <3>4
  <2>9. Low(m, r, vb) # Low(m, r, va) => Ent(m2, r, vb) = Ent(m, r, vb) /\ vb # va
    BY <2>4, TreeFacts DEF Ent
  <2> QED BY <2>2, <2>4, <2>5, <2>6, <2>8, <2>9
<1> QED BY <1>1, <1>2 DEF Extends

\* A new table of the lowest level, with an entry.
LEMMA ExtendsLowest ==
  ASSUME NEW m, NEW m2, NEW r, Tree(m, r), NEW va \in Addresses, NEW pte, NEW g \in Frames \ TablesOf(m, r),
         Mid(m, r, va) # NoFrame, Low(m, r, va) = NoFrame,
         IsTable(m2[Mid(m, r, va)]), IsTable(m2[g]),
         \A e \in Entries : m2[Mid(m, r, va)].table[e]
                              = IF e = PX(1, va) THEN Pointer(g) ELSE m[Mid(m, r, va)].table[e],
         \A e \in Entries : m2[g].table[e] = IF e = PX(0, va) THEN pte ELSE NoPte,
         \A x \in TablesOf(m, r) \ {Mid(m, r, va)} : m2[x] = m[x]
  PROVE  /\ Extends(m, m2, r, va, Mid(m, r, va), g, pte)
         /\ \A x \in TablesOf(m, r) \cup {g} : IsTable(m2[x])
<1>1. \A x \in TablesOf(m, r) \cup {g} : IsTable(m2[x]) BY DEF Tree
<1>2. ASSUME NEW vb \in Addresses
      PROVE  /\ Mid(m2, r, vb) = IF PX(2, vb) = PX(2, va) THEN Mid(m, r, va) ELSE Mid(m, r, vb)
             /\ Low(m2, r, vb) = IF PX(2, vb) = PX(2, va) /\ PX(1, vb) = PX(1, va)
                                   THEN g ELSE Low(m, r, vb)
             /\ Ent(m2, r, vb) = IF vb = va THEN pte ELSE Ent(m, r, vb)
  <2>1. r \in TablesOf(m, r) /\ r # Mid(m, r, va) BY TreeFacts DEF Tree
  <2>2. Mid(m2, r, vb) = Mid(m, r, vb) BY <2>1 DEF Mid
  <2>3. Mid(m, r, vb) = Mid(m, r, va) <=> PX(2, vb) = PX(2, va) BY DEF Tree, Mid
  <2>4. PX(1, vb) \in Entries /\ PX(1, va) \in Entries /\ PX(0, vb) \in Entries /\ PX(0, va) \in Entries
    BY PxIn
  <2>5. Pointer(g).pa = g /\ g # NoFrame /\ NoPte.pa = NoFrame BY Ptes, Constants
  <2>6. Low(m2, r, vb) = IF PX(2, vb) = PX(2, va) /\ PX(1, vb) = PX(1, va) THEN g ELSE Low(m, r, vb)
    <3>1. CASE PX(2, vb) = PX(2, va)
      <4>1. Low(m2, r, vb) = m2[Mid(m, r, va)].table[PX(1, vb)].pa BY <2>2, <2>3, <3>1 DEF Low
      <4>2. Low(m, r, vb) = m[Mid(m, r, va)].table[PX(1, vb)].pa BY <2>3, <3>1 DEF Low
      <4> QED BY <2>4, <2>5, <3>1, <4>1, <4>2
    <3>2. CASE PX(2, vb) # PX(2, va)
      <4>1. Mid(m, r, vb) # NoFrame => m2[Mid(m, r, vb)] = m[Mid(m, r, vb)]
        BY <2>3, <3>2, TreeFacts
      <4> QED BY <2>2, <3>2, <4>1 DEF Low
    <3> QED BY <3>1, <3>2
  <2>7. Ent(m2, r, vb) = IF vb = va THEN pte ELSE Ent(m, r, vb)
    <3>1. CASE PX(2, vb) = PX(2, va) /\ PX(1, vb) = PX(1, va)
      <4>1. Ent(m2, r, vb) = m2[g].table[PX(0, vb)] BY <2>5, <2>6, <3>1 DEF Ent
      <4>2. Low(m, r, vb) = NoFrame BY <2>3, <3>1 DEF Low
      <4>3. Ent(m, r, vb) = NoPte BY <4>2 DEF Ent
      <4>4. PX(0, vb) = PX(0, va) => vb = va BY <3>1, PxTells
      <4> QED BY <2>4, <4>1, <4>3, <4>4
    <3>2. CASE ~ (PX(2, vb) = PX(2, va) /\ PX(1, vb) = PX(1, va))
      <4>1. Low(m2, r, vb) = Low(m, r, vb) /\ vb # va BY <2>6, <3>2
      <4>2. Low(m, r, vb) # NoFrame => Low(m, r, vb) \in TablesOf(m, r) /\ Low(m, r, vb) # Mid(m, r, va)
        BY TreeFacts DEF Tree
      <4> QED BY <4>1, <4>2 DEF Ent
    <3> QED BY <3>1, <3>2
  <2> QED BY <2>2, <2>3, <2>6, <2>7
<1> QED BY <1>1, <1>2 DEF Extends

\* A new table of the middle level, and one of the lowest with an entry.
LEMMA ExtendsMiddle ==
  ASSUME NEW m, NEW m2, NEW r, Tree(m, r), NEW va \in Addresses, NEW pte, NEW g \in Frames \ TablesOf(m, r),
         NEW h \in Frames \ (TablesOf(m, r) \cup {g}),
         Mid(m, r, va) = NoFrame,
         IsTable(m2[r]), IsTable(m2[g]), IsTable(m2[h]),
         \A e \in Entries : m2[r].table[e] = IF e = PX(2, va) THEN Pointer(g) ELSE m[r].table[e],
         \A e \in Entries : m2[g].table[e] = IF e = PX(1, va) THEN Pointer(h) ELSE NoPte,
         \A e \in Entries : m2[h].table[e] = IF e = PX(0, va) THEN pte ELSE NoPte,
         \A x \in TablesOf(m, r) \ {r} : m2[x] = m[x]
  PROVE  /\ Extends(m, m2, r, va, g, h, pte)
         /\ \A x \in TablesOf(m, r) \cup ({g, h} \ {NoFrame}) : IsTable(m2[x])
<1>1. \A x \in TablesOf(m, r) \cup ({g, h} \ {NoFrame}) : IsTable(m2[x]) BY DEF Tree
<1>2. ASSUME NEW vb \in Addresses
      PROVE  /\ Mid(m2, r, vb) = IF PX(2, vb) = PX(2, va) THEN g ELSE Mid(m, r, vb)
             /\ Low(m2, r, vb) = IF PX(2, vb) = PX(2, va) /\ PX(1, vb) = PX(1, va)
                                   THEN h ELSE Low(m, r, vb)
             /\ Ent(m2, r, vb) = IF vb = va THEN pte ELSE Ent(m, r, vb)
  <2>1. /\ PX(2, vb) \in Entries /\ PX(2, va) \in Entries
        /\ PX(1, vb) \in Entries /\ PX(1, va) \in Entries /\ PX(0, vb) \in Entries /\ PX(0, va) \in Entries
    BY PxIn
  <2>2. Pointer(g).pa = g /\ g # NoFrame /\ h # NoFrame /\ NoPte.pa = NoFrame BY Ptes, Constants
  <2>3. Pointer(h).pa = h BY Ptes
  <2>4. Mid(m2, r, vb) = IF PX(2, vb) = PX(2, va) THEN g ELSE Mid(m, r, vb)
    BY <2>1, <2>2 DEF Mid
  <2>5. PX(2, vb) = PX(2, va) => Mid(m, r, vb) = NoFrame /\ Low(m, r, vb) = NoFrame /\ Ent(m, r, vb) = NoPte
    BY Zenon DEF Mid, Low, Ent
  <2>6. Low(m2, r, vb) = IF PX(2, vb) = PX(2, va) /\ PX(1, vb) = PX(1, va) THEN h ELSE Low(m, r, vb)
    <3>1. CASE PX(2, vb) = PX(2, va)
      <4>1. Low(m2, r, vb) = m2[g].table[PX(1, vb)].pa BY <2>2, <2>4, <3>1 DEF Low
      <4> QED BY <2>1, <2>2, <2>3, <2>5, <3>1, <4>1
    <3>2. CASE PX(2, vb) # PX(2, va)
      <4>1. Mid(m, r, vb) # NoFrame => m2[Mid(m, r, vb)] = m[Mid(m, r, vb)]
        BY TreeFacts DEF Tree
      <4> QED BY <2>4, <3>2, <4>1 DEF Low
    <3> QED BY <3>1, <3>2
  <2>7. Ent(m2, r, vb) = IF vb = va THEN pte ELSE Ent(m, r, vb)
    <3>1. CASE PX(2, vb) = PX(2, va) /\ PX(1, vb) = PX(1, va)
      <4>1. PX(0, vb) = PX(0, va) => vb = va BY <3>1, PxTells
      <4>2. Ent(m2, r, vb) = m2[h].table[PX(0, vb)] BY <2>2, <2>6, <3>1 DEF Ent
      <4> QED BY <2>1, <2>5, <3>1, <4>1, <4>2
    <3>2. CASE ~ (PX(2, vb) = PX(2, va) /\ PX(1, vb) = PX(1, va))
      <4>1. Low(m2, r, vb) = Low(m, r, vb) /\ vb # va BY <2>6, <3>2
      <4>2. Low(m, r, vb) # NoFrame => Low(m, r, vb) \in TablesOf(m, r) /\ Low(m, r, vb) # r
        BY TreeFacts DEF Tree
      <4> QED BY <4>1, <4>2 DEF Ent
    <3> QED BY <3>1, <3>2
  <2> QED BY <2>4, <2>6, <2>7
<1> QED BY <1>1, <1>2 DEF Extends

\* A page-table page in which nothing is mapped yet.
LEMMA ExtendsEmpty ==
  ASSUME NEW m, NEW m2, NEW r, Tree(m, r), NEW va \in Addresses, NEW g \in Frames \ TablesOf(m, r),
         Mid(m, r, va) = NoFrame, IsTable(m2[r]), IsTable(m2[g]),
         \A e \in Entries : m2[r].table[e] = IF e = PX(2, va) THEN Pointer(g) ELSE m[r].table[e],
         \A e \in Entries : m2[g].table[e] = NoPte,
         \A x \in TablesOf(m, r) \ {r} : m2[x] = m[x]
  PROVE  /\ Extends(m, m2, r, va, g, NoFrame, NoPte)
         /\ \A x \in TablesOf(m, r) \cup ({g, NoFrame} \ {NoFrame}) : IsTable(m2[x])
<1>1. \A x \in TablesOf(m, r) \cup ({g, NoFrame} \ {NoFrame}) : IsTable(m2[x]) BY DEF Tree
<1>2. ASSUME NEW vb \in Addresses
      PROVE  /\ Mid(m2, r, vb) = IF PX(2, vb) = PX(2, va) THEN g ELSE Mid(m, r, vb)
             /\ Low(m2, r, vb) = IF PX(2, vb) = PX(2, va) /\ PX(1, vb) = PX(1, va)
                                   THEN NoFrame ELSE Low(m, r, vb)
             /\ Ent(m2, r, vb) = IF vb = va THEN NoPte ELSE Ent(m, r, vb)
  <2>1. /\ PX(2, vb) \in Entries /\ PX(2, va) \in Entries
        /\ PX(1, vb) \in Entries /\ PX(1, va) \in Entries /\ PX(0, vb) \in Entries /\ PX(0, va) \in Entries
    BY PxIn
  <2>2. Pointer(g).pa = g /\ g # NoFrame /\ NoPte.pa = NoFrame BY Ptes, Constants
  <2>3. Pointer(NoFrame).pa = NoFrame BY Ptes
  <2>4. Mid(m2, r, vb) = IF PX(2, vb) = PX(2, va) THEN g ELSE Mid(m, r, vb)
    BY <2>1, <2>2 DEF Mid
  <2>5. PX(2, vb) = PX(2, va) => Mid(m, r, vb) = NoFrame /\ Low(m, r, vb) = NoFrame /\ Ent(m, r, vb) = NoPte
    BY Zenon DEF Mid, Low, Ent
  <2>6. Low(m2, r, vb) = IF PX(2, vb) = PX(2, va) /\ PX(1, vb) = PX(1, va) THEN NoFrame ELSE Low(m, r, vb)
    <3>1. CASE PX(2, vb) = PX(2, va)
      <4>1. Low(m2, r, vb) = m2[g].table[PX(1, vb)].pa BY <2>2, <2>4, <3>1 DEF Low
      <4> QED BY <2>1, <2>2, <2>3, <2>5, <3>1, <4>1
    <3>2. CASE PX(2, vb) # PX(2, va)
      <4>1. Mid(m, r, vb) # NoFrame => m2[Mid(m, r, vb)] = m[Mid(m, r, vb)]
        BY TreeFacts DEF Tree
      <4> QED BY <2>4, <3>2, <4>1 DEF Low
    <3> QED BY <3>1, <3>2
  <2>7. Ent(m2, r, vb) = IF vb = va THEN NoPte ELSE Ent(m, r, vb)
    <3>1. CASE PX(2, vb) = PX(2, va) /\ PX(1, vb) = PX(1, va)
      <4>1. PX(0, vb) = PX(0, va) => vb = va BY <3>1, PxTells
      <4> QED BY <2>5, <2>6, <3>1, <4>1 DEF Ent
    <3>2. CASE ~ (PX(2, vb) = PX(2, va) /\ PX(1, vb) = PX(1, va))
      <4>1. Low(m2, r, vb) = Low(m, r, vb) /\ vb # va BY <2>6, <3>2
      <4>2. Low(m, r, vb) # NoFrame => Low(m, r, vb) \in TablesOf(m, r) /\ Low(m, r, vb) # r
        BY TreeFacts DEF Tree
      <4> QED BY <4>1, <4>2 DEF Ent
    <3> QED BY <3>1, <3>2
  <2> QED BY <2>4, <2>6, <2>7
<1> QED BY <1>1, <1>2 DEF Extends

\* A set of frames has a first.
LEMMA Least ==
  ASSUME NEW S \in SUBSET Nat, S # {}
  PROVE  \E x \in S : \A y \in S : x <= y
<1> DEFINE R == OpToRel(<, Nat)
<1>1. IsWellFoundedOn(R, Nat) BY NatLessThanWellFounded, Zenon
<1>2. \A x, y \in Nat : y < x => <<y, x>> \in R BY DEF OpToRel
<1> HIDE DEF R
<1>3. PICK x \in S : \A y \in S : ~ (<<y, x>> \in R) BY <1>1, WFMin, Zenon
<1>4. \A y \in S : ~ (y < x) BY <1>2, <1>3
<1>5. \A y \in S : x <= y BY <1>4
<1> QED BY <1>5

\* kalloc() takes a frame of the free list.
LEMMA MinIs ==
  ASSUME NEW S \in SUBSET Nat, S # {}
  PROVE  Min(S) \in S
BY Least DEF Min

\* A set without one of its members.
LEMMA OneLess ==
  ASSUME NEW S, NEW x \in S, IsFiniteSet(S), NEW n \in Nat, Cardinality(S) >= n + 1
  PROVE  IsFiniteSet(S \ {x}) /\ Cardinality(S \ {x}) >= n
<1>1. Cardinality(S) \in Nat BY FS_CardinalityType
<1>2. IsFiniteSet(S \ {x}) /\ Cardinality(S \ {x}) = Cardinality(S) - 1 BY FS_RemoveElement
<1> QED BY <1>1, <1>2

\* kalloc() takes frames that are free, and never one twice.
LEMMA Taken ==
  ASSUME free \subseteq Frames
  PROVE  /\ FreeFrames(1) => Frame1 \in free
         /\ FreeFrames(2) => {Frame1, Frame2} \subseteq free /\ Frame1 # Frame2
         /\ FreeFrames(3) => /\ {Frame1, Frame2, Frame3} \subseteq free /\ Frame1 # Frame2
                             /\ Frame3 \notin {Frame1, Frame2}
         /\ FreeFrames(4) => /\ {Frame1, Frame2, Frame3, Frame4} \subseteq free /\ Frame1 # Frame2
                             /\ Frame3 \notin {Frame1, Frame2} /\ Frame4 \notin {Frame1, Frame2, Frame3}
<1>1. free \subseteq Nat /\ IsFiniteSet(free)
  <2>1. IsFiniteSet(Frames) BY Constants, FS_Interval DEF Frames
  <2> QED BY <2>1, FS_Subset, Constants
<1>2. ASSUME NEW S \in SUBSET free, IsFiniteSet(S), NEW n \in Nat, Cardinality(S) >= n + 1
      PROVE  Min(S) \in S /\ IsFiniteSet(S \ {Min(S)}) /\ Cardinality(S \ {Min(S)}) >= n
  <2>1. S # {} BY <1>2, FS_EmptySet
  <2>2. Min(S) \in S BY <1>1, <2>1, MinIs
  <2> QED BY <1>2, <2>2, OneLess
<1>3. ASSUME NEW n \in Nat, FreeFrames(n + 1)
      PROVE  /\ Frame1 \in free /\ IsFiniteSet(free \ {Frame1})
             /\ Cardinality(free \ {Frame1}) >= n
  BY <1>1, <1>2, <1>3 DEF FreeFrames, Frame1
<1>4. ASSUME NEW n \in Nat, FreeFrames(n + 1 + 1)
      PROVE  /\ Frame1 \in free /\ Frame2 \in free \ {Frame1} /\ IsFiniteSet(free \ {Frame1, Frame2})
             /\ Cardinality(free \ {Frame1, Frame2}) >= n
  <2>1. Frame1 \in free /\ IsFiniteSet(free \ {Frame1}) /\ Cardinality(free \ {Frame1}) >= n + 1
    BY <1>3, <1>4
  <2>2. (free \ {Frame1}) \ {Frame2} = free \ {Frame1, Frame2} OBVIOUS
  <2> QED BY <1>2, <2>1, <2>2 DEF Frame2
<1>5. ASSUME NEW n \in Nat, FreeFrames(n + 1 + 1 + 1)
      PROVE  /\ Frame1 \in free /\ Frame2 \in free \ {Frame1} /\ Frame3 \in free \ {Frame1, Frame2}
             /\ IsFiniteSet(free \ {Frame1, Frame2, Frame3})
             /\ Cardinality(free \ {Frame1, Frame2, Frame3}) >= n
  <2>1. /\ Frame1 \in free /\ Frame2 \in free \ {Frame1} /\ IsFiniteSet(free \ {Frame1, Frame2})
        /\ Cardinality(free \ {Frame1, Frame2}) >= n + 1
    BY <1>4, <1>5
  <2>2. (free \ {Frame1, Frame2}) \ {Frame3} = free \ {Frame1, Frame2, Frame3} OBVIOUS
  <2> QED BY <1>2, <2>1, <2>2 DEF Frame3
<1>6. ASSUME FreeFrames(4)
      PROVE  /\ Frame1 \in free /\ Frame2 \in free \ {Frame1} /\ Frame3 \in free \ {Frame1, Frame2}
             /\ Frame4 \in free \ {Frame1, Frame2, Frame3}
  <2>1. /\ Frame1 \in free /\ Frame2 \in free \ {Frame1} /\ Frame3 \in free \ {Frame1, Frame2}
        /\ IsFiniteSet(free \ {Frame1, Frame2, Frame3})
        /\ Cardinality(free \ {Frame1, Frame2, Frame3}) >= 0 + 1
    <3>1. 1 + 1 + 1 + 1 = 4 /\ 0 + 1 = 1 OBVIOUS
    <3> QED BY <1>5, <1>6, <3>1
  <2> QED BY <1>2, <2>1 DEF Frame4
<1>7. 0 + 1 = 1 /\ 0 + 1 + 1 = 2 /\ 0 + 1 + 1 + 1 = 3 OBVIOUS
<1>8. FreeFrames(1) => Frame1 \in free BY <1>3, <1>7
<1>9. FreeFrames(2) => Frame1 \in free /\ Frame2 \in free \ {Frame1} BY <1>4, <1>7
<1>10. FreeFrames(3) => Frame1 \in free /\ Frame2 \in free \ {Frame1} /\ Frame3 \in free \ {Frame1, Frame2}
  BY <1>5, <1>7
<1> QED BY <1>6, <1>8, <1>9, <1>10

\* A table, a page that is given back, and data are not the kernel's own frames.
LEMMA Kinds ==
  /\ \A x : IsTable(x) => x # Data("kernel")
  /\ Junk # Data("kernel") /\ Zero # Data("kernel")
  /\ \A v : v # "kernel" => Data(v) # Data("kernel")
<1>1. ASSUME NEW x, IsTable(x) PROVE x # Data("kernel") BY <1>1 DEF IsTable, Data
<1> QED BY <1>1 DEF Junk, Zero, Data

\* The kernel's own frames are never written.
LEMMA SameManaged ==
  ASSUME NEW m, NEW m2, NEW r, NEW F, Tree(m, r), F \subseteq Managed(m),
         \A x \in Frames \ (TablesOf(m, r) \cup F) : m2[x] = m[x],
         \A x \in TablesOf(m, r) : IsTable(m2[x]),
         \A x \in F : m2[x] # Data("kernel")
  PROVE  Managed(m2) = Managed(m)
<1>1. \A x \in Frames : m2[x] # Data("kernel") <=> m[x] # Data("kernel")
  <2> TAKE x \in Frames
  <2>1. CASE x \in TablesOf(m, r) BY <2>1, Kinds DEF Tree
  <2>2. CASE x \in F BY <2>2, Kinds DEF Managed
  <2>3. CASE x \notin TablesOf(m, r) \cup F BY <2>3
  <2> QED BY <2>1, <2>2, <2>3
<1> QED BY <1>1 DEF Managed

\* A page with its tables, from frames that were free.
PageMade(root, va, contents, perm, g1, g0, F) ==
  /\ F \subseteq free /\ free' = free \ F /\ Frame1 \in F
  /\ Extends(ram, ram', root, va, g1, g0, [pa |-> Frame1, perm |-> perm])
  /\ Tree(ram', root) /\ SpaceOf(ram', root) = SpaceOf(ram, root) \cup F
  /\ ram'[Frame1] = contents /\ ram' = [f \in Frames |-> ram'[f]]
  /\ \A x \in Frames \ (TablesOf(ram, root) \cup F) : ram'[x] = ram[x]
  /\ Managed(ram') = Managed(ram) /\ panic' = FALSE

\* kalloc() and mappages() of the first page that is not mapped, at whatever level walk()
\* has to make page-table pages.
LEMMA Paged ==
  ASSUME NEW root, NEW va \in Addresses \ Top, NEW contents, NEW perm, NewPage(root, va, contents, perm),
         ram = [f \in Frames |-> ram[f]], Tree(ram, root), Ent(ram, root, va).pa = NoFrame,
         free \subseteq Managed(ram), free \cap SpaceOf(ram, root) = {}, contents # Data("kernel")
  PROVE  \E g1, g0, F : PageMade(root, va, contents, perm, g1, g0, F)
<1> DEFINE pte == [pa |-> Frame1, perm |-> perm]
           Goal(g1, g0, F) ==
           /\ F \subseteq free /\ free' = free \ F /\ Frame1 \in F
           /\ Extends(ram, ram', root, va, g1, g0, pte)
           /\ Tree(ram', root) /\ SpaceOf(ram', root) = SpaceOf(ram, root) \cup F
           /\ ram'[Frame1] = contents /\ ram' = [f \in Frames |-> ram'[f]]
           /\ \A x \in Frames \ (TablesOf(ram, root) \cup F) : ram'[x] = ram[x]
           /\ Managed(ram') = Managed(ram) /\ panic' = FALSE
<1> SUFFICES \E g1, g0, F : Goal(g1, g0, F)
  BY Zenon DEF PageMade
<1>1. Next1(root, va) = Mid(ram, root, va) /\ Next0(root, va) = Low(ram, root, va)
        /\ Pte(root, va) = Ent(ram, root, va)
  BY Zenon DEF Next1, Next0, Pte, Mid, Low, Ent
<1>2. panic' = FALSE BY <1>1 DEF NewPage
<1>3. free \subseteq Frames /\ PX(0, va) \in Entries /\ PX(1, va) \in Entries /\ PX(2, va) \in Entries
  BY PxIn DEF Managed
<1>4. free \cap TablesOf(ram, root) = {} /\ root \in TablesOf(ram, root)
        /\ TablesOf(ram, root) \subseteq SpaceOf(ram, root)
      /\ TablesOf(ram, root) \subseteq Frames
  BY TreeFacts, Constants DEF SpaceOf, Tree
<1>5. ASSUME Frame1 \in free PROVE pte.pa = Frame1 /\ IsPte(pte) /\ pte.pa # NoFrame
  BY <1>3, <1>5, Ptes
<1>7. ASSUME Missing(root, va) = 0, FreeFrames(1), free' = free \ {Frame1},
             ram' = [ram EXCEPT ![Frame1] = contents, ![Next0(root, va)].table[PX(0, va)] = pte]
      PROVE  \E g1, g0, F : Goal(g1, g0, F)
  <2> DEFINE low == Low(ram, root, va)
  <2>1. low # NoFrame /\ low \in TablesOf(ram, root) /\ IsTable(ram[low]) /\ low \in Frames
    BY <1>1, <1>7, TreeFacts DEF Missing
  <2>2. Frame1 \in free /\ Frame1 \in Frames /\ Frame1 # low BY <1>3, <1>4, <1>7, <2>1, Taken
  <2>3. ram' = [ram EXCEPT ![Frame1] = contents, ![low].table[PX(0, va)] = pte] BY <1>1, <1>7
  <2> HIDE DEF low
  <2>4. ram'[low] = [ram[low] EXCEPT !.table[PX(0, va)] = pte] BY <2>1, <2>2, <2>3
  <2>5. ram'[Frame1] = contents /\ \A x \in Frames \ {low, Frame1} : ram'[x] = ram[x]
    BY <2>1, <2>2, <2>3
  <2>6. ram' = [f \in Frames |-> ram'[f]] BY <2>3
  <2>7. IsTable(ram'[low]) /\ \A e \in Entries : ram'[low].table[e] = IF e = PX(0, va) THEN pte
          ELSE ram[low].table[e]
    BY <1>3, <1>5, <2>1, <2>2, <2>4, TableSet
  <2>8. \A x \in TablesOf(ram, root) \ {low} : ram'[x] = ram[x] BY <1>4, <2>2, <2>5
  <2> USE DEF low
  <2>9. /\ Extends(ram, ram', root, va, Mid(ram, root, va), low, pte)
        /\ \A x \in TablesOf(ram, root) : IsTable(ram'[x])
    BY <2>1, <2>7, <2>8, ExtendsHere
  <2>10. Added(ram, root, va, Mid(ram, root, va), low, pte)
    <3>1. low # Mid(ram, root, va) BY <2>1 DEF Tree
    <3>2. Frame1 \in Frames \ (SpaceOf(ram, root) \cup {Mid(ram, root, va), low})
      BY <1>4, <2>1, <2>2, TreeFacts, Constants
    <3> QED BY <1>5, <2>2, <3>1, <3>2 DEF Added
  <2>11. \A x \in TablesOf(ram, root) \cup ({Mid(ram, root, va), low} \ {NoFrame}) : IsTable(ram'[x])
    BY <2>1, <2>9, TreeFacts
  <2>12. Tree(ram', root)
           /\ SpaceOf(ram', root) = SpaceOf(ram, root) \cup NewFrames(va, Mid(ram, root, va), low, pte)
    BY <2>9, <2>10, <2>11, Extended
  <2>13. SpaceOf(ram, root) \cup NewFrames(va, Mid(ram, root, va), low, pte) = SpaceOf(ram, root) \cup {Frame1}
    BY <1>4, <1>5, <2>1, <2>2, TreeFacts DEF NewFrames
  <2>14. Managed(ram') = Managed(ram)
    <3> DEFINE F == {Frame1}
    <3>1. \A x \in Frames \ (TablesOf(ram, root) \cup F) : ram'[x] = ram[x] BY <2>1, <2>5
    <3>2. F \subseteq Managed(ram) /\ \A x \in F : ram'[x] # Data("kernel") BY <2>2, <2>5
    <3> HIDE DEF F
    <3> QED BY <2>9, <3>1, <3>2, SameManaged
  <2>15. Goal(Mid(ram, root, va), low, {Frame1})
    BY <1>2, <1>7, <2>2, <2>5, <2>6, <2>9, <2>12, <2>13, <2>14, <2>1
  <2> QED BY <2>15
<1>8. ASSUME Missing(root, va) = 1, FreeFrames(2), free' = free \ {Frame1, Frame2},
             ram' = [ram EXCEPT ![Frame1] = contents,
                              ![Next1(root, va)].table[PX(1, va)] = Pointer(Frame2),
                              ![Frame2] = Table(PX(0, va), pte)]
      PROVE  \E g1, g0, F : Goal(g1, g0, F)
  <2> DEFINE mid == Mid(ram, root, va)
  <2>1. mid # NoFrame /\ mid \in TablesOf(ram, root) /\ IsTable(ram[mid]) /\ mid \in Frames
        /\ Low(ram, root, va) = NoFrame
    BY <1>1, <1>8, TreeFacts DEF Missing
  <2>2. Frame1 \in free /\ Frame2 \in free /\ Frame1 # Frame2 /\ Frame1 # mid /\ Frame2 # mid
        /\ Frame1 \in Frames /\ Frame2 \in Frames
    BY <1>3, <1>4, <1>8, <2>1, Taken
  <2>3. ram' = [ram EXCEPT ![Frame1] = contents, ![mid].table[PX(1, va)] = Pointer(Frame2),
                           ![Frame2] = Table(PX(0, va), pte)]
    BY <1>1, <1>8
  <2> HIDE DEF mid
  <2>4. ram'[mid] = [ram[mid] EXCEPT !.table[PX(1, va)] = Pointer(Frame2)]
          /\ ram'[Frame2] = Table(PX(0, va), pte)
    BY <2>1, <2>2, <2>3
  <2>5. ram'[Frame1] = contents /\ \A x \in Frames \ {mid, Frame1, Frame2} : ram'[x] = ram[x]
    BY <2>1, <2>2, <2>3
  <2>6. ram' = [f \in Frames |-> ram'[f]] BY <2>3
  <2>7. IsTable(ram'[mid]) /\ \A e \in Entries : ram'[mid].table[e] = IF e = PX(1, va)
          THEN Pointer(Frame2) ELSE ram[mid].table[e]
    BY <1>3, <2>1, <2>2, <2>4, TableSet, Ptes
  <2>8. IsTable(ram'[Frame2]) /\ \A e \in Entries : ram'[Frame2].table[e] = IF e = PX(0, va) THEN pte ELSE NoPte
    BY <1>3, <1>5, <2>2, <2>4, TableNew
  <2>9. \A x \in TablesOf(ram, root) \ {mid} : ram'[x] = ram[x] BY <1>4, <2>2, <2>5
  <2>10. Frame2 \in Frames \ TablesOf(ram, root) BY <1>4, <2>2
  <2> USE DEF mid
  <2>11. /\ Extends(ram, ram', root, va, mid, Frame2, pte)
         /\ \A x \in TablesOf(ram, root) \cup {Frame2} : IsTable(ram'[x])
    BY <2>1, <2>7, <2>8, <2>9, <2>10, ExtendsLowest
  <2>12. Added(ram, root, va, mid, Frame2, pte)
    <3>1. Frame1 \in Frames \ (SpaceOf(ram, root) \cup {mid, Frame2}) BY <1>4, <2>1, <2>2
    <3>2. Frame2 \in Frames \ SpaceOf(ram, root) BY <1>4, <2>1, <2>2
    <3> QED BY <1>5, <2>1, <2>2, <3>1, <3>2 DEF Added
  <2>13. \A x \in TablesOf(ram, root) \cup ({mid, Frame2} \ {NoFrame}) : IsTable(ram'[x])
    BY <2>1, <2>11, TreeFacts
  <2>14. Tree(ram', root) /\ SpaceOf(ram', root) = SpaceOf(ram, root) \cup NewFrames(va, mid, Frame2, pte)
    BY <2>11, <2>12, <2>13, Extended
  <2>15. SpaceOf(ram, root) \cup NewFrames(va, mid, Frame2, pte) = SpaceOf(ram, root) \cup {Frame1, Frame2}
    BY <1>4, <1>5, <2>1, <2>2, Constants DEF NewFrames
  <2>16. Managed(ram') = Managed(ram)
    <3> DEFINE F == {Frame1, Frame2}
    <3>1. \A x \in Frames \ (TablesOf(ram, root) \cup F) : ram'[x] = ram[x] BY <2>1, <2>5
    <3>2. /\ F \subseteq Managed(ram)
          /\ \A x \in F : ram'[x] # Data("kernel")
      BY <2>2, <2>5, <2>8, Kinds
    <3>3. \A x \in TablesOf(ram, root) : IsTable(ram'[x]) BY <2>11
    <3> HIDE DEF F
    <3> QED BY <3>1, <3>2, <3>3, SameManaged
  <2>17. Goal(mid, Frame2, {Frame1, Frame2})
    BY <1>2, <1>8, <2>1, <2>2, <2>5, <2>6, <2>11, <2>14, <2>15, <2>16
  <2> QED BY <2>17
<1>9. ASSUME Missing(root, va) = 2, FreeFrames(3), free' = free \ {Frame1, Frame2, Frame3},
             ram' = [ram EXCEPT ![Frame1] = contents,
                              ![root].table[PX(2, va)] = Pointer(Frame2),
                              ![Frame2] = Table(PX(1, va), Pointer(Frame3)),
                              ![Frame3] = Table(PX(0, va), pte)]
      PROVE  \E g1, g0, F : Goal(g1, g0, F)
  <2>1. Mid(ram, root, va) = NoFrame /\ Low(ram, root, va) = NoFrame /\ root \in Frames /\ IsTable(ram[root])
    BY <1>1, <1>9, TreeFacts DEF Missing
  <2>2. /\ {Frame1, Frame2, Frame3} \subseteq free /\ {Frame1, Frame2, Frame3} \subseteq Frames
        /\ Frame1 # Frame2 /\ Frame1 # Frame3 /\ Frame2 # Frame3 /\ root \notin {Frame1, Frame2, Frame3}
    BY <1>3, <1>4, <1>9, Taken
  <2>4. /\ ram'[root] = [ram[root] EXCEPT !.table[PX(2, va)] = Pointer(Frame2)]
        /\ ram'[Frame2] = Table(PX(1, va), Pointer(Frame3)) /\ ram'[Frame3] = Table(PX(0, va), pte)
    BY <1>9, <2>1, <2>2
  <2>5. ram'[Frame1] = contents /\ \A x \in Frames \ {root, Frame1, Frame2, Frame3} : ram'[x] = ram[x]
    BY <1>9, <2>1, <2>2
  <2>6. ram' = [f \in Frames |-> ram'[f]] BY <1>9
  <2>7. IsTable(ram'[root]) /\ \A e \in Entries : ram'[root].table[e] = IF e = PX(2, va)
          THEN Pointer(Frame2) ELSE ram[root].table[e]
    <3> DEFINE x == ram[root]
    <3>1. Frame2 \in Frames /\ ram'[root] = [x EXCEPT !.table[PX(2, va)] = Pointer(Frame2)]
      BY <2>2, <2>4
    <3>2. IsTable(x) /\ PX(2, va) \in Entries /\ IsPte(Pointer(Frame2))
      BY <1>3, <2>1, <3>1, Ptes
    <3> HIDE DEF x
    <3>3. /\ IsTable([x EXCEPT !.table[PX(2, va)] = Pointer(Frame2)])
          /\ \A e \in Entries : [x EXCEPT !.table[PX(2, va)] = Pointer(Frame2)].table[e]
                                = IF e = PX(2, va) THEN Pointer(Frame2) ELSE x.table[e]
      BY <3>2, TableSet
    <3> QED BY <3>1, <3>3 DEF x
  <2>8. /\ IsTable(ram'[Frame2]) /\ \A e \in Entries : ram'[Frame2].table[e] = IF e = PX(1, va)
             THEN Pointer(Frame3) ELSE NoPte
        /\ IsTable(ram'[Frame3]) /\ \A e \in Entries : ram'[Frame3].table[e] = IF e = PX(0, va)
             THEN pte ELSE NoPte
    BY <1>3, <1>5, <2>2, <2>4, TableNew, Ptes
  <2>9. \A x \in TablesOf(ram, root) \ {root} : ram'[x] = ram[x] BY <1>4, <2>2, <2>5
  <2>10. Frame2 \in Frames \ TablesOf(ram, root) /\ Frame3 \in Frames \ (TablesOf(ram, root) \cup {Frame2})
         /\ Frame3 # NoFrame
    BY <1>4, <2>2, Constants
  <2>11. /\ Extends(ram, ram', root, va, Frame2, Frame3, pte)
         /\ \A x \in TablesOf(ram, root) \cup ({Frame2, Frame3} \ {NoFrame}) : IsTable(ram'[x])
    <3>1. PICK m2, g, h, x : m2 = ram' /\ g = Frame2 /\ h = Frame3 /\ x = pte OBVIOUS
    <3>2. /\ va \in Addresses /\ Mid(ram, root, va) = NoFrame /\ Tree(ram, root)
          /\ g \in Frames \ TablesOf(ram, root) /\ h \in Frames \ (TablesOf(ram, root) \cup {g})
          /\ IsTable(m2[root]) /\ IsTable(m2[g]) /\ IsTable(m2[h])
      BY <2>1, <2>7, <2>8, <2>10, <3>1
    <3>3. \A e \in Entries : m2[root].table[e] = IF e = PX(2, va) THEN Pointer(g) ELSE ram[root].table[e]
      BY <2>7, <3>1
    <3>4. \A e \in Entries : m2[g].table[e] = IF e = PX(1, va) THEN Pointer(h) ELSE NoPte
      BY <2>8, <3>1
    <3>5. \A e \in Entries : m2[h].table[e] = IF e = PX(0, va) THEN x ELSE NoPte BY <2>8, <3>1
    <3>6. \A y \in TablesOf(ram, root) \ {root} : m2[y] = ram[y] BY <2>9, <3>1
    <3>7. /\ Extends(ram, m2, root, va, g, h, x)
          /\ \A y \in TablesOf(ram, root) \cup ({g, h} \ {NoFrame}) : IsTable(m2[y])
      <4>1. Extends(ram, m2, root, va, g, h, x) BY <3>2, <3>3, <3>4, <3>5, <3>6, ExtendsMiddle
      <4>2. \A y \in TablesOf(ram, root) \cup ({g, h} \ {NoFrame}) : IsTable(m2[y])
        BY <3>2, <3>6 DEF Tree
      <4> QED BY <4>1, <4>2
    <3> QED BY <3>1, <3>7
  <2>12. Added(ram, root, va, Frame2, Frame3, pte)
    <3>1. Frame1 \in Frames \ (SpaceOf(ram, root) \cup {Frame2, Frame3}) BY <1>4, <2>2
    <3>2. Frame2 \in Frames \ SpaceOf(ram, root) /\ Frame3 \in Frames \ SpaceOf(ram, root)
      BY <1>4, <2>2
    <3> QED BY <1>5, <2>1, <2>2, <3>1, <3>2 DEF Added
  <2>14. Tree(ram', root) /\ SpaceOf(ram', root) = SpaceOf(ram, root) \cup NewFrames(va, Frame2, Frame3, pte)
    BY <2>11, <2>12, Extended
  <2>15. SpaceOf(ram, root) \cup NewFrames(va, Frame2, Frame3, pte)
           = SpaceOf(ram, root) \cup {Frame1, Frame2, Frame3}
    BY <1>4, <1>5, <2>2, Constants DEF NewFrames
  <2>16. Managed(ram') = Managed(ram)
    <3> DEFINE F == {Frame1, Frame2, Frame3}
    <3>1. \A x \in Frames \ (TablesOf(ram, root) \cup F) : ram'[x] = ram[x] BY <1>4, <2>5
    <3>2. /\ F \subseteq Managed(ram)
          /\ \A x \in F : ram'[x] # Data("kernel")
      BY <2>2, <2>5, <2>8, Kinds
    <3>3. \A x \in TablesOf(ram, root) : IsTable(ram'[x]) BY <2>11
    <3> HIDE DEF F
    <3> QED BY <3>1, <3>2, <3>3, SameManaged
  <2>17. Goal(Frame2, Frame3, {Frame1, Frame2, Frame3})
    BY <1>2, <1>4, <1>9, <2>2, <2>5, <2>6, <2>11, <2>14, <2>15, <2>16
  <2> QED BY <2>17
<1> HIDE DEF Goal
<1> QED BY <1>7, <1>8, <1>9 DEF NewPage

\* proc_pagetable(): a page table with the two pages of the kernel.
OnFrames(m) == m = [f \in Frames |-> m[f]]

\* The memory m2 is m and a new page table at r, whose tables are r, g and h.
Space(m, m2, r, g, h) ==
  /\ Tree(m2, r) /\ SpaceOf(m2, r) = {r, g, h} /\ TablesOf(m2, r) = {r, g, h} /\ Maps(m2, r, 0)
  /\ OnFrames(m2)
  /\ \A x \in Frames \ {r, g, h} : m2[x] = m[x]
  /\ \A va \in Addresses : PX(2, va) = 0 => Mid(m2, r, va) = NoFrame
  /\ Mid(m2, r, TRAMPOLINE) = g

\* proc_pagetable() maps the two pages of the kernel and nothing else.
LEMMA NewSpace ==
  ASSUME NEW m, OnFrames(m), NEW r, NEW g, NEW h, NEW tf,
         r \in Frames, g \in Frames, h \in Frames, tf \in Frames, r # g, r # h, g # h
  PROVE  Space(m, SpaceTables(m, r, g, h, tf), r, g, h)
<1> DEFINE m2 == SpaceTables(m, r, g, h, tf)
<1> HIDE DEF m2
<1> USE DEF OnFrames
<1> DEFINE t == TRAMPOLINE
           tp == [pa |-> Trampoline, perm |-> {"R", "X"}]
           sp == [pa |-> tf, perm |-> {"R", "W"}]
           m0 == [m EXCEPT ![r] = Table(0, NoPte)]
           m1 == [m0 EXCEPT ![r] = Table(PX(2, t), Pointer(g)), ![g] = Table(PX(1, t), Pointer(h)),
                            ![h] = Table(PX(0, t), tp)]
<1>1. /\ t \in Addresses /\ TRAPFRAME \in Addresses /\ t # TRAPFRAME /\ PX(2, t) = PX(2, TRAPFRAME)
      /\ PX(1, t) = PX(1, TRAPFRAME) /\ PX(0, t) # PX(0, TRAPFRAME) /\ PX(0, TRAPFRAME) \in Entries
      /\ PX(0, t) \in Entries /\ PX(1, t) \in Entries /\ PX(2, t) \in Entries /\ PX(2, t) # 0 /\ 0 \in Entries
  <2>1. t \in Addresses /\ TRAPFRAME \in Addresses /\ t # TRAPFRAME /\ 0 \in Addresses BY PxTop
  <2>2. /\ PX(2, t) = PX(2, TRAPFRAME) /\ PX(1, t) = PX(1, TRAPFRAME)
        /\ PX(0, t) # PX(0, TRAPFRAME) /\ PX(2, t) # 0
    BY PxTop, Constants
  <2>3. /\ PX(0, TRAPFRAME) \in Entries /\ PX(0, t) \in Entries /\ PX(1, t) \in Entries /\ PX(2, t) \in Entries
        /\ PX(2, 0) \in Entries
    BY <2>1, PxIn
  <2> QED BY <2>1, <2>2, <2>3, PxTop
<1>2. IsPte(NoPte) /\ IsPte(tp) /\ IsPte(sp) /\ IsPte(Pointer(g)) /\ IsPte(Pointer(h))
        /\ tp.pa # NoFrame /\ sp.pa # NoFrame
  BY Ptes
<1>3. r # NoFrame /\ g # NoFrame /\ h # NoFrame BY Constants
<1>4. /\ m0[r] = Table(0, NoPte) /\ m1[r] = Table(PX(2, t), Pointer(g)) /\ m1[g] = Table(PX(1, t), Pointer(h))
      /\ m1[h] = Table(PX(0, t), tp)
  OBVIOUS
<1>5. /\ m2[r] = Table(PX(2, t), Pointer(g)) /\ m2[g] = Table(PX(1, t), Pointer(h))
      /\ m2[h] = [table |-> [e \in Entries |->
              CASE e = PX(0, TRAMPOLINE) -> [pa |-> Trampoline, perm |-> {"R", "X"}]
                [] e = PX(0, TRAPFRAME) -> [pa |-> tf, perm |-> {"R", "W"}]
                [] OTHER -> NoPte]]
      /\ m2 = [f \in Frames |-> m2[f]] /\ \A x \in Frames \ {r, g, h} : m2[x] = m[x]
  BY DEF SpaceTables, m2
<1>6. m2[h] = [table |-> [e \in Entries |->
                 IF e = PX(0, t) THEN tp ELSE IF e = PX(0, TRAPFRAME) THEN sp ELSE NoPte]]
  BY <1>1, <1>5
<1> HIDE DEF m0, m1, tp, sp
<1>7. IsTable(m0[r]) /\ \A e \in Entries : m0[r].table[e] = NoPte BY <1>1, <1>2, <1>4, TableNew
<1>8. \A va \in Addresses : Mid(m0, r, va) = NoFrame /\ Low(m0, r, va) = NoFrame /\ Ent(m0, r, va) = NoPte
  BY <1>7, PxIn, Ptes, Zenon DEF Mid, Low, Ent
<1>9. TablesOf(m0, r) = {r} /\ LeavesOf(m0, r) = {} BY <1>3, <1>8, Ptes DEF TablesOf, LeavesOf
<1>10. Tree(m0, r) /\ SpaceOf(m0, r) = {r} BY <1>3, <1>7, <1>8, <1>9, Ptes DEF Tree, SpaceOf
<1>11. /\ IsTable(m1[r]) /\ \A e \in Entries : m1[r].table[e] = IF e = PX(2, t) THEN Pointer(g) ELSE NoPte
       /\ IsTable(m1[g]) /\ \A e \in Entries : m1[g].table[e] = IF e = PX(1, t) THEN Pointer(h) ELSE NoPte
       /\ IsTable(m1[h]) /\ \A e \in Entries : m1[h].table[e] = IF e = PX(0, t) THEN tp ELSE NoPte
  BY <1>1, <1>2, <1>4, TableNew
<1>12. /\ Extends(m0, m1, r, t, g, h, tp)
       /\ \A x \in TablesOf(m0, r) \cup ({g, h} \ {NoFrame}) : IsTable(m1[x])
  <2>1. g \in Frames \ TablesOf(m0, r) /\ h \in Frames \ (TablesOf(m0, r) \cup {g}) BY <1>9
  <2>2. \A e \in Entries : m1[r].table[e] = IF e = PX(2, t) THEN Pointer(g) ELSE m0[r].table[e]
    BY <1>7, <1>11
  <2>3. \A x \in TablesOf(m0, r) \ {r} : m1[x] = m0[x] BY <1>9
  <2> QED BY <1>1, <1>3, <1>8, <1>10, <1>11, <2>1, <2>2, <2>3, ExtendsMiddle
<1>13. Tree(m1, r) /\ SpaceOf(m1, r) = {r, g, h} /\ TablesOf(m1, r) = {r, g, h}
  <2>1. t \in Top BY DEF Top
  <2>2. Added(m0, r, t, g, h, tp) BY <1>1, <1>8, <1>10, <2>1 DEF Added
  <2>3. NewFrames(t, g, h, tp) = {g, h} BY <1>3, <2>1 DEF NewFrames
  <2>4. Tree(m1, r) /\ SpaceOf(m1, r) = SpaceOf(m0, r) \cup NewFrames(t, g, h, tp)
        /\ TablesOf(m1, r) = TablesOf(m0, r) \cup ({g, h} \ {NoFrame})
    BY <1>1, <1>10, <1>12, <2>2, Extended
  <2> QED BY <1>3, <1>9, <1>10, <2>3, <2>4
<1>14. \A va \in Addresses :
         /\ Mid(m1, r, va) = IF PX(2, va) = PX(2, t) THEN g ELSE NoFrame
         /\ Low(m1, r, va) = IF PX(2, va) = PX(2, t) /\ PX(1, va) = PX(1, t) THEN h ELSE NoFrame
         /\ Ent(m1, r, va) = IF va = t THEN tp ELSE NoPte
  BY <1>8, <1>12 DEF Extends
<1>15. Low(m1, r, TRAPFRAME) = h /\ Mid(m1, r, TRAPFRAME) = g BY <1>1, <1>14
<1>16. /\ Extends(m1, m2, r, TRAPFRAME, g, h, sp)
       /\ \A x \in TablesOf(m1, r) : IsTable(m2[x])
  <2>1. IsTable(m2[h]) /\ \A e \in Entries : m2[h].table[e] = IF e = PX(0, TRAPFRAME) THEN sp
          ELSE m1[h].table[e]
    <3>1. \A e \in Entries : m2[h].table[e] = IF e = PX(0, TRAPFRAME) THEN sp ELSE m1[h].table[e]
      BY <1>1, <1>6, <1>11
    <3> QED BY <1>2, <1>6, <3>1 DEF IsTable
  <2>2. \A x \in TablesOf(m1, r) \ {h} : m2[x] = m1[x] BY <1>4, <1>5, <1>13
  <2> QED BY <1>1, <1>3, <1>13, <1>15, <2>1, <2>2, ExtendsHere
<1>17. Tree(m2, r) /\ SpaceOf(m2, r) = {r, g, h} /\ TablesOf(m2, r) = {r, g, h}
  <2>1. TRAPFRAME \in Top BY DEF Top
  <2>2. Added(m1, r, TRAPFRAME, g, h, sp) BY <1>15, <2>1 DEF Added
  <2>3. NewFrames(TRAPFRAME, g, h, sp) = {g, h} BY <1>3, <2>1 DEF NewFrames
  <2>4. \A x \in TablesOf(m1, r) \cup ({g, h} \ {NoFrame}) : IsTable(m2[x]) BY <1>13, <1>16
  <2>5. Tree(m2, r) /\ SpaceOf(m2, r) = SpaceOf(m1, r) \cup NewFrames(TRAPFRAME, g, h, sp)
        /\ TablesOf(m2, r) = TablesOf(m1, r) \cup ({g, h} \ {NoFrame})
    BY <1>1, <1>13, <1>16, <2>2, <2>4, Extended
  <2> QED BY <1>13, <2>3, <2>5
<1>18. \A va \in Addresses :
         /\ Mid(m2, r, va) = IF PX(2, va) = PX(2, t) THEN g ELSE NoFrame
         /\ Ent(m2, r, va) = IF va = t THEN tp ELSE IF va = TRAPFRAME THEN sp ELSE NoPte
  BY <1>1, <1>14, <1>16 DEF Extends
<1>19. Maps(m2, r, 0)
  <2>1. ASSUME NEW va \in Addresses
        PROVE  /\ Ent(m2, r, va).pa # NoFrame <=> va \in 0 .. 0 - 1 \cup Top
               /\ va \in Top => "U" \notin Ent(m2, r, va).perm
               /\ va \notin 0 .. 0 - 1
    <3>1. va \notin 0 .. 0 - 1 BY Constants
    <3>2. Ent(m2, r, va).pa # NoFrame <=> va \in Top BY <1>2, <1>18, Ptes DEF Top
    <3>3. va \in Top => "U" \notin Ent(m2, r, va).perm BY <1>18 DEF Top, tp, sp
    <3> QED BY <3>1, <3>2, <3>3
  <2> QED BY <2>1 DEF Maps
<1>20. \A va \in Addresses : PX(2, va) = 0 => Mid(m2, r, va) = NoFrame BY <1>1, <1>18
<1> QED BY <1>1, <1>5, <1>17, <1>18, <1>19, <1>20 DEF Space, m2

\* The pages K and their frames.
LEMMA UnmappedIs ==
  ASSUME NEW r, ram = [f \in Frames |-> ram[f]], Tree(ram, r), NEW K \in SUBSET (Addresses \ Top),
         \A k \in K : Ent(ram, r, k).pa # NoFrame, SpaceOf(ram, r) \subseteq Managed(ram),
         NEW m2, m2 = Unmapped(r, K)
  PROVE  /\ Tree(m2, r) /\ SpaceOf(m2, r) = SpaceOf(ram, r) \ FramesAt(r, K)
         /\ TablesOf(m2, r) = TablesOf(ram, r)
         /\ FramesAt(r, K) \subseteq LeavesOf(ram, r) /\ FramesAt(r, K) \cap TablesOf(ram, r) = {}
         /\ \A va \in Addresses : /\ Mid(m2, r, va) = Mid(ram, r, va) /\ Low(m2, r, va) = Low(ram, r, va)
                                  /\ Ent(m2, r, va) = IF va \in K THEN NoPte ELSE Ent(ram, r, va)
         /\ \A x \in Frames \ (TablesOf(ram, r) \cup FramesAt(r, K)) : m2[x] = ram[x]
         /\ Managed(m2) = Managed(ram) /\ m2 = [f \in Frames |-> m2[f]]
<1>1. \A va : Next0(r, va) = Low(ram, r, va) /\ Pte(r, va) = Ent(ram, r, va)
  BY Zenon DEF Next1, Next0, Pte, Mid, Low, Ent
<1>2. FramesAt(r, K) = {Ent(ram, r, k).pa : k \in K} BY <1>1 DEF FramesAt
<1>3. FramesAt(r, K) \subseteq LeavesOf(ram, r) /\ FramesAt(r, K) \cap TablesOf(ram, r) = {}
  BY <1>2 DEF LeavesOf, Tree
<1>4. ASSUME NEW x \in TablesOf(ram, r)
      PROVE  /\ (\A k \in K : Low(ram, r, k) # x) => m2[x] = ram[x]
             /\ (\E k \in K : Low(ram, r, k) = x) =>
                  m2[x] = [table |-> [e \in Entries |-> IF \E k \in K : Low(ram, r, k) = x /\ PX(0, k) = e
                                                          THEN NoPte ELSE ram[x].table[e]]]
  <2>1. x \in Frames /\ x \notin FramesAt(r, K) BY <1>3 DEF Tree
  <2>2. m2[x] = IF x \in {Next0(r, k) : k \in K}
                  THEN [table |-> [e \in Entries |-> IF \E k \in K : Next0(r, k) = x /\ PX(0, k) = e
                                                       THEN NoPte ELSE ram[x].table[e]]]
                ELSE ram[x]
    BY <2>1, Zenon DEF Unmapped
  <2>3. ASSUME NEW e \in Entries
        PROVE  (\E k \in K : Next0(r, k) = x /\ PX(0, k) = e)
          <=> (\E k \in K : Low(ram, r, k) = x /\ PX(0, k) = e)
    BY <1>1
  <2>4. (\E k \in K : Low(ram, r, k) = x) <=> x \in {Next0(r, k) : k \in K} BY <1>1
  <2>5. [table |-> [e \in Entries |-> IF \E k \in K : Next0(r, k) = x /\ PX(0, k) = e
                                       THEN NoPte ELSE ram[x].table[e]]]
        = [table |-> [e \in Entries |-> IF \E k \in K : Low(ram, r, k) = x /\ PX(0, k) = e
                                         THEN NoPte ELSE ram[x].table[e]]]
    BY <2>3
  <2> QED BY <2>2, <2>4, <2>5, Zenon
<1>5. \A x \in TablesOf(ram, r) : IsTable(m2[x])
  <2> TAKE x \in TablesOf(ram, r)
  <2>1. IsTable(ram[x]) BY DEF Tree
  <2>2. IsTable([table |-> [e \in Entries |-> IF \E k \in K : Low(ram, r, k) = x /\ PX(0, k) = e
                                                THEN NoPte ELSE ram[x].table[e]]])
    BY <2>1, Ptes DEF IsTable
  <2> QED BY <1>4, <2>1, <2>2, Zenon
<1>6. m2 = [f \in Frames |-> m2[f]] BY DEF Unmapped
<1>7. \A x \in FramesAt(r, K) : m2[x] = Junk BY <1>2 DEF Unmapped, Tree
<1>8. \A x \in Frames \ (TablesOf(ram, r) \cup FramesAt(r, K)) : m2[x] = ram[x]
  <2>1. \A k \in K : Low(ram, r, k) \in TablesOf(ram, r) BY TreeFacts
  <2> QED BY <1>1, <2>1 DEF Unmapped
<1>9. ASSUME NEW va \in Addresses
      PROVE  /\ Mid(m2, r, va) = Mid(ram, r, va) /\ Low(m2, r, va) = Low(ram, r, va)
             /\ Ent(m2, r, va) = IF va \in K THEN NoPte ELSE Ent(ram, r, va)
  <2>1. \A k \in K : Low(ram, r, k) # NoFrame BY TreeFacts
  <2>2. r \in TablesOf(ram, r) /\ r \notin {Low(ram, r, k) : k \in K}
    BY <2>1, TreeFacts DEF Tree
  <2>3. Mid(m2, r, va) = Mid(ram, r, va) BY <1>4, <2>2 DEF Mid
  <2>4. Mid(ram, r, va) # NoFrame =>
          Mid(ram, r, va) \in TablesOf(ram, r) /\ Mid(ram, r, va) \notin {Low(ram, r, k) : k \in K}
    BY <2>1, TreeFacts DEF Tree
  <2>5. Low(m2, r, va) = Low(ram, r, va) BY <1>4, <2>3, <2>4 DEF Low
  <2>6. Low(ram, r, va) # NoFrame => Low(ram, r, va) \in TablesOf(ram, r) BY TreeFacts
  <2>7. ASSUME NEW k \in K, Low(ram, r, k) = Low(ram, r, va), PX(0, k) = PX(0, va) PROVE k = va
    <3>1. PX(2, k) = PX(2, va) /\ PX(1, k) = PX(1, va) BY <2>1, <2>7 DEF Tree
    <3> QED BY <2>7, <3>1, PxTells
  <2>8. ASSUME Low(ram, r, va) # NoFrame
        PROVE  m2[Low(ram, r, va)].table[PX(0, va)] = IF va \in K THEN NoPte
          ELSE ram[Low(ram, r, va)].table[PX(0, va)]
    <3> DEFINE x == Low(ram, r, va)
               e == PX(0, va)
    <3>1. x \in TablesOf(ram, r) /\ e \in Entries BY <2>6, <2>8, PxIn
    <3>2. (\E k \in K : Low(ram, r, k) = x /\ PX(0, k) = e) <=> va \in K BY <2>7
    <3> HIDE DEF x, e
    <3>3. CASE \A k \in K : Low(ram, r, k) # x
      <4>1. m2[x] = ram[x] /\ va \notin K BY <1>4, <3>1, <3>2, <3>3 DEF x
      <4> QED BY <4>1 DEF x, e
    <3>4. CASE \E k \in K : Low(ram, r, k) = x
      <4>1. m2[x] = [table |-> [y \in Entries |-> IF \E k \in K : Low(ram, r, k) = x /\ PX(0, k) = y
                                                   THEN NoPte ELSE ram[x].table[y]]]
        BY <1>4, <3>1, <3>4, Zenon
      <4>2. m2[x].table[e] = IF \E k \in K : Low(ram, r, k) = x /\ PX(0, k) = e THEN NoPte ELSE ram[x].table[e]
        BY <3>1, <4>1
      <4> QED BY <3>2, <4>2 DEF x, e
    <3> QED BY <3>3, <3>4
  <2>9. Ent(m2, r, va) = IF va \in K THEN NoPte ELSE Ent(ram, r, va) BY <2>1, <2>5, <2>8 DEF Ent
  <2> QED BY <2>3, <2>5, <2>9
<1>10. Tree(m2, r) /\ TablesOf(m2, r) = TablesOf(ram, r)
  <2>1. \A va \in Addresses : Ent(m2, r, va).pa \in {NoFrame, Ent(ram, r, va).pa} BY <1>9, Ptes
  <2> QED BY <1>5, <1>9, <2>1, Changed
<1>11. LeavesOf(m2, r) = LeavesOf(ram, r) \ FramesAt(r, K)
  <2>1. LeavesOf(m2, r) = {Ent(ram, r, va).pa : va \in (Addresses \ Top) \ K} \ {NoFrame}
    BY <1>9, Ptes DEF LeavesOf
  <2>2. \A va \in (Addresses \ Top) \ K : Ent(ram, r, va).pa # NoFrame
          => Ent(ram, r, va).pa \notin FramesAt(r, K)
    BY <1>2 DEF Tree
  <2> QED BY <1>2, <2>1, <2>2 DEF LeavesOf
<1>12. SpaceOf(m2, r) = SpaceOf(ram, r) \ FramesAt(r, K)
  BY <1>3, <1>10, <1>11, Constants DEF SpaceOf, Tree
<1>13. Managed(m2) = Managed(ram)
  <2>1. FramesAt(r, K) \subseteq Managed(ram) BY <1>3, Constants DEF SpaceOf, Tree
  <2>2. \A x \in FramesAt(r, K) : m2[x] # Data("kernel") BY <1>7, Kinds
  <2> QED BY <1>5, <1>8, <2>1, <2>2, SameManaged
<1> QED BY <1>3, <1>6, <1>8, <1>9, <1>10, <1>12, <1>13

\* A process's memory, from its size.
LEMMA SpaceParts ==
  ASSUME NEW r, Tree(ram, r), NEW n \in Nat, PagesOf(n) <= PageLimit, Maps(ram, r, PagesOf(n))
  PROVE  /\ SpaceFrames(r, n) = SpaceOf(ram, r) /\ SpaceSound(r, n)
         /\ PagesFrom(0, n) = 0 .. PagesOf(n) - 1
<1>1. \A va : Next1(r, va) = Mid(ram, r, va) /\ Next0(r, va) = Low(ram, r, va) /\ Pte(r, va) = Ent(ram, r, va)
  BY DEF Next1, Next0, Pte, Mid, Low, Ent
<1>2. PagesOf(0) = 0 /\ PagesOf(n) \in Nat
  <2>1. 0 * PGSIZE = 0 BY Constants
  <2> QED BY <2>1, PagesExact, PagesAre
<1>3. PagesFrom(0, n) = 0 .. PagesOf(n) - 1 BY <1>2 DEF PagesFrom
<1>4. Tables(r) = TablesOf(ram, r) BY <1>1 DEF Tables, TablesOf
<1>5. 0 .. PagesOf(n) - 1 \subseteq Addresses \ Top BY <1>2, PageIn, Constants
<1> DEFINE P == 0 .. PagesOf(n) - 1
<1>6. /\ P \subseteq Addresses \ Top
      /\ \A va \in Addresses : Ent(ram, r, va).pa # NoFrame <=> va \in P \cup Top
  BY <1>5, Zenon DEF Maps
<1>7. PagesFrom(0, n) = P BY <1>3
<1> HIDE DEF P
<1>8. FramesAt(r, P) = LeavesOf(ram, r)
  <2>1. FramesAt(r, P) = {Ent(ram, r, va).pa : va \in P} BY <1>1 DEF FramesAt
  <2> QED BY <1>6, <2>1 DEF LeavesOf
<1>9. SpaceFrames(r, n) = SpaceOf(ram, r)
  BY <1>4, <1>7, <1>8, Constants DEF SpaceFrames, SpaceOf, Tree
<1>10. MappedPages(r) = P \cup Top
  <2>1. MappedPages(r) = {va \in Addresses : Ent(ram, r, va).pa # NoFrame}
    BY <1>1 DEF MappedPages
  <2> QED BY <1>6, <2>1, Constants
<1>11. SpaceSound(r, n) BY <1>7, <1>10 DEF SpaceSound, Top
<1> QED BY <1>3, <1>9, <1>11

-----
\* Who owns the frames.
\* Who can have frames.
LEMMA OwnersAre ==
  /\ <<"free", 0>> \in Owners
  /\ \A q \in Procs : /\ <<"space", q>> \in Owners /\ <<"image", q>> \in Owners
                      /\ <<"trapframe", q>> \in Owners /\ <<"args", q>> \in Owners
  /\ \A o \in Owners : \/ o = <<"free", 0>>
                       \/ \E q \in Procs : \/ o = <<"space", q>> \/ o = <<"image", q>>
                                           \/ o = <<"trapframe", q>> \/ o = <<"args", q>>
BY DEF Owners

\* What each owner has.
LEMMA HoldingIs ==
  /\ Holding[<<"free", 0>>] = free
  /\ \A q \in Procs : /\ Holding[<<"space", q>>] = SpaceOf(ram, pagetable[q])
                      /\ Holding[<<"image", q>>] = SpaceOf(ram, NewRoot(q))
                      /\ Holding[<<"trapframe", q>>] = {trapframe[q]} \ {NoFrame}
                      /\ Holding[<<"args", q>>] = loc[q].argv
<1>1. Holding[<<"free", 0>>] = free BY OwnersAre DEF Holding
<1>2. ASSUME NEW q \in Procs
      PROVE  /\ Holding[<<"space", q>>] = SpaceOf(ram, pagetable[q])
             /\ Holding[<<"image", q>>] = SpaceOf(ram, NewRoot(q))
             /\ Holding[<<"trapframe", q>>] = {trapframe[q]} \ {NoFrame}
             /\ Holding[<<"args", q>>] = loc[q].argv
  BY OwnersAre DEF Holding
<1> QED BY <1>1, <1>2

\* What each has after a step.
LEMMA HoldingNext ==
  /\ Holding'[<<"free", 0>>] = free'
  /\ \A q \in Procs : /\ Holding'[<<"space", q>>] = SpaceOf(ram', pagetable'[q])
                      /\ Holding'[<<"image", q>>] = SpaceOf(ram', NewRoot(q)')
                      /\ Holding'[<<"trapframe", q>>] = {trapframe'[q]} \ {NoFrame}
                      /\ Holding'[<<"args", q>>] = loc'[q].argv
<1>1. Holding'[<<"free", 0>>] = free' BY OwnersAre DEF Holding
<1>2. ASSUME NEW q \in Procs
      PROVE  /\ Holding'[<<"space", q>>] = SpaceOf(ram', pagetable'[q])
             /\ Holding'[<<"image", q>>] = SpaceOf(ram', NewRoot(q)')
             /\ Holding'[<<"trapframe", q>>] = {trapframe'[q]} \ {NoFrame}
             /\ Holding'[<<"args", q>>] = loc'[q].argv
  BY OwnersAre DEF Holding
<1> QED BY <1>1, <1>2

\* Frames go from one owner to another.
Moved(H, H2, S) ==
  /\ S \subseteq Owners /\ \A o \in Owners \ S : H2[o] = H[o]
  /\ \A a, b \in S : a # b => H2[a] \cap H2[b] = {}
  /\ \A f : (\E a \in S : f \in H2[a]) <=> (\E a \in S : f \in H[a])

\* If those who took part have between them what they had, all frames are in order.
LEMMA Redistribute ==
  ASSUME NEW H, NEW H2, NEW M, NEW S, Partition(H, M), Moved(H, H2, S)
  PROVE  Partition(H2, M)
<1> USE DEF Moved
<1>1. ASSUME NEW a \in Owners, NEW b \in Owners, a # b, NEW f, f \in H2[a], f \in H2[b] PROVE FALSE
  <2>1. CASE a \in S /\ b \in S BY <1>1, <2>1
  <2>2. CASE a \notin S /\ b \notin S BY <1>1, <2>2 DEF Partition
  <2>3. CASE a \in S /\ b \notin S
    <3>1. PICK c \in S : f \in H[c] BY <1>1, <2>3
    <3> QED BY <1>1, <2>3, <3>1 DEF Partition
  <2>4. CASE a \notin S /\ b \in S
    <3>1. PICK c \in S : f \in H[c] BY <1>1, <2>4
    <3> QED BY <1>1, <2>4, <3>1 DEF Partition
  <2> QED BY <2>1, <2>2, <2>3, <2>4
<1>2. ASSUME NEW f PROVE f \in M <=> \E o \in Owners : f \in H2[o]
  <2>1. ASSUME NEW o \in Owners, f \in H2[o] PROVE \E a \in Owners : f \in H[a]
    <3>1. CASE o \in S BY <2>1, <3>1
    <3>2. CASE o \notin S BY <2>1, <3>2
    <3> QED BY <3>1, <3>2
  <2>2. ASSUME NEW o \in Owners, f \in H[o] PROVE \E a \in Owners : f \in H2[a]
    <3>1. CASE o \in S BY <2>2, <3>1
    <3>2. CASE o \notin S BY <2>2, <3>2
    <3> QED BY <3>1, <3>2
  <2> QED BY <2>1, <2>2 DEF Partition
<1> QED BY <1>1, <1>2 DEF Partition

\* The owners S have exchanged frames, and what they hold is written; the others keep theirs.
Stays(S, C) ==
  /\ S \subseteq Owners /\ \A x \in C : \E o \in S : x \in Holding[o]
  /\ \A x \in Frames \ C : ram'[x] = ram[x]

\* The page table r is the same in m and in m2.
Alike(m, m2, r) ==
  /\ Tree(m2, r) /\ TablesOf(m2, r) = TablesOf(m, r) /\ SpaceOf(m2, r) = SpaceOf(m, r)
  /\ \A va \in Addresses : /\ Mid(m2, r, va) = Mid(m, r, va) /\ Low(m2, r, va) = Low(m, r, va)
                           /\ Ent(m2, r, va) = Ent(m, r, va)
  /\ \A n : Maps(m, r, n) => Maps(m2, r, n)
  /\ \A n \in Nat : n <= PageLimit /\ UserPages(m, r, n) => UserPages(m2, r, n)

\* What Good says of frames and page tables.
LEMMA Parts ==
  ASSUME Good
  PROVE  /\ Typed /\ Partition(Holding, Managed(ram)) /\ ~ panic
         /\ \A q \in Procs : /\ pagetable[q] \in Frames \cup {NoFrame} /\ NewRoot(q) \in Frames \cup {NoFrame}
                             /\ pagetable[q] # NoFrame => Tree(ram, pagetable[q])
                             /\ NewRoot(q) # NoFrame => Tree(ram, NewRoot(q))
         /\ \A o \in Owners : Holding[o] \subseteq Managed(ram) /\ Holding[o] \subseteq Frames
         /\ free \subseteq Managed(ram) /\ free \subseteq Frames
<1>1. Typed /\ Partition(Holding, Managed(ram)) /\ ~ panic BY DEF Good
<1>2. \A o \in Owners : Holding[o] \subseteq Managed(ram) /\ Holding[o] \subseteq Frames
  BY <1>1 DEF Partition, Managed
<1>3. free \subseteq Managed(ram) /\ free \subseteq Frames BY <1>2, HoldingIs, OwnersAre
<1>4. ASSUME NEW q \in Procs
      PROVE  /\ pagetable[q] \in Frames \cup {NoFrame} /\ NewRoot(q) \in Frames \cup {NoFrame}
             /\ pagetable[q] # NoFrame => Tree(ram, pagetable[q])
             /\ NewRoot(q) # NoFrame => Tree(ram, NewRoot(q))
  <2>1. pagetable[q] \in Frames \cup {NoFrame} /\ NewRoot(q) \in Frames \cup {NoFrame}
    BY <1>1 DEF Typed, NewRoot, IsLoc
  <2>2. pagetable[q] # NoFrame => Tree(ram, pagetable[q]) BY DEF Good, Process
  <2>3. ASSUME NewRoot(q) # NoFrame PROVE Tree(ram, NewRoot(q))
    <3>1. loc[q].root # NoFrame /\ loc[q].root # pagetable[q] /\ NewRoot(q) = loc[q].root
      BY <2>3 DEF NewRoot
    <3>2. pc[q] # "user" BY <3>1 DEF Good, Process, NoCall
    <3>3. Idle(q) /\ pc[q] # "copy" /\ pc[q] # "reap"
      BY <3>1 DEF Good, Caller, InSbrk, InFork, InWait
    <3>4. pc[q] \in Pc BY <1>1 DEF Typed
    <3>5. InExec(q) BY <3>2, <3>3, <3>4 DEF Good, Caller, Pc, Idle
    <3> QED BY <3>1, <3>5 DEF InExec
  <2> QED BY <2>1, <2>2, <2>3
<1> QED BY <1>1, <1>2, <1>3, <1>4

\* A page table of an owner that does not take part stays, and so does what its pages hold.
LEMMA Kept ==
  ASSUME Good, NEW S, NEW C, Stays(S, C), NEW o \in Owners \ S, NEW r \in Frames, Tree(ram, r),
         Holding[o] = SpaceOf(ram, r)
  PROVE  Alike(ram, ram', r) /\ \A x \in SpaceOf(ram, r) : ram'[x] = ram[x]
<1>1. ASSUME NEW x \in SpaceOf(ram, r) PROVE x \in Frames /\ x \notin C
  <2>1. x \in Holding[o] /\ x \in Frames BY Parts
  <2>2. \A a \in Owners : a # o => x \notin Holding[a] BY <2>1, Parts DEF Partition
  <2> QED BY <2>1, <2>2 DEF Stays
<1>2. \A x \in SpaceOf(ram, r) : ram'[x] = ram[x] BY <1>1 DEF Stays
<1>3. TablesOf(ram, r) \subseteq SpaceOf(ram, r) BY Constants DEF SpaceOf
<1>4. \A x \in TablesOf(ram, r) : ram'[x] = ram[x] BY <1>2, <1>3
<1>5. Alike(ram, ram', r) BY <1>4, Untouched, Zenon DEF Alike
<1> QED BY <1>2, <1>5

\* The memory of a process that does not take part.
LEMMA KeptSpace ==
  ASSUME Good, NEW S, NEW C, Stays(S, C), NEW q \in Procs, <<"space", q>> \notin S, pagetable'[q] = pagetable[q]
  PROVE  /\ SpaceOf(ram', pagetable'[q]) = SpaceOf(ram, pagetable[q])
         /\ pagetable[q] # NoFrame => Alike(ram, ram', pagetable[q])
         /\ \A x \in SpaceOf(ram, pagetable[q]) : ram'[x] = ram[x]
<1>1. CASE pagetable[q] = NoFrame BY <1>1 DEF SpaceOf
<1>2. CASE pagetable[q] # NoFrame
  <2>1. pagetable[q] \in Frames /\ Tree(ram, pagetable[q]) BY <1>2, Parts
  <2>2. <<"space", q>> \in Owners \ S /\ Holding[<<"space", q>>] = SpaceOf(ram, pagetable[q])
    BY OwnersAre, HoldingIs
  <2>3. Alike(ram, ram', pagetable[q]) /\ \A x \in SpaceOf(ram, pagetable[q]) : ram'[x] = ram[x]
    BY <2>1, <2>2, Kept
  <2> QED BY <2>3 DEF Alike
<1> QED BY <1>1, <1>2

\* The same for the page table that exec() is making.
LEMMA KeptImage ==
  ASSUME Good, NEW S, NEW C, Stays(S, C), NEW q \in Procs, <<"image", q>> \notin S, NewRoot(q)' = NewRoot(q)
  PROVE  /\ SpaceOf(ram', NewRoot(q)') = SpaceOf(ram, NewRoot(q))
         /\ NewRoot(q) # NoFrame => Alike(ram, ram', NewRoot(q))
         /\ \A x \in SpaceOf(ram, NewRoot(q)) : ram'[x] = ram[x]
<1>1. CASE NewRoot(q) = NoFrame BY <1>1 DEF SpaceOf
<1>2. CASE NewRoot(q) # NoFrame
  <2>1. NewRoot(q) \in Frames /\ Tree(ram, NewRoot(q)) BY <1>2, Parts
  <2>2. <<"image", q>> \in Owners \ S /\ Holding[<<"image", q>>] = SpaceOf(ram, NewRoot(q))
    BY OwnersAre, HoldingIs
  <2>3. Alike(ram, ram', NewRoot(q)) /\ \A x \in SpaceOf(ram, NewRoot(q)) : ram'[x] = ram[x]
    BY <2>1, <2>2, Kept
  <2> QED BY <2>3 DEF Alike
<1> QED BY <1>1, <1>2

\* The frames are still in order, if those who took part have what they had between them.
LEMMA PartitionStep ==
  ASSUME Good, NEW S, NEW C, Stays(S, C), Managed(ram') = Managed(ram),
         <<"free", 0>> \notin S => free' = free,
         \A q \in Procs : /\ <<"space", q>> \notin S => pagetable'[q] = pagetable[q]
                          /\ <<"image", q>> \notin S => NewRoot(q)' = NewRoot(q)
                          /\ <<"trapframe", q>> \notin S => trapframe'[q] = trapframe[q]
                          /\ <<"args", q>> \notin S => loc'[q].argv = loc[q].argv,
         \A a, b \in S : a # b => Holding'[a] \cap Holding'[b] = {},
         \A f : (\E a \in S : f \in Holding'[a]) <=> (\E a \in S : f \in Holding[a])
  PROVE  Partition(Holding, Managed(ram))'
<1>1. ASSUME NEW o \in Owners \ S PROVE Holding'[o] = Holding[o]
  <2>1. CASE o = <<"free", 0>> BY <1>1, <2>1, HoldingIs, HoldingNext
  <2>2. ASSUME NEW q \in Procs, o = <<"space", q>> PROVE Holding'[o] = Holding[o]
    <3>1. <<"space", q>> \notin S BY <1>1, <2>2
    <3>2. SpaceOf(ram', pagetable'[q]) = SpaceOf(ram, pagetable[q]) BY <3>1, KeptSpace
    <3>3. Holding'[<<"space", q>>] = SpaceOf(ram', pagetable'[q]) BY HoldingNext
    <3>4. Holding[<<"space", q>>] = SpaceOf(ram, pagetable[q]) BY HoldingIs
    <3> QED BY <2>2, <3>2, <3>3, <3>4
  <2>3. ASSUME NEW q \in Procs, o = <<"image", q>> PROVE Holding'[o] = Holding[o]
    <3>1. <<"image", q>> \notin S BY <1>1, <2>3
    <3>2. SpaceOf(ram', NewRoot(q)') = SpaceOf(ram, NewRoot(q)) BY <3>1, KeptImage
    <3>3. Holding'[<<"image", q>>] = SpaceOf(ram', NewRoot(q)') BY HoldingNext
    <3>4. Holding[<<"image", q>>] = SpaceOf(ram, NewRoot(q)) BY HoldingIs
    <3> QED BY <2>3, <3>2, <3>3, <3>4
  <2>4. ASSUME NEW q \in Procs, o = <<"trapframe", q>> PROVE Holding'[o] = Holding[o]
    <3>1. <<"trapframe", q>> \notin S BY <1>1, <2>4
    <3>2. trapframe'[q] = trapframe[q] BY <3>1
    <3>3. Holding'[<<"trapframe", q>>] = {trapframe'[q]} \ {NoFrame} BY HoldingNext
    <3>4. Holding[<<"trapframe", q>>] = {trapframe[q]} \ {NoFrame} BY HoldingIs
    <3> QED BY <2>4, <3>2, <3>3, <3>4
  <2>5. ASSUME NEW q \in Procs, o = <<"args", q>> PROVE Holding'[o] = Holding[o]
    <3>1. <<"args", q>> \notin S BY <1>1, <2>5
    <3>2. loc'[q].argv = loc[q].argv BY <3>1
    <3> QED BY <2>5, <3>2, HoldingIs, HoldingNext
  <2> QED BY <2>1, <2>2, <2>3, <2>4, <2>5, OwnersAre
<1>2. Partition(Holding, Managed(ram)) /\ S \subseteq Owners BY Parts DEF Stays
<1>3. Moved(Holding, Holding', S) BY <1>1, <1>2 DEF Moved
<1>4. Partition(Holding', Managed(ram)) BY <1>2, <1>3, Redistribute
<1> QED BY <1>4

\* A process that does not take part goes on as before.
LEMMA Bystander ==
  ASSUME Good, NEW S, NEW C, Stays(S, C), NEW q \in Procs, <<"space", q>> \notin S, <<"image", q>> \notin S,
         state'[q] = state[q], sz'[q] = sz[q], pagetable'[q] = pagetable[q],
         trapframe'[q] = trapframe[q], pc'[q] = pc[q], loc'[q] = loc[q],
         pc[q] = "copy" => /\ <<"space", loc[q].np>> \notin S
                           /\ state'[loc[q].np] = state[loc[q].np]
                           /\ pagetable'[loc[q].np] = pagetable[loc[q].np],
         pc[q] = "reap" => state'[loc[q].np] = state[loc[q].np] /\ parent'[loc[q].np] = parent[loc[q].np]
  PROVE  Process(q)' /\ Caller(q)'
<1>1. Process(q) /\ Caller(q) /\ IsLoc(loc[q]) /\ sz[q] \in Nat BY Parts DEF Good, Typed
<1>2. pagetable[q] # NoFrame => Alike(ram, ram', pagetable[q]) BY KeptSpace
<1>3. NewRoot(q)' = NewRoot(q) BY DEF NewRoot
<1>4. NewRoot(q) # NoFrame => Alike(ram, ram', NewRoot(q)) BY <1>3, KeptImage
<1>5. Idle(q)' <=> Idle(q) BY DEF Idle
<1>6. Process(q)'
  <2>1. state[q] # "unused" => Tree(ram', pagetable[q]) BY <1>1, <1>2 DEF Process, Alike
  <2>2. state[q] \in {"runnable", "zombie"} /\ Idle(q) => Maps(ram', pagetable[q], PagesOf(sz[q]))
    BY <1>1, <1>2 DEF Process, Alike
  <2> QED BY <1>1, <1>5, <2>1, <2>2 DEF Process
<1>7. ASSUME NEW r, Alike(ram, ram', r)
      PROVE  /\ \A n : Maps(ram, r, n) => Maps(ram', r, n)
             /\ \A n \in Nat : n <= PageLimit /\ UserPages(ram, r, n) => UserPages(ram', r, n)
             /\ Tree(ram', r)
  BY <1>7, Zenon DEF Alike
<1>8. ASSUME pc[q] = "uvmalloc", Growing(q), loc[q].root # NoFrame => Alike(ram, ram', loc[q].root),
             loc[q].at <= PageLimit
      PROVE  Growing(q)'
  <2>1. loc[q].at \in Nat /\ Alike(ram, ram', loc[q].root) BY <1>1, <1>8 DEF Growing, IsLoc
  <2>2. Maps(ram', loc[q].root, loc[q].at)
        /\ (UserPages(ram, loc[q].root, loc[q].at) => UserPages(ram', loc[q].root, loc[q].at))
    BY <1>7, <1>8, <2>1 DEF Growing
  <2> QED BY <1>8, <2>2 DEF Growing
<1>9. ASSUME ~ Idle(q) PROVE InSbrk(q)'
  <2>1. InSbrk(q) BY <1>1, <1>9 DEF Caller
  <2>2. loc[q].root # NoFrame => Alike(ram, ram', loc[q].root) BY <1>2, <2>1 DEF InSbrk
  <2>3. pc[q] = "uvmalloc" => loc[q].at <= PageLimit
    <3>1. ASSUME pc[q] = "uvmalloc" PROVE loc[q].at <= PageLimit
      <4>1. loc[q].at \in Nat /\ loc[q].new \in Nat /\ loc[q].at < PagesOf(loc[q].new)
              /\ PagesOf(loc[q].new) \in Nat
        BY <1>1, <2>1, <3>1, PagesCover, PagesAre DEF InSbrk, Growing, IsLoc
      <4> QED BY <2>1, <4>1, Constants DEF InSbrk
    <3> QED BY <3>1
  <2>4. pc[q] = "uvmalloc" => Growing(q)' BY <1>8, <2>1, <2>2, <2>3 DEF InSbrk
  <2>5. ASSUME pc[q] = "sbrk"
          PROVE Maps(ram', loc[q].root, PagesOf(IF loc[q].new = 0 THEN sz[q] ELSE loc[q].new))
    <3>1. loc[q].root # NoFrame BY <1>1, <2>1, <2>5 DEF Process, InSbrk
    <3> QED BY <1>7, <2>1, <2>2, <2>5, <3>1 DEF InSbrk
  <2> QED BY <2>1, <2>4, <2>5 DEF InSbrk
<1>10. ASSUME pc[q] = "copy" PROVE InFork(q)'
  <2>1. InFork(q) BY <1>1, <1>10 DEF Caller
  <2>2. loc[q].np \in Procs /\ Process(loc[q].np) /\ state[loc[q].np] = "used"
    BY <2>1 DEF InFork, Good
  <2>3. pagetable[loc[q].np] # NoFrame BY <2>2 DEF Process
  <2>4. Alike(ram, ram', pagetable[loc[q].np]) BY <1>10, <2>2, <2>3, KeptSpace
  <2> QED BY <1>7, <1>10, <2>1, <2>4 DEF InFork
<1>11. ASSUME pc[q] = "reap" PROVE InWait(q)'
  <2>1. InWait(q) BY <1>1, <1>11 DEF Caller
  <2> QED BY <1>11, <2>1 DEF InWait
<1>12. ASSUME InExec(q), pc[q] \in {"argv", "open", "segment", "load", "stack"}
         \/ (pc[q] = "uvmalloc" /\ Idle(q))
       PROVE  InExec(q)'
  <2>1. CASE pc[q] \in {"argv", "open"} BY <1>12, <2>1 DEF InExec
  <2>2. CASE pc[q] \notin {"argv", "open"}
    <3>1. NewRoot(q) = loc[q].root /\ loc[q].root # NoFrame BY <1>12, <2>2 DEF InExec, NewRoot
    <3>2. Alike(ram, ram', loc[q].root) BY <1>4, <3>1
    <3>3. Tree(ram', loc[q].root) BY <1>7, <3>2
    <3>4. \A n : Maps(ram, loc[q].root, n) => Maps(ram', loc[q].root, n) BY <1>7, <3>2
    <3>5. \A n \in Nat : n <= PageLimit /\ UserPages(ram, loc[q].root, n) => UserPages(ram', loc[q].root, n)
      BY <1>7, <3>2
    <3>6. /\ loc[q].new \in Nat /\ loc[q].size \in Nat /\ loc[q].at \in Nat
          /\ PagesOf(loc[q].new) \in Nat /\ PagesOf(loc[q].size) \in Nat
      BY <1>1, PagesAre DEF IsLoc
    <3>7. PagesOf(loc[q].size) <= PageLimit BY <1>12, <2>2, <3>6, Constants DEF InExec
    <3>8. pc[q] # "segment" /\ loc[q].new # 0 => PagesOf(loc[q].new) <= PageLimit
      <4>1. ASSUME pc[q] # "segment", loc[q].new # 0 PROVE PagesOf(loc[q].new) <= PageLimit
        <5>1. CASE (loc[q].then = "load" /\ pc[q] = "uvmalloc") \/ pc[q] = "load"
          BY <1>12, <2>2, <3>6, <4>1, <5>1, Constants DEF InExec
        <5>2. CASE (loc[q].then = "stack" /\ pc[q] = "uvmalloc") \/ pc[q] = "stack"
          <6>1. loc[q].size % PGSIZE = 0 /\ loc[q].new = loc[q].size + 2 * PGSIZE
            BY <1>12, <2>2, <4>1, <5>2 DEF InExec
          <6>2. PagesOf(loc[q].new) = PagesOf(loc[q].size) + 2 BY <3>6, <6>1, TwoMore
          <6> QED BY <1>12, <2>2, <6>2 DEF InExec
        <5> QED BY <1>1, <1>12, <2>2, <4>1, <5>1, <5>2 DEF Caller, Idle
      <4> QED BY <4>1
    <3>9. pc[q] = "uvmalloc" => Growing(q)'
      <4>1. ASSUME pc[q] = "uvmalloc" PROVE Growing(q)'
        <5>1. Growing(q) BY <1>12, <2>2, <4>1 DEF InExec
        <5>2. loc[q].at < PagesOf(loc[q].new) /\ loc[q].new # 0
          <6>1. loc[q].at * PGSIZE < loc[q].new BY <5>1 DEF Growing
          <6>2. loc[q].at < PagesOf(loc[q].new) BY <3>6, <6>1, PagesCover
          <6>3. loc[q].at * PGSIZE \in Nat BY <3>6, Constants
          <6> QED BY <6>1, <6>2, <6>3
        <5>3. loc[q].at <= PageLimit BY <3>6, <3>8, <4>1, <5>2, Constants
        <5> QED BY <1>8, <3>2, <4>1, <5>1, <5>3
      <4> QED BY <4>1
    <3>10. pc[q] \in {"load", "stack"} =>
            \E n \in {PagesOf(IF loc[q].new = 0 THEN loc[q].size ELSE loc[q].new)} :
              Maps(ram', loc[q].root, n) /\ UserPages(ram', loc[q].root, n)
      <4>1. ASSUME pc[q] \in {"load", "stack"}
            PROVE  \E n \in {PagesOf(IF loc[q].new = 0 THEN loc[q].size ELSE loc[q].new)} :
                     Maps(ram', loc[q].root, n) /\ UserPages(ram', loc[q].root, n)
        <5> DEFINE k == PagesOf(IF loc[q].new = 0 THEN loc[q].size ELSE loc[q].new)
        <5>1. Maps(ram, loc[q].root, k) /\ UserPages(ram, loc[q].root, k)
          BY <1>12, <2>2, <4>1 DEF InExec
        <5>2. k \in Nat /\ k <= PageLimit BY <3>6, <3>7, <3>8, <4>1
        <5> HIDE DEF k
        <5>3. Maps(ram', loc[q].root, k) /\ UserPages(ram', loc[q].root, k)
          BY <3>4, <3>5, <5>1, <5>2
        <5> QED BY <5>3 DEF k
      <4> QED BY <4>1
    <3>11. pc[q] = "segment" =>
            Maps(ram', loc[q].root, PagesOf(loc[q].size)) /\ UserPages(ram', loc[q].root, PagesOf(loc[q].size))
      BY <1>12, <2>2, <3>4, <3>5, <3>6, <3>7 DEF InExec
    <3> QED BY <1>12, <2>2, <3>3, <3>9, <3>10, <3>11 DEF InExec
  <2> QED BY <2>1, <2>2
<1>13. Caller(q)' BY <1>1, <1>5, <1>9, <1>10, <1>11, <1>12 DEF Caller
<1> QED BY <1>6, <1>13

\* The processes X take part in a step; the others do not, nor do those they wait for.
OthersRest(X, S) ==
  \A q \in Procs \ X :
    /\ <<"space", q>> \notin S /\ <<"image", q>> \notin S
    /\ state'[q] = state[q] /\ sz'[q] = sz[q] /\ pagetable'[q] = pagetable[q]
    /\ trapframe'[q] = trapframe[q] /\ pc'[q] = pc[q] /\ loc'[q] = loc[q]
    /\ pc[q] = "copy" => loc[q].np \notin X
    /\ pc[q] = "reap" => loc[q].np \notin X /\ parent'[loc[q].np] = parent[loc[q].np]

\* The processes X have taken part in the step, and the owner o has not.
Footprint(X, o) == \E S, C : Stays(S, C) /\ OthersRest(X, S) /\ o \notin S

\* Who takes part has kept the invariant, so all have.
LEMMA Together ==
  ASSUME Good, NEW X, NEW S, NEW C, Stays(S, C), OthersRest(X, S),
         Typed', Partition(Holding, Managed(ram))', Forks', panic' = FALSE,
         \A q \in X : Process(q)' /\ Caller(q)'
  PROVE  Good'
<1>1. ASSUME NEW q \in Procs \ X PROVE Process(q)' /\ Caller(q)'
  <2>1. /\ <<"space", q>> \notin S /\ <<"image", q>> \notin S
        /\ state'[q] = state[q] /\ sz'[q] = sz[q] /\ pagetable'[q] = pagetable[q]
        /\ trapframe'[q] = trapframe[q] /\ pc'[q] = pc[q] /\ loc'[q] = loc[q]
        /\ pc[q] = "copy" => loc[q].np \notin X
        /\ pc[q] = "reap" => loc[q].np \notin X /\ parent'[loc[q].np] = parent[loc[q].np]
    BY DEF OthersRest
  <2>2. pc[q] = "copy" => loc[q].np \in Procs \ X BY <2>1 DEF Good, Caller, InFork
  <2>3. pc[q] = "copy" => /\ <<"space", loc[q].np>> \notin S
                          /\ state'[loc[q].np] = state[loc[q].np]
                          /\ pagetable'[loc[q].np] = pagetable[loc[q].np]
    BY <2>2 DEF OthersRest
  <2>4. pc[q] = "reap" => loc[q].np \in Procs \ X BY <2>1 DEF Good, Caller, InWait
  <2>5. pc[q] = "reap" => state'[loc[q].np] = state[loc[q].np] /\ parent'[loc[q].np] = parent[loc[q].np]
    BY <2>1, <2>4 DEF OthersRest
  <2> QED BY <2>1, <2>3, <2>5, Bystander
<1> QED BY <1>1 DEF Good

\* Whom a process in fork() or wait() is dealing with.
LEMMA PcApart ==
  ASSUME Good, NEW q \in Procs
  PROVE  /\ pc[q] = "copy" => loc[q].np \in Procs /\ state[loc[q].np] = "used"
         /\ pc[q] = "reap" => loc[q].np \in Procs /\ state[loc[q].np] = "zombie" /\ parent[loc[q].np] = q
         /\ pc[q] # "user" => state[q] = "runnable"
         /\ IsLoc(loc[q]) /\ pc[q] \in Pc /\ sz[q] \in Nat /\ PagesOf(sz[q]) \in Nat
         /\ PagesOf(sz[q]) <= PageLimit
<1>1. Process(q) /\ Caller(q) /\ Typed BY DEF Good
<1>2. pc[q] = "copy" => loc[q].np \in Procs /\ state[loc[q].np] = "used"
  BY <1>1 DEF Caller, InFork
<1>3. pc[q] = "reap" => loc[q].np \in Procs /\ state[loc[q].np] = "zombie" /\ parent[loc[q].np] = q
  BY <1>1 DEF Caller, InWait
<1>4. (pc[q] # "user" => state[q] = "runnable") /\ PagesOf(sz[q]) <= PageLimit
  BY <1>1 DEF Process
<1>5. IsLoc(loc[q]) /\ pc[q] \in Pc /\ sz[q] \in Nat BY <1>1 DEF Typed
<1>6. PagesOf(sz[q]) \in Nat BY <1>5, PagesAre
<1> QED BY <1>2, <1>3, <1>4, <1>5, <1>6

\* A process in a call, or about to make one.
LEMMA Runs ==
  ASSUME Good, NEW p \in Procs, state[p] = "runnable"
  PROVE  /\ pagetable[p] \in Frames /\ pagetable[p] # NoFrame /\ trapframe[p] \in Frames
         /\ Tree(ram, pagetable[p]) /\ sz[p] \in Nat /\ PagesOf(sz[p]) \in Nat /\ PagesOf(sz[p]) <= PageLimit
         /\ Idle(p) => Maps(ram, pagetable[p], PagesOf(sz[p]))
         /\ IsLoc(loc[p]) /\ pc[p] \in Pc
<1>1. Process(p) /\ Typed BY DEF Good
<1>2. pagetable[p] \in Frames /\ pagetable[p] # NoFrame /\ trapframe[p] \in Frames
  BY <1>1 DEF Process, Typed
<1>3. Tree(ram, pagetable[p]) /\ sz[p] \in Nat /\ PagesOf(sz[p]) <= PageLimit
      /\ (Idle(p) => Maps(ram, pagetable[p], PagesOf(sz[p]))) /\ IsLoc(loc[p]) /\ pc[p] \in Pc
  BY <1>1, <1>2 DEF Process, Typed
<1> QED BY <1>2, <1>3, PagesAre

\* The locals of a process that is in no call.
LEMMA NoCallIs ==
  /\ IsLoc(NoCall) /\ NoCall.root = NoFrame /\ NoCall.argv = {} /\ NoCall.segs = <<>>
  /\ NoCall.np = 0 /\ NoCall.at = 0 /\ NoCall.size = 0 /\ NoCall.then = "user"
<1>1. IsSegs(<<>>) BY DEF IsSegs, Range
<1> QED BY <1>1, Constants DEF NoCall, IsLoc, NoFrame

\* A process in user space.
LEMMA User ==
  ASSUME Good, NEW p \in Procs, state[p] = "runnable", pc[p] = "user"
  PROVE  /\ loc[p] = NoCall /\ NewRoot(p) = NoFrame /\ Idle(p)
         /\ Maps(ram, pagetable[p], PagesOf(sz[p]))
<1>1. loc[p] = NoCall BY DEF Good, Process
<1>2. NewRoot(p) = NoFrame /\ Idle(p) BY <1>1, NoCallIs DEF NewRoot, Idle
<1> QED BY <1>1, <1>2, Runs

\* A step that writes no memory and gives none to another owner.
LEMMA Quiet ==
  ASSUME Good, NEW p \in Procs, state[p] = "runnable", ram' = ram, free' = free, panic' = panic,
         state' = state, parent' = parent, pagetable' = pagetable, trapframe' = trapframe,
         NEW n \in Nat, sz' = [sz EXCEPT ![p] = n],
         NEW s \in Pc, pc' = [pc EXCEPT ![p] = s], NEW l, loc' = [loc EXCEPT ![p] = l], IsLoc(l),
         NewRoot(p)' = NewRoot(p), l.argv = loc[p].argv, s = "copy" => pc[p] = "copy" /\ l.np = loc[p].np,
         Process(p)', Caller(p)'
  PROVE  Good'
<1>1. Typed /\ Forks /\ ~ panic BY DEF Good
<1>2. Stays({}, {}) BY DEF Stays
<1>3. \A q \in Procs \ {p} : sz'[q] = sz[q] /\ pc'[q] = pc[q] /\ loc'[q] = loc[q]
  BY <1>1 DEF Typed
<1>4. sz'[p] = n /\ pc'[p] = s /\ loc'[p] = l BY <1>1 DEF Typed
<1>5. OthersRest({p}, {})
  <2>1. \A q \in Procs : /\ pc[q] = "copy" => loc[q].np # p
                         /\ pc[q] = "reap" => loc[q].np # p
    BY PcApart
  <2> QED BY <1>3, <2>1 DEF OthersRest
<1>6. Typed' BY <1>1, <1>3, <1>4 DEF Typed
<1>7. Forks' BY <1>1, <1>3, <1>4 DEF Forks
<1>8. Partition(Holding, Managed(ram))'
  <2>1. \A q \in Procs : NewRoot(q)' = NewRoot(q) BY <1>3 DEF NewRoot
  <2>2. \A q \in Procs : loc'[q].argv = loc[q].argv BY <1>3, <1>4
  <2>3. Managed(ram') = Managed(ram) OBVIOUS
  <2> DEFINE S == {}
  <2>4. /\ \A a, b \in S : a # b => Holding'[a] \cap Holding'[b] = {}
        /\ \A f : (\E a \in S : f \in Holding'[a]) <=> (\E a \in S : f \in Holding[a])
    OBVIOUS
  <2>5. Stays(S, {}) BY <1>2
  <2> HIDE DEF S
  <2> QED BY <2>1, <2>2, <2>3, <2>4, <2>5, PartitionStep
<1>9. panic' = FALSE BY <1>1
<1> DEFINE X == {p}
           S == {}
           C == {}
<1>10. Stays(S, C) /\ OthersRest(X, S) /\ \A q \in X : Process(q)' /\ Caller(q)' BY <1>2, <1>5
<1> HIDE DEF X, S, C
<1> QED BY <1>6, <1>7, <1>8, <1>9, <1>10, Together

-----
\* Steps that write no memory.
\* Nothing changes.
LEMMA Same ==
  ASSUME Good, UNCHANGED <<memory, procs, pc, loc>>
  PROVE  Good'
<1>1. Typed' /\ Forks' /\ panic' = FALSE BY DEF Good, Typed, Forks, memory, procs
<1>2. Partition(Holding, Managed(ram))'
  <2>1. Holding' = Holding BY DEF Holding, NewRoot, memory, procs
  <2> QED BY <2>1 DEF Good, memory
<1> DEFINE X == {}
           S == {}
           C == {}
<1>3. Stays(S, C) /\ OthersRest(X, S) /\ \A q \in X : Process(q)' /\ Caller(q)'
  BY DEF Stays, OthersRest, memory, procs
<1> HIDE DEF X, S, C
<1> QED BY <1>1, <1>2, <1>3, Together

\* uvmalloc() begins.
Begun(p, l, oldsz, newsz, s) ==
  \E m, t :
    /\ loc' = [loc EXCEPT ![p] = m] /\ pc' = [pc EXCEPT ![p] = t] /\ IsLoc(m)
    /\ m.root = l.root /\ m.argv = l.argv /\ m.segs = l.segs /\ m.size = l.size /\ m.np = l.np
    /\ m.then = s /\ m.at = PagesOf(oldsz) /\ m.old = PagesOf(oldsz) /\ newsz <= m.new
    /\ t \in {s, "uvmalloc"}
    /\ t = "uvmalloc" => m.new = newsz /\ m.at * PGSIZE < m.new
    /\ t = s => PagesOf(m.new) = PagesOf(oldsz)
    /\ m.new \in {oldsz, newsz}

\* The first lines of uvmalloc().
LEMMA Begins ==
  ASSUME Typed, NEW p \in Procs, NEW l, IsLoc(l), NEW oldsz \in Nat, NEW newsz \in Nat, NEW perm,
         NEW s \in Pc \ {"uvmalloc"}, Uvmalloc(p, l, oldsz, newsz, perm, s)
  PROVE  Begun(p, l, oldsz, newsz, s)
<1> DEFINE k == PagesOf(oldsz)
           new == IF newsz < oldsz THEN oldsz ELSE newsz
           m == [l EXCEPT !.at = k, !.old = k, !.new = new, !.perm = perm, !.then = s]
           t == IF k * PGSIZE >= newsz THEN s ELSE "uvmalloc"
<1>1. loc' = [loc EXCEPT ![p] = m] /\ pc' = [pc EXCEPT ![p] = t] BY DEF Uvmalloc, Goto
<1>2. k \in Nat /\ oldsz <= k * PGSIZE /\ k * PGSIZE < oldsz + PGSIZE /\ k * PGSIZE \in Nat
  BY PagesAre, Constants
<1>3. new \in Nat /\ newsz <= new /\ new \in {oldsz, newsz} OBVIOUS
<1> HIDE DEF k, new
<1>4. DOMAIN l = {"np", "root", "at", "old", "new", "perm", "then", "segs", "size", "argv"}
  BY DEF IsLoc
<1>6. /\ m.root = l.root /\ m.argv = l.argv /\ m.segs = l.segs /\ m.size = l.size /\ m.np = l.np
      /\ m.then = s /\ m.at = k /\ m.old = k /\ m.new = new /\ m.perm = perm
  BY <1>4
<1>7. DOMAIN m = {"np", "root", "at", "old", "new", "perm", "then", "segs", "size", "argv"}
  BY <1>4
<1> HIDE DEF m
<1>8. IsLoc(m) BY <1>2, <1>3, <1>6, <1>7 DEF IsLoc
<1>9. t = "uvmalloc" => new = newsz /\ k * PGSIZE < new BY <1>2, <1>3 DEF new
<1>10. t = s => PagesOf(new) = k
  <2>1. CASE newsz < oldsz BY <2>1 DEF new, k
  <2>2. ASSUME ~ (newsz < oldsz), t = s PROVE PagesOf(new) = k
    <3>1. new = newsz /\ oldsz <= newsz /\ newsz <= k * PGSIZE BY <1>2, <2>2 DEF new
    <3>2. k * PGSIZE < newsz + PGSIZE BY <1>2, <3>1, Constants
    <3> QED BY <1>2, <3>1, <3>2, PagesIs
  <2> QED BY <2>1, <2>2
<1>11. t \in {s, "uvmalloc"} OBVIOUS
<1> QED BY <1>1, <1>3, <1>6, <1>8, <1>9, <1>10, <1>11 DEF k, Begun

\* sbrk() returns.
LEMMA SbrkReturnsKeeps ==
  ASSUME Good, NEW p \in Procs, SbrkReturns(p)
  PROVE  Good'
<1> DEFINE n == IF loc[p].new = 0 THEN sz[p] ELSE loc[p].new
<1>1. pc[p] = "sbrk" /\ InSbrk(p) /\ Process(p) /\ Typed /\ state[p] = "runnable"
  BY DEF SbrkReturns, Good, Caller, Process, Idle
<1>2. /\ ram' = ram /\ free' = free /\ panic' = panic /\ state' = state /\ parent' = parent
      /\ pagetable' = pagetable /\ trapframe' = trapframe
      /\ sz' = [sz EXCEPT ![p] = n] /\ pc' = [pc EXCEPT ![p] = "user"] /\ loc' = [loc EXCEPT ![p] = NoCall]
  BY DEF SbrkReturns, Returns, Goto, memory
<1>3. n \in Nat /\ PagesOf(n) <= PageLimit /\ Maps(ram, pagetable[p], PagesOf(n))
  BY <1>1, Runs DEF InSbrk, IsLoc
<1>4. sz'[p] = n /\ pc'[p] = "user" /\ loc'[p] = NoCall BY <1>1, <1>2 DEF Typed
<1> HIDE DEF n
<1>5. Process(p)' BY <1>1, <1>2, <1>3, <1>4 DEF Process
<1>6. Caller(p)' BY <1>4 DEF Caller, Idle
<1>7. NewRoot(p)' = NewRoot(p) /\ NoCall.argv = loc[p].argv
  BY <1>1, <1>2, <1>4, NoCallIs DEF NewRoot, InSbrk
<1>8. IsLoc(NoCall) /\ "user" \in Pc BY NoCallIs DEF Pc
<1> QED BY <1>1, <1>2, <1>3, <1>5, <1>6, <1>7, <1>8, Quiet

\* sbrk() above zero begins.
LEMMA SbrkGrows ==
  ASSUME Good, NEW p \in Procs, NEW n \in Int, Calls(p), PagesOf(sz[p] + n) <= PageLimit, n > 0,
         Uvmalloc(p, [NoCall EXCEPT !.root = pagetable[p]], sz[p], sz[p] + n, {"W"}, "sbrk"),
         UNCHANGED <<memory, procs>>
  PROVE  Good'
<1> DEFINE l == [NoCall EXCEPT !.root = pagetable[p]]
<1>1. state[p] = "runnable" /\ pc[p] = "user" /\ Typed /\ Process(p) BY DEF Calls, Good
<1>2. /\ loc[p] = NoCall /\ NewRoot(p) = NoFrame /\ Maps(ram, pagetable[p], PagesOf(sz[p]))
      /\ pagetable[p] \in Frames /\ pagetable[p] # NoFrame /\ Tree(ram, pagetable[p])
      /\ sz[p] \in Nat /\ sz[p] + n \in Nat /\ PagesOf(sz[p]) <= PageLimit
  BY <1>1, User, Runs
<1>3. IsLoc(l) /\ l.root = pagetable[p] /\ l.argv = {} /\ l.size = 0 /\ l.np = 0 /\ l.segs = <<>>
  <2>1. DOMAIN NoCall = {"np", "root", "at", "old", "new", "perm", "then", "segs", "size", "argv"}
        /\ NoCall.at = 0 /\ NoCall.old = 0 /\ NoCall.new = 0
    BY DEF NoCall
  <2>2. DOMAIN l = DOMAIN NoCall /\ l.segs = NoCall.segs /\ l.root = pagetable[p]
        /\ l.np = NoCall.np /\ l.at = NoCall.at /\ l.old = NoCall.old
        /\ l.new = NoCall.new /\ l.size = NoCall.size /\ l.argv = NoCall.argv
    BY <2>1
  <2> HIDE DEF l
  <2> QED BY <1>2, <2>1, <2>2, NoCallIs DEF IsLoc
<1> HIDE DEF l
<1>4. PICK m, t :
           /\ loc' = [loc EXCEPT ![p] = m] /\ pc' = [pc EXCEPT ![p] = t] /\ IsLoc(m)
           /\ m.root = l.root /\ m.argv = l.argv /\ m.segs = l.segs /\ m.size = l.size /\ m.np = l.np
           /\ m.then = "sbrk" /\ m.at = PagesOf(sz[p]) /\ m.old = PagesOf(sz[p]) /\ sz[p] + n <= m.new
           /\ t \in {"sbrk", "uvmalloc"}
           /\ t = "uvmalloc" => m.new = sz[p] + n /\ m.at * PGSIZE < m.new
           /\ t = "sbrk" => PagesOf(m.new) = PagesOf(sz[p])
           /\ m.new \in {sz[p], sz[p] + n}
  <2> DEFINE w == {"W"}
             big == sz[p] + n
             label == "sbrk"
  <2>1. Uvmalloc(p, l, sz[p], big, w, label) /\ label \in Pc \ {"uvmalloc"} /\ big \in Nat
    BY <1>2 DEF l, Pc
  <2> HIDE DEF w, big, label
  <2>2. Begun(p, l, sz[p], big, label) BY <1>1, <1>2, <1>3, <2>1, Begins
  <2> QED BY <2>2 DEF label, big, Begun
<1>5. loc'[p] = m /\ pc'[p] = t /\ t \in Pc /\ t # "copy" /\ t # "user"
  BY <1>1, <1>4 DEF Typed, Pc
<1>6. ram' = ram /\ free' = free /\ panic' = panic /\ state' = state /\ parent' = parent
      /\ pagetable' = pagetable /\ trapframe' = trapframe /\ sz' = sz /\ sz' = [sz EXCEPT ![p] = sz[p]]
  BY <1>1 DEF memory, procs, Typed
<1>7. ~ Idle(p)' BY <1>4, <1>5 DEF Idle
<1>8. Process(p)' BY <1>1, <1>2, <1>4, <1>5, <1>6, <1>7 DEF Process
<1>9. InSbrk(p)'
  <2>1. PagesOf(m.new) <= PageLimit /\ m.root = pagetable'[p] /\ m.argv = {}
    BY <1>2, <1>3, <1>4, <1>6
  <2>2. t = "uvmalloc" => Growing(p)' /\ m.old = PagesOf(sz'[p])
    BY <1>2, <1>3, <1>4, <1>5, <1>6, PagesAre DEF Growing
  <2>3. t = "sbrk" => Maps(ram', m.root, PagesOf(IF m.new = 0 THEN sz'[p] ELSE m.new))
    BY <1>2, <1>3, <1>4, <1>6
  <2> QED BY <1>5, <2>1, <2>2, <2>3 DEF InSbrk
<1>10. Caller(p)' BY <1>4, <1>5, <1>7, <1>9 DEF Caller
<1>11. NewRoot(p)' = NewRoot(p) /\ m.argv = loc[p].argv
  BY <1>2, <1>3, <1>4, <1>5, <1>6, NoCallIs DEF NewRoot
<1> QED BY <1>1, <1>2, <1>4, <1>5, <1>6, <1>8, <1>10, <1>11, Quiet

\* exec() begins.
LEMMA ExecKeeps ==
  ASSUME Good, NEW p \in Procs, NEW file \in Binaries, Exec(p, file)
  PROVE  Good'
<1> DEFINE m == [NoCall EXCEPT !.segs = file]
<1>1. state[p] = "runnable" /\ pc[p] = "user" /\ Typed /\ Process(p) BY DEF Exec, Calls, Good
<1>2. /\ loc[p] = NoCall /\ NewRoot(p) = NoFrame /\ Maps(ram, pagetable[p], PagesOf(sz[p]))
      /\ pagetable[p] \in Frames /\ pagetable[p] # NoFrame /\ sz[p] \in Nat
  BY <1>1, User, Runs
<1>3. /\ ram' = ram /\ free' = free /\ panic' = panic /\ state' = state /\ parent' = parent
      /\ pagetable' = pagetable /\ trapframe' = trapframe /\ sz' = sz /\ sz' = [sz EXCEPT ![p] = sz[p]]
      /\ loc' = [loc EXCEPT ![p] = m] /\ pc' = [pc EXCEPT ![p] = "argv"]
  BY <1>1 DEF Exec, Goto, memory, procs, Typed
<1>4. IsSegs(file) BY BinariesAssumption DEF IsSegs
<1>5. IsLoc(m) /\ m.root = NoFrame /\ m.size = 0 /\ m.argv = {} /\ m.np = 0
  <2>1. IsLoc(NoCall) /\ NoCall.root = NoFrame /\ NoCall.size = 0 /\ NoCall.argv = {} /\ NoCall.np = 0
    BY NoCallIs
  <2>2. DOMAIN NoCall = {"np", "root", "at", "old", "new", "perm", "then", "segs", "size", "argv"}
        /\ NoCall.at = 0 /\ NoCall.old = 0 /\ NoCall.new = 0
    BY DEF NoCall
  <2>3. DOMAIN m = DOMAIN NoCall /\ m.segs = file
        /\ m.np = NoCall.np /\ m.root = NoCall.root /\ m.at = NoCall.at /\ m.old = NoCall.old
        /\ m.new = NoCall.new /\ m.size = NoCall.size /\ m.argv = NoCall.argv
    BY <2>2
  <2> HIDE DEF m
  <2> QED BY <1>4, <2>1, <2>2, <2>3, Constants DEF IsLoc
<1> HIDE DEF m
<1>6. loc'[p] = m /\ pc'[p] = "argv" /\ "argv" \in Pc BY <1>1, <1>3 DEF Typed, Pc
<1>7. Process(p)' BY <1>1, <1>2, <1>3, <1>6 DEF Process, Idle
<1>8. Caller(p)'
  <2>1. InExec(p)' BY <1>2, <1>3, <1>5, <1>6 DEF InExec
  <2> QED BY <1>6, <2>1 DEF Caller, Idle
<1>9. NewRoot(p)' = NewRoot(p) /\ m.argv = loc[p].argv
  BY <1>2, <1>3, <1>5, <1>6, NoCallIs DEF NewRoot
<1> QED BY <1>1, <1>2, <1>3, <1>5, <1>6, <1>7, <1>8, <1>9, Quiet

\* The next segment, and those after it.
LEMMA SegsAre ==
  ASSUME NEW segs, IsSegs(segs), segs # <<>>
  PROVE  /\ {Head(segs).vaddr, Head(segs).memsz, Head(segs).filesz} \subseteq Nat
         /\ Head(segs).filesz <= Head(segs).memsz /\ Head(segs).vaddr % PGSIZE = 0
         /\ PagesOf(Head(segs).vaddr + Head(segs).memsz) + 2 <= PageLimit
         /\ IsSegs(Tail(segs))
<1> DEFINE R == Range(segs)
<1>1. segs \in Seq(R) BY DEF IsSegs
<1>2. \A i \in 1 .. Len(segs) : segs[i] \in R BY <1>1 DEF Range
<1>3. Head(segs) \in R BY <1>1, <1>2
<1> DEFINE T == Range(Tail(segs))
<1>4. Tail(segs) \in Seq(R) /\ T \subseteq R
  <2>1. Tail(segs) \in Seq(R) BY <1>1
  <2> QED BY <2>1 DEF Range
<1>5. Tail(segs) \in Seq(T)
  <2> DEFINE t == Tail(segs)
  <2> HIDE DEF t
  <2> DEFINE n == Len(t)
  <2>1. n \in Nat /\ t \in [1 .. n -> R] BY <1>4, LenProperties DEF t
  <2> HIDE DEF n
  <2>2. t \in [1 .. n -> T] BY <2>1 DEF Range, t
  <2>3. t \in Seq(T)
    <3>1. t \in UNION {[1 .. k -> T] : k \in Nat} BY <2>1, <2>2
    <3>2. Seq(T) = UNION {[1 .. k -> T] : k \in Nat} BY SeqDef, Zenon
    <3> QED BY <3>1, <3>2, Zenon
  <2> QED BY <2>3 DEF t
<1> HIDE DEF R, T
<1>6. \A s \in R : /\ {s.vaddr, s.memsz, s.filesz} \subseteq Nat /\ s.filesz <= s.memsz
                   /\ s.vaddr % PGSIZE = 0 /\ PagesOf(s.vaddr + s.memsz) + 2 <= PageLimit
  BY DEF IsSegs, R
<1>7. IsSegs(Tail(segs)) BY <1>4, <1>5, <1>6 DEF IsSegs, T
<1> QED BY <1>3, <1>6, <1>7

\* exec() begins to make room for a segment.
LEMMA SegmentLoads ==
  ASSUME Good, NEW p \in Procs, pc[p] = "segment", loc[p].segs # <<>>,
         Uvmalloc(p, loc[p], loc[p].size, Head(loc[p].segs).vaddr + Head(loc[p].segs).memsz,
                  Head(loc[p].segs).perm, "load"),
         UNCHANGED <<memory, procs>>
  PROVE  Good'
<1> DEFINE l == loc[p]
           end == Head(l.segs).vaddr + Head(l.segs).memsz
           label == "load"
<1>1. Process(p) /\ Typed /\ InExec(p) /\ state[p] = "runnable" /\ IsLoc(l) /\ IsSegs(l.segs)
  BY DEF Good, Caller, Process, Typed, IsLoc
<1>2. end \in Nat /\ PagesOf(end) + 2 <= PageLimit BY <1>1, SegsAre
<1>3. /\ l.root # pagetable[p] /\ l.root # NoFrame /\ Tree(ram, l.root) /\ PagesOf(l.size) + 2 <= PageLimit
      /\ Maps(ram, l.root, PagesOf(l.size)) /\ UserPages(ram, l.root, PagesOf(l.size))
  BY <1>1 DEF InExec
<1>4. l.size \in Nat /\ PagesOf(l.size) \in Nat BY <1>1, PagesAre DEF IsLoc
<1>5. Uvmalloc(p, l, l.size, end, Head(l.segs).perm, label) /\ label \in Pc \ {"uvmalloc"}
  BY DEF Pc
<1> HIDE DEF end, label
<1>6. Begun(p, l, l.size, end, label) BY <1>1, <1>2, <1>4, <1>5, Begins
<1> HIDE DEF l
<1>7. PICK m, t :
    /\ loc' = [loc EXCEPT ![p] = m] /\ pc' = [pc EXCEPT ![p] = t] /\ IsLoc(m)
    /\ m.root = l.root /\ m.argv = l.argv /\ m.segs = l.segs /\ m.size = l.size /\ m.np = l.np
    /\ m.then = label /\ m.at = PagesOf(l.size) /\ m.old = PagesOf(l.size) /\ end <= m.new
    /\ t \in {label, "uvmalloc"}
    /\ t = "uvmalloc" => m.new = end /\ m.at * PGSIZE < m.new
    /\ t = label => PagesOf(m.new) = PagesOf(l.size)
    /\ m.new \in {l.size, end}
  BY <1>6 DEF Begun
<1>8. loc'[p] = m /\ pc'[p] = t /\ t \in Pc /\ t # "copy" /\ t # "user"
  BY <1>1, <1>7 DEF Typed, Pc, label
<1>9. ram' = ram /\ free' = free /\ panic' = panic /\ state' = state /\ parent' = parent
      /\ pagetable' = pagetable /\ trapframe' = trapframe /\ sz' = sz /\ sz' = [sz EXCEPT ![p] = sz[p]]
  BY <1>1 DEF memory, procs, Typed
<1>10. Process(p)'
  <2>1. Idle(p) /\ Idle(p)' BY <1>7, <1>8 DEF Idle, label
  <2> QED BY <1>1, <1>8, <1>9, <2>1 DEF Process
<1>11. InExec(p)'
  <2>1. PagesOf(m.new) + 2 <= PageLimit BY <1>2, <1>3, <1>7
  <2>2. t = "uvmalloc" => Growing(p)' BY <1>3, <1>4, <1>7, <1>8, <1>9 DEF Growing
  <2>3. t = label => \E n \in {PagesOf(IF m.new = 0 THEN m.size ELSE m.new)} :
                    Maps(ram', m.root, n) /\ UserPages(ram', m.root, n)
    <3>1. t = label => PagesOf(IF m.new = 0 THEN m.size ELSE m.new) = PagesOf(l.size) BY <1>7
    <3> QED BY <1>3, <1>7, <1>9, <3>1
  <2>4. m.segs # <<>> /\ Head(m.segs).vaddr + Head(m.segs).memsz <= m.new BY <1>7 DEF l, end
  <2> QED BY <1>3, <1>7, <1>8, <1>9, <2>1, <2>2, <2>3, <2>4 DEF InExec, label
<1>12. Caller(p)' BY <1>7, <1>8, <1>11 DEF Caller, Idle, label
<1>13. NewRoot(p)' = NewRoot(p) /\ m.argv = loc[p].argv BY <1>3, <1>7, <1>8, <1>9 DEF NewRoot, l
<1>14. sz[p] \in Nat BY <1>1 DEF Typed
<1> QED BY <1>1, <1>7, <1>8, <1>9, <1>10, <1>12, <1>13, <1>14, Quiet

\* exec() begins to make room for the stack.
LEMMA SegmentStacks ==
  ASSUME Good, NEW p \in Procs, pc[p] = "segment",
         Uvmalloc(p, [loc[p] EXCEPT !.size = PGROUNDUP(@)], PGROUNDUP(loc[p].size),
                  PGROUNDUP(loc[p].size) + 2 * PGSIZE, {"W"}, "stack"),
         UNCHANGED <<memory, procs>>
  PROVE  Good'
<1> DEFINE s == PGROUNDUP(loc[p].size)
           l == [loc[p] EXCEPT !.size = s]
           end == s + 2 * PGSIZE
           label == "stack"
           w == {"W"}
<1>1. Process(p) /\ Typed /\ InExec(p) /\ state[p] = "runnable" /\ IsLoc(loc[p])
  BY DEF Good, Caller, Process, Typed
<1>2. /\ loc[p].root # pagetable[p] /\ loc[p].root # NoFrame /\ Tree(ram, loc[p].root)
      /\ PagesOf(loc[p].size) + 2 <= PageLimit
      /\ Maps(ram, loc[p].root, PagesOf(loc[p].size)) /\ UserPages(ram, loc[p].root, PagesOf(loc[p].size))
  BY <1>1 DEF InExec
<1>3. /\ loc[p].size \in Nat /\ s = PagesOf(loc[p].size) * PGSIZE /\ s \in Nat /\ s % PGSIZE = 0
      /\ PagesOf(s) = PagesOf(loc[p].size) /\ PagesOf(s) \in Nat
  <2>1. loc[p].size \in Nat BY <1>1 DEF IsLoc
  <2>2. s = PagesOf(loc[p].size) * PGSIZE /\ PagesOf(loc[p].size) \in Nat BY <2>1, PagesAre
  <2> HIDE DEF s
  <2> QED BY <2>1, <2>2, PagesExact
<1> HIDE DEF s
<1>4. end \in Nat /\ PagesOf(end) = PagesOf(s) + 2 BY <1>3, TwoMore
<1>5. Uvmalloc(p, l, s, end, w, label) /\ label \in Pc \ {"uvmalloc"} BY DEF Pc, s
<1>6. IsLoc(l) /\ l.root = loc[p].root /\ l.argv = loc[p].argv /\ l.size = s /\ l.segs = loc[p].segs
  <2>1. DOMAIN loc[p] = {"np", "root", "at", "old", "new", "perm", "then", "segs", "size", "argv"}
    BY <1>1 DEF IsLoc
  <2>2. DOMAIN l = DOMAIN loc[p] /\ l.segs = loc[p].segs /\ l.root = loc[p].root
        /\ l.np = loc[p].np /\ l.at = loc[p].at /\ l.old = loc[p].old
        /\ l.new = loc[p].new /\ l.size = s /\ l.argv = loc[p].argv
    BY <2>1
  <2> HIDE DEF l
  <2> QED BY <1>1, <1>3, <2>1, <2>2 DEF IsLoc
<1> HIDE DEF end, label, w, l
<1>7. Begun(p, l, s, end, label) BY <1>1, <1>3, <1>4, <1>5, <1>6, Begins
<1>8. PICK m, t :
    /\ loc' = [loc EXCEPT ![p] = m] /\ pc' = [pc EXCEPT ![p] = t] /\ IsLoc(m)
    /\ m.root = l.root /\ m.argv = l.argv /\ m.segs = l.segs /\ m.size = l.size /\ m.np = l.np
    /\ m.then = label /\ m.at = PagesOf(s) /\ m.old = PagesOf(s) /\ end <= m.new
    /\ t \in {label, "uvmalloc"}
    /\ t = "uvmalloc" => m.new = end /\ m.at * PGSIZE < m.new
    /\ t = label => PagesOf(m.new) = PagesOf(s)
    /\ m.new \in {s, end}
  BY <1>7 DEF Begun
<1>9. loc'[p] = m /\ pc'[p] = t /\ t \in Pc /\ t # "copy" /\ t # "user"
  BY <1>1, <1>8 DEF Typed, Pc, label
<1>10. ram' = ram /\ free' = free /\ panic' = panic /\ state' = state /\ parent' = parent
      /\ pagetable' = pagetable /\ trapframe' = trapframe /\ sz' = sz /\ sz' = [sz EXCEPT ![p] = sz[p]]
  BY <1>1 DEF memory, procs, Typed
<1>11. Process(p)'
  <2>1. Idle(p) /\ Idle(p)' BY <1>8, <1>9 DEF Idle, label
  <2> QED BY <1>1, <1>9, <1>10, <2>1 DEF Process
<1>12. m.new = s + 2 * PGSIZE BY <1>3, <1>8, Constants DEF end
<1>13. InExec(p)'
  <2>1. t = "uvmalloc" => Growing(p)' BY <1>2, <1>3, <1>6, <1>8, <1>9, <1>10 DEF Growing
  <2>2. t = label => \E n \in {PagesOf(IF m.new = 0 THEN m.size ELSE m.new)} :
                    Maps(ram', m.root, n) /\ UserPages(ram', m.root, n)
    <3>1. t = label => PagesOf(IF m.new = 0 THEN m.size ELSE m.new) = PagesOf(s) BY <1>6, <1>8
    <3> QED BY <1>2, <1>3, <1>6, <1>8, <1>10, <3>1
  <2> QED BY <1>2, <1>3, <1>6, <1>8, <1>9, <1>10, <1>12, <2>1, <2>2 DEF InExec, label
<1>14. Caller(p)' BY <1>8, <1>9, <1>13 DEF Caller, Idle, label
<1>15. NewRoot(p)' = NewRoot(p) /\ m.argv = loc[p].argv
  BY <1>2, <1>6, <1>8, <1>9, <1>10 DEF NewRoot
<1>16. sz[p] \in Nat BY <1>1 DEF Typed
<1> QED BY <1>1, <1>8, <1>9, <1>10, <1>11, <1>14, <1>15, <1>16, Quiet

\* Nothing moves.
LEMMA PartitionStill ==
  ASSUME Good, ram' = ram, free' = free, pagetable' = pagetable, trapframe' = trapframe,
         \A q \in Procs : NewRoot(q)' = NewRoot(q) /\ loc'[q].argv = loc[q].argv
  PROVE  Partition(Holding, Managed(ram))'
<1> DEFINE S == {}
           C == {}
<1>1. Managed(ram') = Managed(ram) /\ Stays(S, C) BY DEF Stays
<1>2. /\ \A a, b \in S : a # b => Holding'[a] \cap Holding'[b] = {}
      /\ \A f : (\E a \in S : f \in Holding'[a]) <=> (\E a \in S : f \in Holding[a])
  OBVIOUS
<1> HIDE DEF S, C
<1> QED BY <1>1, <1>2, PartitionStep

\* exit() keeps the memory until wait().
LEMMA ExitProcessKeeps ==
  ASSUME Good, NEW p \in Procs, ExitProcess(p)
  PROVE  Good' /\ Footprint({p}, <<"space", p>>)
<1>1. state[p] = "runnable" /\ pc[p] = "user" /\ Typed /\ Process(p) /\ Forks /\ ~ panic
  BY DEF ExitProcess, Calls, Good
<1>2. /\ ram' = ram /\ free' = free /\ panic' = panic /\ sz' = sz /\ pagetable' = pagetable
      /\ trapframe' = trapframe /\ pc' = pc /\ loc' = loc
      /\ state' = [state EXCEPT ![p] = "zombie"]
      /\ parent' = [q \in Procs |-> IF parent[q] = p THEN 1 ELSE parent[q]]
  BY DEF ExitProcess, memory
<1>3. /\ loc[p] = NoCall /\ Maps(ram, pagetable[p], PagesOf(sz[p])) BY <1>1, User
<1>4. state'[p] = "zombie" /\ \A q \in Procs \ {p} : state'[q] = state[q]
  BY <1>1, <1>2 DEF Typed
<1>5. Typed' BY <1>1, <1>2, <1>4 DEF Typed
<1>6. Forks' BY <1>1, <1>2 DEF Forks
<1>7. Partition(Holding, Managed(ram))'
  <2>1. \A q \in Procs : NewRoot(q)' = NewRoot(q) /\ loc'[q].argv = loc[q].argv
    BY <1>2 DEF NewRoot
  <2> QED BY <1>2, <2>1, PartitionStill
<1>8. Process(p)' /\ Caller(p)' BY <1>1, <1>2, <1>3, <1>4 DEF Process, Caller, Idle
<1> DEFINE X == {p}
           S == {}
           C == {}
<1>9. OthersRest(X, S)
  <2>1. ASSUME NEW q \in Procs \ {p}, pc[q] = "copy" PROVE loc[q].np # p BY <1>1, <2>1, PcApart
  <2>2. ASSUME NEW q \in Procs \ {p}, pc[q] = "reap" PROVE loc[q].np # p
          /\ parent'[loc[q].np] = parent[loc[q].np]
    BY <1>1, <1>2, <2>2, PcApart
  <2> QED BY <1>2, <1>4, <2>1, <2>2 DEF OthersRest
<1>10. Stays(S, C) /\ (panic' = FALSE) /\ \A q \in X : Process(q)' /\ Caller(q)'
  BY <1>1, <1>2, <1>8 DEF Stays
<1>11. X = {p} /\ <<"space", p>> \notin S OBVIOUS
<1> HIDE DEF X, S, C
<1>12. Good' BY <1>5, <1>6, <1>7, <1>9, <1>10, Together
<1>13. Footprint(X, <<"space", p>>) BY <1>9, <1>10, <1>11 DEF Footprint
<1> QED BY <1>11, <1>12, <1>13

\* fork() lets the child run: its pages are as many as its parent's.
LEMMA ForkReturnsKeeps ==
  ASSUME Good, NEW p \in Procs, ForkReturns(p)
  PROVE  Good' /\ Footprint({p, loc[p].np}, <<"space", p>>)
<1>1. pc[p] = "copy" /\ state[p] = "runnable" /\ Typed /\ Process(p) /\ Forks /\ ~ panic /\ InFork(p)
  BY DEF ForkReturns, Good, Process, Caller
<1>2. PICK x : /\ x = loc[p].np /\ x \in Procs /\ state[x] = "used" /\ x # p /\ Process(x)
               /\ pc[x] = "user" /\ loc[x] = NoCall
               /\ loc[p].at <= PagesOf(sz[p]) /\ Maps(ram, pagetable[x], loc[p].at)
               /\ loc[p].root = NoFrame /\ loc[p].argv = {}
  BY <1>1 DEF InFork, Good, Process
<1>3. loc[p].at * PGSIZE >= sz[p] BY DEF ForkReturns
<1>4. /\ ram' = ram /\ free' = free /\ panic' = panic /\ pagetable' = pagetable /\ trapframe' = trapframe
      /\ sz' = [sz EXCEPT ![x] = sz[p]] /\ parent' = [parent EXCEPT ![x] = p]
      /\ state' = [state EXCEPT ![x] = "runnable"]
      /\ pc' = [pc EXCEPT ![p] = "user"] /\ loc' = [loc EXCEPT ![p] = NoCall]
  BY <1>2 DEF ForkReturns, Returns, Goto, memory
<1>5. /\ pagetable[p] \in Frames /\ pagetable[p] # NoFrame /\ Tree(ram, pagetable[p]) /\ sz[p] \in Nat
      /\ PagesOf(sz[p]) \in Nat /\ PagesOf(sz[p]) <= PageLimit
      /\ (Idle(p) => Maps(ram, pagetable[p], PagesOf(sz[p]))) /\ IsLoc(loc[p])
  BY <1>1, Runs
<1>6. loc[p].at = PagesOf(sz[p]) BY <1>2, <1>3, <1>5, PagesCover, Constants DEF IsLoc
<1>7. /\ sz'[x] = sz[p] /\ state'[x] = "runnable" /\ pc'[x] = "user" /\ loc'[x] = NoCall
      /\ sz'[p] = sz[p] /\ state'[p] = "runnable" /\ pc'[p] = "user" /\ loc'[p] = NoCall
      /\ \A q \in Procs \ {p, x} : /\ sz'[q] = sz[q] /\ state'[q] = state[q] /\ pc'[q] = pc[q]
                                  /\ loc'[q] = loc[q] /\ parent'[q] = parent[q]
  BY <1>1, <1>2, <1>4 DEF Typed
<1>8. Typed'
  <2>1. \A q \in Procs : IsLoc(loc'[q]) BY <1>1, <1>4, <1>7, NoCallIs DEF Typed
  <2>2. sz' \in [Procs -> Nat] /\ state' \in [Procs -> {"unused", "used", "runnable", "zombie"}]
    BY <1>1, <1>4, <1>5 DEF Typed
  <2>3. parent' \in [Procs -> Int]
    <3>1. p \in Int BY MemAssumption DEF Procs
    <3> QED BY <1>1, <1>4, <3>1 DEF Typed
  <2>4. pc' \in [Procs -> Pc] /\ loc' = [q \in Procs |-> loc'[q]] BY <1>1, <1>4 DEF Typed, Pc
  <2> QED BY <1>1, <1>4, <2>1, <2>2, <2>3, <2>4 DEF Typed
<1>9. Forks'
  <2>1. \A q \in Procs : pc'[q] = "copy" => pc[q] = "copy" /\ loc'[q] = loc[q] BY <1>2, <1>7
  <2> QED BY <1>1, <2>1 DEF Forks
<1>10. Partition(Holding, Managed(ram))'
  <2>1. NewRoot(p) = NoFrame /\ NewRoot(p)' = NoFrame /\ loc'[p].argv = loc[p].argv
    BY <1>2, <1>7, NoCallIs DEF NewRoot
  <2>2. ASSUME NEW q \in Procs \ {p} PROVE NewRoot(q)' = NewRoot(q) /\ loc'[q].argv = loc[q].argv
    BY <1>2, <1>4, <1>7 DEF NewRoot
  <2> QED BY <1>4, <2>1, <2>2, PartitionStill
<1>11. Process(p)' /\ Caller(p)'
  <2>1. Idle(p) /\ Idle(p)' BY <1>1, <1>7 DEF Idle
  <2> QED BY <1>1, <1>4, <1>5, <1>7, <2>1 DEF Process, Caller
<1>12. Process(x)' /\ Caller(x)'
  <2>1. Idle(x)' BY <1>7 DEF Idle
  <2> QED BY <1>2, <1>4, <1>5, <1>6, <1>7, <2>1 DEF Process, Caller
<1> DEFINE X == {p, x}
           S == {}
           C == {}
<1>13. OthersRest(X, S)
  <2>1. ASSUME NEW q \in Procs \ {p, x}, pc[q] = "copy" PROVE loc[q].np \notin {p, x}
    <3>1. loc[q].np # p BY <1>1, <2>1, PcApart
    <3>2. loc[q].np # x BY <1>1, <1>2, <2>1 DEF Forks
    <3> QED BY <3>1, <3>2
  <2>2. ASSUME NEW q \in Procs \ {p, x}, pc[q] = "reap"
        PROVE  loc[q].np \notin {p, x} /\ parent'[loc[q].np] = parent[loc[q].np]
    <3>1. loc[q].np \in Procs /\ state[loc[q].np] = "zombie" BY <2>2, PcApart
    <3>2. loc[q].np \notin {p, x} BY <1>1, <1>2, <3>1
    <3> QED BY <1>7, <3>1, <3>2
  <2>3. ASSUME NEW q \in Procs \ {p, x}
        PROVE  /\ state'[q] = state[q] /\ sz'[q] = sz[q] /\ pagetable'[q] = pagetable[q]
               /\ trapframe'[q] = trapframe[q] /\ pc'[q] = pc[q] /\ loc'[q] = loc[q]
    BY <1>4, <1>7
  <2> QED BY <2>1, <2>2, <2>3 DEF OthersRest
<1>14. Stays(S, C) /\ (panic' = FALSE) /\ \A q \in X : Process(q)' /\ Caller(q)'
  BY <1>1, <1>4, <1>11, <1>12 DEF Stays
<1>15. X = {p, loc[p].np} /\ <<"space", p>> \notin S BY <1>2
<1> HIDE DEF X, S, C
<1>16. Good' BY <1>8, <1>9, <1>10, <1>13, <1>14, Together
<1>17. Footprint(X, <<"space", p>>) BY <1>13, <1>14, <1>15 DEF Footprint
<1> QED BY <1>15, <1>16, <1>17

-----
\* Calls that give frames back: fork() that fails, wait(), and exec() that
\* fails.
\* A size of 0 has no pages.
LEMMA ZeroPages == PagesOf(0) = 0
<1> DEFINE k == 0
<1>1. k \in Nat /\ k * PGSIZE = 0 BY Constants
<1> HIDE DEF k
<1>2. PagesOf(k * PGSIZE) = k BY <1>1, PagesExact
<1> QED BY <1>1, <1>2 DEF k

\* Frames that are given back, with all that some of the owners had.
LEMMA GivesBack ==
  ASSUME Good, NEW S, S \subseteq Owners, <<"free", 0>> \in S, NEW F,
         \A f : f \in F <=> \E o \in S \ {<<"free", 0>>} : f \in Holding[o],
         Kfree(F), \A o \in S \ {<<"free", 0>>} : Holding'[o] = {},
         \A q \in Procs : /\ <<"space", q>> \notin S => pagetable'[q] = pagetable[q]
                          /\ <<"image", q>> \notin S => NewRoot(q)' = NewRoot(q)
                          /\ <<"trapframe", q>> \notin S => trapframe'[q] = trapframe[q]
                          /\ <<"args", q>> \notin S => loc'[q].argv = loc[q].argv
  PROVE  /\ Stays(S, F) /\ Partition(Holding, Managed(ram))' /\ Managed(ram') = Managed(ram)
         /\ ram' = [f \in Frames |-> ram'[f]] /\ free' \subseteq Frames
<1> DEFINE o1 == <<"free", 0>>
<1>1. ram' = [f \in Frames |-> IF f \in F THEN Junk ELSE ram[f]] /\ free' = free \cup F
  BY DEF Kfree
<1>2. /\ \A o \in Owners : Holding[o] \subseteq Managed(ram) /\ Holding[o] \subseteq Frames
      /\ free \subseteq Frames
  BY Parts
<1>3. F \subseteq Managed(ram) /\ F \subseteq Frames BY <1>2
<1>4. Stays(S, F) BY <1>1 DEF Stays
<1>5. Managed(ram') = Managed(ram) BY <1>1, <1>3, Kinds DEF Managed
<1>6. Holding[o1] = free /\ Holding'[o1] = free' BY HoldingIs, HoldingNext
<1> HIDE DEF o1
<1>7. \A a, b \in S : a # b => Holding'[a] \cap Holding'[b] = {} BY DEF o1
<1>8. \A f : (\E a \in S : f \in Holding'[a]) <=> (\E a \in S : f \in Holding[a])
  BY <1>1, <1>6 DEF o1
<1>9. Partition(Holding, Managed(ram))' BY <1>4, <1>5, <1>7, <1>8, PartitionStep
<1> QED BY <1>1, <1>2, <1>3, <1>4, <1>5, <1>9

\* freeproc() of x, which p has been copying into or waited for.
LEMMA Reaped ==
  ASSUME Good, NEW p \in Procs, NEW x \in Procs, pc[p] \in {"copy", "reap"}, loc[p].np = x,
         Kfree(SpaceOf(ram, pagetable[x]) \cup {trapframe[x]}), panic' = FALSE, Unused(x), Returns(p)
  PROVE  Good' /\ Footprint({p, x}, <<"space", p>>)
<1>1. state[p] = "runnable" /\ Typed /\ Process(p) /\ Process(x) /\ Forks /\ ~ panic
  BY DEF Good, Process
<1>2. /\ pc[p] = "copy" => state[x] = "used"
      /\ pc[p] = "reap" => state[x] = "zombie" /\ parent[x] = p
  BY PcApart
<1>3. x # p /\ pc[x] = "user" /\ loc[x] = NoCall /\ pagetable[x] # NoFrame /\ trapframe[x] # NoFrame
  BY <1>1, <1>2 DEF Process
<1>4. loc[p].root = NoFrame /\ loc[p].argv = {} BY DEF Good, Caller, InFork, InWait
<1>5. /\ sz' = [sz EXCEPT ![x] = 0] /\ parent' = [parent EXCEPT ![x] = 0]
      /\ state' = [state EXCEPT ![x] = "unused"] /\ pagetable' = [pagetable EXCEPT ![x] = NoFrame]
      /\ trapframe' = [trapframe EXCEPT ![x] = NoFrame]
      /\ pc' = [pc EXCEPT ![p] = "user"] /\ loc' = [loc EXCEPT ![p] = NoCall]
  BY DEF Unused, Returns, Goto
<1>6. /\ sz'[x] = 0 /\ state'[x] = "unused" /\ pagetable'[x] = NoFrame /\ trapframe'[x] = NoFrame
      /\ pc'[x] = "user" /\ loc'[x] = NoCall
      /\ sz'[p] = sz[p] /\ state'[p] = state[p] /\ pc'[p] = "user" /\ loc'[p] = NoCall
      /\ pagetable'[p] = pagetable[p]
  BY <1>1, <1>3, <1>5 DEF Typed
<1>7. \A q \in Procs \ {x} : /\ sz'[q] = sz[q] /\ state'[q] = state[q] /\ parent'[q] = parent[q]
                             /\ pagetable'[q] = pagetable[q] /\ trapframe'[q] = trapframe[q]
  BY <1>1, <1>5 DEF Typed
<1>8. \A q \in Procs \ {p} : pc'[q] = pc[q] /\ loc'[q] = loc[q] BY <1>1, <1>5 DEF Typed
<1>9. \A q \in Procs : NewRoot(q)' = NewRoot(q) /\ loc'[q].argv = loc[q].argv
  <2>1. NewRoot(p) = NoFrame /\ NewRoot(p)' = NoFrame /\ loc'[p].argv = loc[p].argv
    BY <1>4, <1>6, NoCallIs DEF NewRoot
  <2>2. NewRoot(x) = NoFrame /\ NewRoot(x)' = NoFrame /\ loc'[x].argv = loc[x].argv
    BY <1>3, <1>6, NoCallIs DEF NewRoot
  <2>3. ASSUME NEW q \in Procs \ {p, x} PROVE NewRoot(q)' = NewRoot(q) /\ loc'[q].argv = loc[q].argv
    BY <1>7, <1>8 DEF NewRoot
  <2> QED BY <2>1, <2>2, <2>3
<1> DEFINE S == {<<"free", 0>>, <<"space", x>>, <<"trapframe", x>>}
           C == SpaceOf(ram, pagetable[x]) \cup {trapframe[x]}
           X == {p, x}
<1>10. /\ Stays(S, C) /\ Partition(Holding, Managed(ram))'
       /\ ram' = [f \in Frames |-> ram'[f]] /\ free' \subseteq Frames
  <2>1. S \subseteq Owners /\ <<"free", 0>> \in S BY OwnersAre
  <2>2. Holding[<<"space", x>>] = SpaceOf(ram, pagetable[x]) BY HoldingIs
  <2>3. Holding[<<"trapframe", x>>] = {trapframe[x]} BY <1>3, HoldingIs
  <2>4. S \ {<<"free", 0>>} = {<<"space", x>>, <<"trapframe", x>>} OBVIOUS
  <2>5. \A f : f \in C <=> \E o \in S \ {<<"free", 0>>} : f \in Holding[o] BY <2>2, <2>3, <2>4
  <2>6. Holding'[<<"space", x>>] = {}
    <3>1. Holding'[<<"space", x>>] = SpaceOf(ram', pagetable'[x]) BY HoldingNext
    <3> QED BY <1>6, <3>1 DEF SpaceOf
  <2>7. Holding'[<<"trapframe", x>>] = {}
    <3>1. Holding'[<<"trapframe", x>>] = {trapframe'[x]} \ {NoFrame} BY HoldingNext
    <3> QED BY <1>6, <3>1
  <2>8. \A o \in S \ {<<"free", 0>>} : Holding'[o] = {} BY <2>4, <2>6, <2>7
  <2>9. \A q \in Procs : /\ <<"space", q>> \notin S => pagetable'[q] = pagetable[q]
                         /\ <<"trapframe", q>> \notin S => trapframe'[q] = trapframe[q]
    BY <1>7
  <2>10. Kfree(C) OBVIOUS
  <2> HIDE DEF S, C
  <2> QED BY <1>9, <2>1, <2>5, <2>8, <2>9, <2>10, GivesBack
<1>11. Typed'
  <2>1. \A q \in Procs : IsLoc(loc'[q]) BY <1>1, <1>6, <1>8, NoCallIs DEF Typed
  <2>2. sz' \in [Procs -> Nat] /\ state' \in [Procs -> {"unused", "used", "runnable", "zombie"}]
        /\ parent' \in [Procs -> Int]
    BY <1>1, <1>5 DEF Typed
  <2>3. pagetable' \in [Procs -> Frames \cup {NoFrame}] /\ trapframe' \in [Procs -> Frames \cup {NoFrame}]
    BY <1>1, <1>5 DEF Typed
  <2>4. pc' \in [Procs -> Pc] /\ loc' = [q \in Procs |-> loc'[q]] BY <1>1, <1>5 DEF Typed, Pc
  <2> QED BY <1>10, <2>1, <2>2, <2>3, <2>4 DEF Typed
<1>12. Forks'
  <2>1. \A q \in Procs : pc'[q] = "copy" => pc[q] = "copy" /\ loc'[q] = loc[q] BY <1>6, <1>8
  <2> QED BY <1>1, <2>1 DEF Forks
<1>13. OthersRest(X, S)
  <2>1. ASSUME NEW q \in Procs \ {p, x}, pc[q] = "copy" PROVE loc[q].np \notin {p, x}
    <3>1. state[loc[q].np] = "used" BY <2>1, PcApart
    <3>2. loc[q].np = x => pc[p] = "copy" BY <1>2, <3>1
    <3> QED BY <1>1, <2>1, <3>1, <3>2 DEF Forks
  <2>2. ASSUME NEW q \in Procs \ {p, x}, pc[q] = "reap"
        PROVE  loc[q].np \notin {p, x} /\ parent'[loc[q].np] = parent[loc[q].np]
    <3>1. loc[q].np \in Procs /\ state[loc[q].np] = "zombie" /\ parent[loc[q].np] = q
      BY <2>2, PcApart
    <3>2. loc[q].np \notin {p, x} BY <1>1, <1>2, <3>1
    <3> QED BY <1>7, <3>1, <3>2
  <2>3. ASSUME NEW q \in Procs \ {p, x}
        PROVE  /\ state'[q] = state[q] /\ sz'[q] = sz[q] /\ pagetable'[q] = pagetable[q]
               /\ trapframe'[q] = trapframe[q] /\ pc'[q] = pc[q] /\ loc'[q] = loc[q]
    BY <1>7, <1>8
  <2>4. ASSUME NEW q \in Procs \ {p, x} PROVE <<"space", q>> \notin S /\ <<"image", q>> \notin S
    OBVIOUS
  <2> QED BY <2>1, <2>2, <2>3, <2>4 DEF OthersRest
<1>14. Process(p)' /\ Caller(p)'
  <2>1. Idle(p) /\ Idle(p)' BY <1>6 DEF Idle
  <2>2. <<"space", p>> \notin S BY <1>3
  <2>3. Alike(ram, ram', pagetable[p])
    <3>1. pagetable[p] # NoFrame BY <1>1 DEF Process
    <3> HIDE DEF S, C
    <3> QED BY <1>6, <1>10, <2>2, <3>1, KeptSpace
  <2>4. Tree(ram', pagetable[p]) /\ \A n : Maps(ram, pagetable[p], n) => Maps(ram', pagetable[p], n)
    BY <2>3, Zenon DEF Alike
  <2>5. Process(p)' BY <1>1, <1>3, <1>6, <1>7, <2>1, <2>4 DEF Process
  <2> QED BY <1>6, <2>1, <2>5 DEF Caller
<1>15. Process(x)' /\ Caller(x)'
  <2>1. PagesOf(0) = 0 BY ZeroPages
  <2> QED BY <1>6, <2>1, Constants DEF Process, Caller, Idle
<1>16. \A q \in X : Process(q)' /\ Caller(q)' BY <1>14, <1>15
<1>17. <<"space", p>> \notin S BY <1>3
<1> HIDE DEF X, S, C
<1>18. Good' BY <1>10, <1>11, <1>12, <1>13, <1>16, Together
<1>19. X = {p, x} BY DEF X
<1> QED BY <1>10, <1>13, <1>17, <1>18, <1>19 DEF Footprint

\* fork() fails in uvmcopy() and gives back all of the child's frames.
LEMMA CopyFailsKeeps ==
  ASSUME Good, NEW p \in Procs, CopyFails(p)
  PROVE  Good' /\ Footprint({p, loc[p].np}, <<"space", p>>)
<1>1. pc[p] = "copy" /\ state[p] = "runnable" /\ InFork(p) /\ IsLoc(loc[p])
      /\ PagesOf(sz[p]) \in Nat /\ PagesOf(sz[p]) <= PageLimit
  BY PcApart DEF CopyFails, Good, Caller
<1>2. PICK x : x = loc[p].np /\ x \in Procs /\ state[x] = "used" /\ loc[p].at <= PagesOf(sz[p])
               /\ Maps(ram, pagetable[x], loc[p].at) /\ loc[p].at \in Nat
  BY <1>1 DEF InFork, IsLoc
<1>3. Tree(ram, pagetable[x]) BY <1>2 DEF Good, Process
<1>4. /\ SpaceFrames(pagetable[x], loc[p].at * PGSIZE) = SpaceOf(ram, pagetable[x])
      /\ SpaceSound(pagetable[x], loc[p].at * PGSIZE)
      /\ PagesFrom(0, loc[p].at * PGSIZE) = 0 .. loc[p].at - 1
  <2> DEFINE n == loc[p].at * PGSIZE
  <2>1. n \in Nat /\ PagesOf(n) = loc[p].at BY <1>2, PagesExact
  <2>2. PagesOf(n) <= PageLimit BY <1>1, <1>2, <2>1, Constants
  <2> HIDE DEF n
  <2>3. SpaceFrames(pagetable[x], n) = SpaceOf(ram, pagetable[x]) /\ SpaceSound(pagetable[x], n)
        /\ PagesFrom(0, n) = 0 .. PagesOf(n) - 1
    BY <1>2, <1>3, <2>1, <2>2, SpaceParts
  <2> QED BY <2>1, <2>3 DEF n
<1>5. /\ Kfree(FramesAt(pagetable[x], 0 .. loc[p].at - 1) \cup Tables(pagetable[x]) \cup {trapframe[x]})
      /\ panic' = (MappedPages(pagetable[x]) # 0 .. loc[p].at - 1 \cup {TRAMPOLINE, TRAPFRAME})
      /\ Unused(x) /\ Returns(p)
  BY <1>2 DEF CopyFails
<1>6. panic' = FALSE BY <1>4, <1>5 DEF SpaceSound
<1>7. FramesAt(pagetable[x], 0 .. loc[p].at - 1) \cup Tables(pagetable[x]) \cup {trapframe[x]}
        = SpaceOf(ram, pagetable[x]) \cup {trapframe[x]}
  BY <1>4 DEF SpaceFrames
<1>8. Kfree(SpaceOf(ram, pagetable[x]) \cup {trapframe[x]}) BY <1>5, <1>7
<1> QED BY <1>1, <1>2, <1>5, <1>6, <1>8, Reaped

\* wait() frees the child.
LEMMA ReapKeeps ==
  ASSUME Good, NEW p \in Procs, Reap(p)
  PROVE  Good' /\ Footprint({p, loc[p].np}, <<"space", p>>)
<1>1. pc[p] = "reap" /\ InWait(p) BY DEF Reap, Good, Caller
<1>2. PICK x : x = loc[p].np /\ x \in Procs /\ state[x] = "zombie" BY <1>1 DEF InWait
<1>3. Tree(ram, pagetable[x]) /\ Maps(ram, pagetable[x], PagesOf(sz[x])) /\ PagesOf(sz[x]) <= PageLimit
      /\ sz[x] \in Nat
  <2>1. Process(x) /\ Typed BY <1>2 DEF Good
  <2>2. pc[x] = "user" /\ Idle(x) BY <1>2, <2>1 DEF Process, Idle
  <2> QED BY <1>2, <2>1, <2>2 DEF Process, Typed
<1>4. SpaceFrames(pagetable[x], sz[x]) = SpaceOf(ram, pagetable[x]) /\ SpaceSound(pagetable[x], sz[x])
  BY <1>3, SpaceParts
<1>5. /\ Kfree(SpaceFrames(pagetable[x], sz[x]) \cup {trapframe[x]})
      /\ panic' = ~ SpaceSound(pagetable[x], sz[x])
      /\ Unused(x) /\ Returns(p)
  BY <1>2 DEF Reap
<1> QED BY <1>1, <1>2, <1>4, <1>5, Reaped

\* A step in which p alone takes part.
LEMMA Alone ==
  ASSUME Good, NEW p \in Procs, state[p] = "runnable", NEW S, NEW C, Stays(S, C),
         \A q \in Procs \ {p} : <<"space", q>> \notin S /\ <<"image", q>> \notin S,
         Partition(Holding, Managed(ram))', ram' = [f \in Frames |-> ram'[f]], free' \subseteq Frames,
         panic' = FALSE, state' = state, parent' = parent, trapframe' = trapframe,
         NEW n \in Nat, sz' = [sz EXCEPT ![p] = n],
         NEW r \in Frames, pagetable' = [pagetable EXCEPT ![p] = r],
         NEW s \in Pc, pc' = [pc EXCEPT ![p] = s], NEW l, loc' = [loc EXCEPT ![p] = l], IsLoc(l),
         s # "copy", Process(p)', Caller(p)'
  PROVE  Good' /\ OthersRest({p}, S)
<1>1. Typed /\ Forks BY DEF Good
<1>2. \A q \in Procs \ {p} : sz'[q] = sz[q] /\ pc'[q] = pc[q] /\ loc'[q] = loc[q]
        /\ pagetable'[q] = pagetable[q]
  BY <1>1 DEF Typed
<1>3. pc'[p] = s /\ loc'[p] = l BY <1>1 DEF Typed
<1> DEFINE X == {p}
<1>4. OthersRest(X, S)
  <2>1. \A q \in Procs : /\ pc[q] = "copy" => loc[q].np # p
                         /\ pc[q] = "reap" => loc[q].np # p
    BY PcApart
  <2> QED BY <1>2, <2>1 DEF OthersRest
<1>5. Typed'
  <2>1. \A q \in Procs : IsLoc(loc'[q]) BY <1>1, <1>2, <1>3 DEF Typed
  <2>2. sz' \in [Procs -> Nat] /\ pc' \in [Procs -> Pc] /\ loc' = [q \in Procs |-> loc'[q]]
    BY <1>1 DEF Typed
  <2>3. pagetable' \in [Procs -> Frames \cup {NoFrame}] BY <1>1 DEF Typed
  <2> QED BY <1>1, <2>1, <2>2, <2>3 DEF Typed
<1>6. Forks'
  <2>1. \A q \in Procs : pc'[q] = "copy" => pc[q] = "copy" /\ loc'[q] = loc[q] BY <1>2, <1>3
  <2> QED BY <1>1, <2>1 DEF Forks
<1>7. \A q \in X : Process(q)' /\ Caller(q)' OBVIOUS
<1>8. X = {p} OBVIOUS
<1> HIDE DEF X
<1> QED BY <1>4, <1>5, <1>6, <1>7, <1>8, Together

\* The processes are as they were.
LEMMA ProcsSame ==
  ASSUME Good, NEW p \in Procs, state[p] = "runnable", UNCHANGED procs
  PROVE  /\ state' = state /\ parent' = parent /\ trapframe' = trapframe
         /\ sz' = [sz EXCEPT ![p] = sz[p]] /\ pagetable' = [pagetable EXCEPT ![p] = pagetable[p]]
         /\ sz' = sz /\ pagetable' = pagetable /\ sz[p] \in Nat /\ pagetable[p] \in Frames
BY Runs DEF Good, Typed, procs

\* exec() in its steps.
LEMMA Execs ==
  ASSUME Good, NEW p \in Procs, pc[p] \in {"argv", "open", "segment", "load", "stack"}
  PROVE  /\ state[p] = "runnable" /\ InExec(p) /\ IsLoc(loc[p]) /\ NewRoot(p) = loc[p].root
         /\ Idle(p) /\ Maps(ram, pagetable[p], PagesOf(sz[p])) /\ loc[p].root # pagetable[p]
         /\ Process(p)
<1>1. state[p] = "runnable" /\ InExec(p) /\ IsLoc(loc[p]) /\ Process(p)
  BY DEF Good, Process, Caller, Typed
<1>2. Idle(p) BY DEF Idle
<1>3. Maps(ram, pagetable[p], PagesOf(sz[p])) BY <1>1, <1>2, Runs
<1>4. loc[p].root # pagetable[p] BY <1>1 DEF InExec
<1> QED BY <1>1, <1>2, <1>3, <1>4 DEF NewRoot

\* exec() fails and gives back the image and the arguments.
LEMMA BadKeeps ==
  ASSUME Good, NEW p \in Procs, pc[p] \in {"argv", "open", "segment", "load", "stack"},
         NEW size \in Nat, PagesOf(size) <= PageLimit,
         loc[p].root # NoFrame => Maps(ram, loc[p].root, PagesOf(size)),
         Bad(p, size), UNCHANGED procs
  PROVE  Good' /\ Footprint({p}, <<"space", p>>)
<1> DEFINE S == {<<"free", 0>>, <<"image", p>>, <<"args", p>>}
           C == SpaceOf(ram, NewRoot(p)) \cup loc[p].argv
<1>1. /\ state[p] = "runnable" /\ InExec(p) /\ IsLoc(loc[p]) /\ NewRoot(p) = loc[p].root
      /\ Idle(p) /\ Maps(ram, pagetable[p], PagesOf(sz[p])) /\ Process(p)
  BY Execs
<1>2. Typed /\ panic = FALSE BY DEF Good, Typed
<1>3. Kfree(C) /\ panic' = FALSE
  <2>1. CASE loc[p].root = NoFrame BY <1>1, <1>2, <2>1 DEF Bad, SpaceOf
  <2>2. CASE loc[p].root # NoFrame
    <3>1. Tree(ram, loc[p].root) BY <1>1, <2>2 DEF InExec
    <3>2. SpaceFrames(loc[p].root, size) = SpaceOf(ram, loc[p].root) /\ SpaceSound(loc[p].root, size)
      BY <2>2, <3>1, SpaceParts
    <3> QED BY <1>1, <2>2, <3>2 DEF Bad
  <2> QED BY <2>1, <2>2
<1>4. pc' = [pc EXCEPT ![p] = "user"] /\ loc' = [loc EXCEPT ![p] = NoCall]
  BY DEF Bad, Returns, Goto
<1>5. pc'[p] = "user" /\ loc'[p] = NoCall /\ \A q \in Procs \ {p} : pc'[q] = pc[q] /\ loc'[q] = loc[q]
  BY <1>2, <1>4 DEF Typed
<1>6. /\ state' = state /\ parent' = parent /\ trapframe' = trapframe
      /\ sz' = [sz EXCEPT ![p] = sz[p]] /\ pagetable' = [pagetable EXCEPT ![p] = pagetable[p]]
      /\ sz' = sz /\ pagetable' = pagetable /\ sz[p] \in Nat /\ pagetable[p] \in Frames
  BY <1>1, ProcsSame
<1>7. NewRoot(p)' = NoFrame BY <1>5, NoCallIs DEF NewRoot
<1>8. \A q \in Procs \ {p} : NewRoot(q)' = NewRoot(q) BY <1>5, <1>6 DEF NewRoot
<1>9. /\ Stays(S, C) /\ Partition(Holding, Managed(ram))'
      /\ ram' = [f \in Frames |-> ram'[f]] /\ free' \subseteq Frames
  <2>1. S \subseteq Owners /\ <<"free", 0>> \in S BY OwnersAre
  <2>2. Holding[<<"image", p>>] = SpaceOf(ram, NewRoot(p)) BY HoldingIs
  <2>3. Holding[<<"args", p>>] = loc[p].argv BY HoldingIs
  <2>4. S \ {<<"free", 0>>} = {<<"image", p>>, <<"args", p>>} OBVIOUS
  <2>5. \A f : f \in C <=> \E o \in S \ {<<"free", 0>>} : f \in Holding[o] BY <2>2, <2>3, <2>4
  <2>6. Holding'[<<"image", p>>] = {}
    <3>1. Holding'[<<"image", p>>] = SpaceOf(ram', NewRoot(p)') BY HoldingNext
    <3> QED BY <1>7, <3>1 DEF SpaceOf
  <2>7. Holding'[<<"args", p>>] = {}
    <3>1. Holding'[<<"args", p>>] = loc'[p].argv BY HoldingNext
    <3> QED BY <1>5, <3>1, NoCallIs
  <2>8. \A o \in S \ {<<"free", 0>>} : Holding'[o] = {} BY <2>4, <2>6, <2>7
  <2>9. \A q \in Procs : /\ <<"image", q>> \notin S => NewRoot(q)' = NewRoot(q)
                         /\ <<"args", q>> \notin S => loc'[q].argv = loc[q].argv
    BY <1>5, <1>8
  <2>10. Kfree(C) BY <1>3
  <2> HIDE DEF S, C
  <2> QED BY <1>6, <2>1, <2>5, <2>8, <2>9, <2>10, GivesBack
<1>10. Process(p)' /\ Caller(p)'
  <2>1. Idle(p)' BY <1>5 DEF Idle
  <2>2. <<"space", p>> \notin S OBVIOUS
  <2>3. Alike(ram, ram', pagetable[p])
    <3>1. pagetable[p] # NoFrame BY <1>1 DEF Process
    <3> HIDE DEF S, C
    <3> QED BY <1>6, <1>9, <2>2, <3>1, KeptSpace
  <2>4. Tree(ram', pagetable[p]) /\ \A n : Maps(ram, pagetable[p], n) => Maps(ram', pagetable[p], n)
    BY <2>3, Zenon DEF Alike
  <2>5. Process(p)' BY <1>1, <1>5, <1>6, <2>1, <2>4 DEF Process
  <2> QED BY <1>5, <2>1, <2>5 DEF Caller
<1>11. \A q \in Procs \ {p} : <<"space", q>> \notin S /\ <<"image", q>> \notin S OBVIOUS
<1>12. IsLoc(NoCall) /\ "user" \in Pc BY NoCallIs DEF Pc
<1>13. <<"space", p>> \notin S OBVIOUS
<1> HIDE DEF S, C
<1>14. Good' /\ OthersRest({p}, S) BY <1>1, <1>3, <1>4, <1>6, <1>9, <1>10, <1>11, <1>12, Alone
<1> QED BY <1>9, <1>13, <1>14 DEF Footprint

\* sys_exec() takes a frame for an argument.
LEMMA FetchKeeps ==
  ASSUME Good, NEW p \in Procs, pc[p] = "argv", FreeFrames(1),
         ram' = [ram EXCEPT ![Frame1] = Data("args")], free' = free \ {Frame1},
         loc' = [loc EXCEPT ![p].argv = @ \cup {Frame1}], UNCHANGED <<panic, pc, procs>>
  PROVE  Good' /\ Footprint({p}, <<"space", p>>)
<1> DEFINE S == {<<"free", 0>>, <<"args", p>>}
           l == [loc[p] EXCEPT !.argv = @ \cup {Frame1}]
<1>1. /\ state[p] = "runnable" /\ InExec(p) /\ IsLoc(loc[p]) /\ NewRoot(p) = loc[p].root
      /\ Idle(p) /\ Maps(ram, pagetable[p], PagesOf(sz[p])) /\ Process(p)
  BY Execs
<1>2. Typed /\ panic = FALSE BY DEF Good, Typed
<1>3. free \subseteq Managed(ram) /\ free \subseteq Frames /\ Frame1 \in free BY Parts, Taken
<1> DEFINE C == {Frame1}
<1>4. loc' = [loc EXCEPT ![p] = l] /\ loc'[p] = l /\ \A q \in Procs \ {p} : loc'[q] = loc[q]
  BY <1>2 DEF Typed
<1>5. IsLoc(l) /\ l.root = loc[p].root /\ l.size = loc[p].size /\ l.argv = loc[p].argv \cup {Frame1}
  <2>1. DOMAIN loc[p] = {"np", "root", "at", "old", "new", "perm", "then", "segs", "size", "argv"}
    BY <1>1 DEF IsLoc
  <2>2. DOMAIN l = DOMAIN loc[p] /\ l.segs = loc[p].segs /\ l.root = loc[p].root
        /\ l.np = loc[p].np /\ l.at = loc[p].at /\ l.old = loc[p].old
        /\ l.new = loc[p].new /\ l.size = loc[p].size /\ l.argv = loc[p].argv \cup {Frame1}
    BY <2>1
  <2> HIDE DEF l
  <2> QED BY <1>1, <1>3, <2>1, <2>2 DEF IsLoc
<1> HIDE DEF l
<1>6. /\ state' = state /\ parent' = parent /\ trapframe' = trapframe
      /\ sz' = [sz EXCEPT ![p] = sz[p]] /\ pagetable' = [pagetable EXCEPT ![p] = pagetable[p]]
      /\ sz' = sz /\ pagetable' = pagetable /\ sz[p] \in Nat /\ pagetable[p] \in Frames
      /\ pc' = pc /\ pc' = [pc EXCEPT ![p] = "argv"] /\ panic' = FALSE /\ "argv" \in Pc
  BY <1>1, <1>2, ProcsSame DEF Typed, Pc
<1>7. \A q \in Procs : NewRoot(q)' = NewRoot(q) BY <1>4, <1>5, <1>6 DEF NewRoot
<1>8. Managed(ram') = Managed(ram) BY <1>2, <1>3, Kinds DEF Managed, Typed
<1>9. Stays(S, C)
  <2>1. Holding[<<"free", 0>>] = free /\ S \subseteq Owners BY HoldingIs, OwnersAre
  <2> QED BY <1>2, <1>3, <2>1 DEF Stays, Typed
<1>10. Partition(Holding, Managed(ram))'
  <2>1. Holding[<<"free", 0>>] = free /\ Holding'[<<"free", 0>>] = free \ {Frame1}
    BY HoldingIs, HoldingNext
  <2>2. Holding[<<"args", p>>] = loc[p].argv /\ Holding'[<<"args", p>>] = loc[p].argv \cup {Frame1}
    BY <1>4, <1>5, HoldingIs, HoldingNext
  <2>3. <<"free", 0>> \in Owners /\ <<"args", p>> \in Owners /\ <<"free", 0>> # <<"args", p>>
    BY OwnersAre
  <2>4. Holding[<<"free", 0>>] \cap Holding[<<"args", p>>] = {} BY <2>3, Parts DEF Partition
  <2>5. \A a, b \in S : a # b => Holding'[a] \cap Holding'[b] = {} BY <1>3, <2>1, <2>2, <2>4
  <2>6. \A f : (\E a \in S : f \in Holding'[a]) <=> (\E a \in S : f \in Holding[a])
    BY <1>3, <2>1, <2>2
  <2>7. \A q \in Procs : <<"args", q>> \notin S => loc'[q].argv = loc[q].argv BY <1>4
  <2>8. <<"free", 0>> \in S OBVIOUS
  <2>9. \A q \in Procs : /\ <<"space", q>> \notin S => pagetable'[q] = pagetable[q]
                         /\ <<"image", q>> \notin S => NewRoot(q)' = NewRoot(q)
                         /\ <<"trapframe", q>> \notin S => trapframe'[q] = trapframe[q]
                         /\ <<"args", q>> \notin S => loc'[q].argv = loc[q].argv
    BY <1>6, <1>7, <2>7
  <2> HIDE DEF S, C
  <2> QED BY <1>8, <1>9, <2>5, <2>6, <2>8, <2>9, PartitionStep
<1>11. Process(p)' /\ Caller(p)'
  <2>1. Idle(p)' /\ pc'[p] = "argv" BY <1>6 DEF Idle
  <2>2. <<"space", p>> \notin S OBVIOUS
  <2>3. Alike(ram, ram', pagetable[p])
    <3>1. pagetable[p] # NoFrame BY <1>1 DEF Process
    <3> HIDE DEF S, C
    <3> QED BY <1>6, <1>9, <2>2, <3>1, KeptSpace
  <2>4. Tree(ram', pagetable[p]) /\ \A n : Maps(ram, pagetable[p], n) => Maps(ram', pagetable[p], n)
    BY <2>3, Zenon DEF Alike
  <2>5. Process(p)' BY <1>1, <1>6, <2>1, <2>4 DEF Process
  <2>6. InExec(p)' BY <1>1, <1>4, <1>5, <1>6, <2>1 DEF InExec
  <2> QED BY <2>1, <2>5, <2>6 DEF Caller
<1>12. \A q \in Procs \ {p} : <<"space", q>> \notin S /\ <<"image", q>> \notin S OBVIOUS
<1>13. ram' = [f \in Frames |-> ram'[f]] /\ free' \subseteq Frames BY <1>2, <1>3 DEF Typed
<1>14. <<"space", p>> \notin S OBVIOUS
<1> HIDE DEF S, C
<1>15. Good' /\ OthersRest({p}, S)
  BY <1>1, <1>4, <1>5, <1>6, <1>9, <1>10, <1>11, <1>12, <1>13, Alone
<1> QED BY <1>9, <1>14, <1>15 DEF Footprint

\* An argument is fetched, or is the last, or exec() fails.
LEMMA FetchArgKeeps ==
  ASSUME Good, NEW p \in Procs, FetchArg(p)
  PROVE  Good'
<1>1. pc[p] = "argv" /\ InExec(p) /\ loc[p].root = NoFrame /\ IsLoc(loc[p])
  <2>1. pc[p] = "argv" BY DEF FetchArg
  <2> QED BY <2>1, Execs DEF InExec
<1>2. CASE Bad(p, 0)
  <2>1. 0 \in Nat /\ PagesOf(0) <= PageLimit /\ UNCHANGED procs
    BY ZeroPages, Constants DEF FetchArg
  <2> QED BY <1>1, <1>2, <2>1, BadKeeps
<1>3. CASE /\ Cardinality(loc[p].argv) < MAXARG /\ FreeFrames(1)
           /\ ram' = [ram EXCEPT ![Frame1] = Data("args")] /\ free' = free \ {Frame1}
           /\ loc' = [loc EXCEPT ![p].argv = @ \cup {Frame1}]
           /\ UNCHANGED <<panic, pc>>
  BY <1>1, <1>3, FetchKeeps DEF FetchArg
<1>4. CASE Goto(p, "open") /\ UNCHANGED <<memory, loc, procs>>
  <2>1. /\ state[p] = "runnable" /\ NewRoot(p) = loc[p].root
        /\ Idle(p) /\ Maps(ram, pagetable[p], PagesOf(sz[p])) /\ Process(p) /\ Typed
    BY <1>1, Execs DEF Good
  <2>2. /\ ram' = ram /\ free' = free /\ panic' = panic /\ state' = state /\ parent' = parent
        /\ pagetable' = pagetable /\ trapframe' = trapframe /\ sz' = sz
        /\ sz' = [sz EXCEPT ![p] = sz[p]] /\ sz[p] \in Nat
        /\ loc' = loc /\ loc' = [loc EXCEPT ![p] = loc[p]] /\ pc' = [pc EXCEPT ![p] = "open"]
        /\ pc'[p] = "open" /\ "open" \in Pc
    BY <1>4, <2>1 DEF memory, procs, Goto, Typed, Pc
  <2>3. Process(p)' BY <1>1, <2>1, <2>2 DEF Process, Idle
  <2>4. InExec(p)' BY <1>1, <2>2 DEF InExec
  <2>5. Caller(p)' /\ NewRoot(p)' = NewRoot(p) BY <2>2, <2>4 DEF Caller, Idle, NewRoot
  <2> QED BY <1>1, <2>1, <2>2, <2>3, <2>5, Quiet
<1> QED BY <1>2, <1>3, <1>4 DEF FetchArg

-----
\* Writes to pages.
\* walk() in the memory of now.
LEMMA PteIs ==
  ASSUME NEW r, NEW k
  PROVE  Pte(r, k) = Ent(ram, r, k) /\ Next0(r, k) = Low(ram, r, k) /\ Next1(r, k) = Mid(ram, r, k)
BY DEF Pte, Ent, Next0, Low, Next1, Mid

\* Only pages of the table below r are written.
Wrote(r) ==
  /\ ram' = [f \in Frames |-> ram'[f]]
  /\ \A f \in Frames \ LeavesOf(ram, r) : ram'[f] = ram[f]
  /\ \A f \in Frames : ram'[f] = ram[f] \/ ram'[f] # Data("kernel")

\* Writes to its pages leave a page table as it is.
LEMMA WroteIs ==
  ASSUME NEW r, Tree(ram, r), SpaceOf(ram, r) \subseteq Managed(ram), Wrote(r)
  PROVE  Alike(ram, ram', r) /\ Managed(ram') = Managed(ram) /\ LeavesOf(ram, r) \subseteq SpaceOf(ram, r)
<1>1. r \in Frames /\ LeavesOf(ram, r) \cap TablesOf(ram, r) = {} /\ TablesOf(ram, r) \subseteq Frames
  BY DEF Tree, LeavesOf
<1>2. LeavesOf(ram, r) \subseteq SpaceOf(ram, r) BY <1>1, Constants DEF SpaceOf
<1>3. \A f \in TablesOf(ram, r) : ram'[f] = ram[f] BY <1>1 DEF Wrote
<1>4. /\ Tree(ram', r) /\ TablesOf(ram', r) = TablesOf(ram, r) /\ SpaceOf(ram', r) = SpaceOf(ram, r)
      /\ \A va \in Addresses : /\ Mid(ram', r, va) = Mid(ram, r, va) /\ Low(ram', r, va) = Low(ram, r, va)
                                  /\ Ent(ram', r, va) = Ent(ram, r, va)
      /\ \A n : Maps(ram, r, n) => Maps(ram', r, n)
      /\ \A n \in Nat : n <= PageLimit /\ UserPages(ram, r, n) => UserPages(ram', r, n)
  BY <1>3, Untouched
<1>5. Managed(ram') = Managed(ram)
  <2>1. ASSUME NEW f \in Frames PROVE f \in Managed(ram') <=> f \in Managed(ram)
    <3>1. CASE f \in LeavesOf(ram, r) BY <1>2, <3>1 DEF Wrote, Managed
    <3>2. CASE f \notin LeavesOf(ram, r) BY <3>2 DEF Wrote, Managed
    <3> QED BY <3>1, <3>2
  <2> QED BY <2>1 DEF Managed
<1>6. Alike(ram, ram', r) BY <1>4, Zenon DEF Alike
<1> QED BY <1>2, <1>5, <1>6

\* A page with "U" is one that the process has.
LEMMA UserLeaf ==
  ASSUME NEW r, Tree(ram, r), NEW n, Maps(ram, r, n), NEW k \in Addresses, IsUser(r, k)
  PROVE  Pte(r, k).pa \in LeavesOf(ram, r) /\ Pte(r, k).pa \in Frames
<1>1. "U" \in Ent(ram, r, k).perm BY PteIs DEF IsUser
<1>2. Ent(ram, r, k).pa # NoFrame BY <1>1, TreeFacts DEF IsPte
<1>3. k \notin Top BY <1>1 DEF Maps
<1> QED BY <1>2, <1>3, PteIs DEF LeavesOf, Tree

\* copyout() writes pages of the user only.
LEMMA CopyoutWrites ==
  ASSUME NEW r, Tree(ram, r), NEW n, Maps(ram, r, n), NEW K \in SUBSET Addresses, NEW v, v # "kernel",
         ram = [f \in Frames |-> ram[f]], ram' = Copyout(r, K, v)
  PROVE  Wrote(r)
<1> DEFINE F == FramesAt(r, Reached(r, K))
<1>1. F \subseteq LeavesOf(ram, r)
  <2>1. ASSUME NEW k \in Reached(r, K) PROVE Pte(r, k).pa \in LeavesOf(ram, r)
    <3>1. k \in Addresses /\ k <= k /\ k \in K BY <2>1, Constants DEF Reached
    <3>2. IsUser(r, k) BY <2>1, <3>1 DEF Reached
    <3> QED BY <3>1, <3>2, UserLeaf
  <2> QED BY <2>1 DEF FramesAt
<1>2. ram' = [f \in Frames |-> IF f \in F THEN Data(v) ELSE ram[f]] BY DEF Copyout
<1>3. Data(v) # Data("kernel") BY Kinds
<1> HIDE DEF F
<1> QED BY <1>1, <1>2, <1>3 DEF Wrote

\* A process's own pages are written, by itself or for it.
LEMMA WriteKeeps ==
  ASSUME Good, NEW p \in Procs, state[p] = "runnable", pc[p] = "user", Wrote(pagetable[p]),
         UNCHANGED <<free, panic, procs>>,
         NEW s \in Pc, pc' = [pc EXCEPT ![p] = s], NEW l, loc' = [loc EXCEPT ![p] = l], IsLoc(l),
         l.root = NoFrame, l.argv = {}, s \in {"user", "reap"}, s = "user" => l = NoCall,
         s = "reap" => l.np \in Procs /\ state[l.np] = "zombie" /\ parent[l.np] = p
  PROVE  Good' /\ Footprint({p}, <<"free", 0>>)
<1>1. Typed /\ Process(p) /\ panic = FALSE BY DEF Good, Typed
<1>2. /\ loc[p] = NoCall /\ NewRoot(p) = NoFrame /\ Idle(p) /\ Maps(ram, pagetable[p], PagesOf(sz[p]))
      /\ pagetable[p] \in Frames /\ pagetable[p] # NoFrame /\ Tree(ram, pagetable[p])
  BY User, Runs
<1>3. /\ state' = state /\ parent' = parent /\ trapframe' = trapframe
      /\ sz' = [sz EXCEPT ![p] = sz[p]] /\ pagetable' = [pagetable EXCEPT ![p] = pagetable[p]]
      /\ sz' = sz /\ pagetable' = pagetable /\ sz[p] \in Nat /\ free' = free /\ panic' = FALSE
  BY <1>1, ProcsSame
<1>4. pc'[p] = s /\ loc'[p] = l /\ \A q \in Procs \ {p} : pc'[q] = pc[q] /\ loc'[q] = loc[q]
  BY <1>1 DEF Typed
<1> DEFINE o == <<"space", p>>
           S == {o}
           C == LeavesOf(ram, pagetable[p])
<1>5. Holding[o] = SpaceOf(ram, pagetable[p]) /\ o \in Owners BY HoldingIs, OwnersAre
<1>6. SpaceOf(ram, pagetable[p]) \subseteq Managed(ram) /\ free \subseteq Frames BY <1>5, Parts
<1>7. Alike(ram, ram', pagetable[p]) /\ Managed(ram') = Managed(ram)
      /\ LeavesOf(ram, pagetable[p]) \subseteq SpaceOf(ram, pagetable[p])
  BY <1>2, <1>6, WroteIs
<1>8. Stays(S, C) BY <1>5, <1>7 DEF Stays, Wrote
<1>9. Holding'[o] = Holding[o]
  <2>1. Holding'[o] = SpaceOf(ram', pagetable'[p]) BY HoldingNext
  <2>2. SpaceOf(ram', pagetable[p]) = SpaceOf(ram, pagetable[p]) BY <1>7 DEF Alike
  <2> QED BY <1>3, <1>5, <2>1, <2>2
<1>10. \A q \in Procs : NewRoot(q)' = NewRoot(q) /\ loc'[q].argv = loc[q].argv
  <2>1. NewRoot(p)' = NewRoot(p) /\ loc'[p].argv = loc[p].argv
    BY <1>2, <1>3, <1>4, NoCallIs DEF NewRoot
  <2>2. ASSUME NEW q \in Procs \ {p} PROVE NewRoot(q)' = NewRoot(q) /\ loc'[q].argv = loc[q].argv
    BY <1>3, <1>4 DEF NewRoot
  <2> QED BY <2>1, <2>2
<1>11. Partition(Holding, Managed(ram))'
  <2>1. \A q \in Procs : /\ <<"space", q>> \notin S => pagetable'[q] = pagetable[q]
                         /\ <<"image", q>> \notin S => NewRoot(q)' = NewRoot(q)
                         /\ <<"trapframe", q>> \notin S => trapframe'[q] = trapframe[q]
                         /\ <<"args", q>> \notin S => loc'[q].argv = loc[q].argv
    BY <1>3, <1>10
  <2>2. \A a, b \in S : a # b => Holding'[a] \cap Holding'[b] = {} OBVIOUS
  <2>3. \A f : (\E a \in S : f \in Holding'[a]) <=> (\E a \in S : f \in Holding[a]) BY <1>9
  <2> HIDE DEF S, C
  <2> QED BY <1>3, <1>7, <1>8, <2>1, <2>2, <2>3, PartitionStep
<1>12. Tree(ram', pagetable[p]) /\ \A n : Maps(ram, pagetable[p], n) => Maps(ram', pagetable[p], n)
  BY <1>7, Zenon DEF Alike
<1>13. Process(p)'
  <2>1. Idle(p)' BY <1>4 DEF Idle
  <2> QED BY <1>1, <1>2, <1>3, <1>4, <1>12, <2>1 DEF Process
<1>14. Caller(p)'
  <2>1. s = "reap" => InWait(p)' BY <1>3, <1>4 DEF InWait
  <2> QED BY <1>4, <2>1 DEF Caller, Idle
<1>15. \A q \in Procs \ {p} : <<"space", q>> \notin S /\ <<"image", q>> \notin S OBVIOUS
<1>16. ram' = [f \in Frames |-> ram'[f]] /\ free' \subseteq Frames BY <1>3, <1>6 DEF Wrote
<1>17. <<"free", 0>> \notin S OBVIOUS
<1> HIDE DEF S, C, o
<1>18. Good' /\ OthersRest({p}, S) BY <1>2, <1>3, <1>8, <1>11, <1>13, <1>14, <1>15, <1>16, Alone
<1> QED BY <1>8, <1>17, <1>18 DEF Footprint

\* A process stores into its memory.
LEMMA StoreKeeps ==
  ASSUME Good, NEW p \in Procs, NEW k \in PageNumbers, NEW v \in Values, Store(p, k, v)
  PROVE  Good'
<1>1. state[p] = "runnable" /\ pc[p] = "user" /\ Typed BY DEF Store, Calls, Good
<1>2. Tree(ram, pagetable[p]) /\ Maps(ram, pagetable[p], PagesOf(sz[p])) /\ loc[p] = NoCall
  BY <1>1, User, Runs
<1>3. k \in Addresses /\ v # "kernel" BY PageIn, Constants, MemAssumption DEF PageNumbers
<1>4. Pte(pagetable[p], k).pa \in LeavesOf(ram, pagetable[p])
  BY <1>2, <1>3, UserLeaf DEF Store, IsUser
<1>5. ram' = [ram EXCEPT ![Pte(pagetable[p], k).pa] = Data(v)] /\ UNCHANGED <<free, panic, procs, pc, loc>>
  BY DEF Store
<1>6. Wrote(pagetable[p]) BY <1>1, <1>3, <1>4, <1>5, Kinds DEF Wrote, Typed
<1>7. pc' = [pc EXCEPT ![p] = "user"] /\ loc' = [loc EXCEPT ![p] = NoCall] /\ "user" \in Pc
  BY <1>1, <1>2, <1>5 DEF Typed, Pc
<1> QED BY <1>1, <1>5, <1>6, <1>7, NoCallIs, WriteKeeps

\* A system call fills a buffer.
LEMMA ReadKeeps ==
  ASSUME Good, NEW p \in Procs, NEW k \in PageNumbers, NEW v \in Values, Read(p, k, k + 1, v)
  PROVE  Good'
<1>1. state[p] = "runnable" /\ pc[p] = "user" /\ Typed BY DEF Read, Calls, Good
<1>2. Tree(ram, pagetable[p]) /\ Maps(ram, pagetable[p], PagesOf(sz[p])) /\ loc[p] = NoCall
  BY <1>1, User, Runs
<1> DEFINE K == k .. k + 1
<1>3. K \in SUBSET Addresses /\ v # "kernel"
  <2>1. TRAMPOLINE \in Nat /\ TRAPFRAME = TRAMPOLINE - 1 BY PxTop, Constants DEF TRAPFRAME
  <2>2. k \in Nat /\ k + 1 <= TRAMPOLINE BY <2>1, PagesAssumption DEF PageNumbers
  <2> QED BY <2>1, <2>2, MemAssumption DEF Addresses
<1>4. ram' = Copyout(pagetable[p], K, v) /\ UNCHANGED <<free, panic, procs, pc, loc>>
  BY DEF Read
<1> HIDE DEF K
<1>5. Wrote(pagetable[p]) BY <1>1, <1>2, <1>3, <1>4, CopyoutWrites DEF Typed
<1>6. pc' = [pc EXCEPT ![p] = "user"] /\ loc' = [loc EXCEPT ![p] = NoCall] /\ "user" \in Pc
  BY <1>1, <1>2, <1>4 DEF Typed, Pc
<1> QED BY <1>1, <1>4, <1>5, <1>6, NoCallIs, WriteKeeps

\* wait() finds a zombie and copies its status out.
LEMMA WaitKeeps ==
  ASSUME Good, NEW p \in Procs, NEW c \in Procs, NEW k \in PageNumbers, Wait(p, c, k)
  PROVE  Good'
<1> DEFINE l == [NoCall EXCEPT !.np = c]
<1>1. /\ state[p] = "runnable" /\ pc[p] = "user" /\ Typed /\ state[c] = "zombie" /\ parent[c] = p
      /\ UNCHANGED <<free, panic, procs>>
  BY DEF Wait, Calls, Good
<1>2. Tree(ram, pagetable[p]) /\ Maps(ram, pagetable[p], PagesOf(sz[p])) /\ loc[p] = NoCall
  BY <1>1, User, Runs
<1>3. k \in Addresses BY PageIn, Constants DEF PageNumbers
<1>4. IsLoc(l) /\ l.np = c /\ l.root = NoFrame /\ l.argv = {}
  <2>1. DOMAIN NoCall = {"np", "root", "at", "old", "new", "perm", "then", "segs", "size", "argv"}
    BY DEF NoCall
  <2>2. DOMAIN l = DOMAIN NoCall /\ l.segs = NoCall.segs /\ l.root = NoCall.root
        /\ l.np = c /\ l.at = NoCall.at /\ l.old = NoCall.old
        /\ l.new = NoCall.new /\ l.size = NoCall.size /\ l.argv = NoCall.argv
    BY <2>1
  <2>3. c \in Int BY MemAssumption DEF Procs
  <2> HIDE DEF l
  <2> QED BY <2>1, <2>2, <2>3, NoCallIs DEF IsLoc
<1>5. [loc EXCEPT ![p].np = c] = [loc EXCEPT ![p] = l] BY <1>2
<1> HIDE DEF l
<1>6. "user" \in Pc /\ "reap" \in Pc /\ pc = [pc EXCEPT ![p] = "user"] /\ loc = [loc EXCEPT ![p] = NoCall]
  BY <1>1, <1>2 DEF Typed, Pc
<1>7. ASSUME ram' = ram PROVE Wrote(pagetable[p]) BY <1>1, <1>7 DEF Wrote, Typed
<1>8. CASE UNCHANGED <<ram, pc, loc>> BY <1>1, <1>6, <1>7, <1>8, NoCallIs, WriteKeeps
<1>9. CASE UNCHANGED ram /\ Goto(p, "reap") /\ loc' = [loc EXCEPT ![p].np = c]
  <2>1. Wrote(pagetable[p]) BY <1>7, <1>9
  <2>2. pc' = [pc EXCEPT ![p] = "reap"] /\ loc' = [loc EXCEPT ![p] = l] BY <1>5, <1>9 DEF Goto
  <2> QED BY <1>1, <1>4, <1>6, <2>1, <2>2, WriteKeeps
<1>10. CASE ram' = Copyout(pagetable[p], {k}, "status") /\ Goto(p, "reap") /\ loc' = [loc EXCEPT ![p].np = c]
  <2>1. Wrote(pagetable[p])
    <3> DEFINE K == {k}
               v == "status"
    <3>1. K \in SUBSET Addresses /\ v # "kernel" /\ ram' = Copyout(pagetable[p], K, v)
      BY <1>3, <1>10
    <3> HIDE DEF K, v
    <3> QED BY <1>1, <1>2, <3>1, CopyoutWrites DEF Typed
  <2>2. pc' = [pc EXCEPT ![p] = "reap"] /\ loc' = [loc EXCEPT ![p] = l]
    BY <1>5, <1>10, SMTT(30) DEF Goto
  <2> QED BY <1>1, <1>4, <1>6, <2>1, <2>2, WriteKeeps
<1> QED BY <1>8, <1>9, <1>10 DEF Wait

\* loadseg() has read a segment.
LEMMA Loaded ==
  ASSUME Good, NEW p \in Procs, pc[p] = "load", loc[p].new # 0,
         NEW K,
           K = {Head(loc[p].segs).vaddr \div PGSIZE + k : k \in 0 .. PagesOf(Head(loc[p].segs).filesz) - 1},
         ram' = Copyout(loc[p].root, K, "text"), panic' = (\E k \in K : ~ IsUser(loc[p].root, k)),
         loc' = [loc EXCEPT ![p].size = loc[p].new, ![p].segs = Tail(@)], Goto(p, "segment"),
         UNCHANGED free, UNCHANGED procs
  PROVE  /\ Good' /\ Footprint({p}, <<"space", p>>)
         /\ K \in SUBSET Addresses /\ \A k \in K : IsUser(loc[p].root, k)
<1> DEFINE m == loc[p]
           root == m.root
           s == Head(m.segs)
           l == [m EXCEPT !.size = m.new, !.segs = Tail(m.segs)]
<1>1. /\ state[p] = "runnable" /\ InExec(p) /\ IsLoc(m) /\ NewRoot(p) = root
      /\ Idle(p) /\ Maps(ram, pagetable[p], PagesOf(sz[p])) /\ Process(p) /\ root # pagetable[p]
  BY Execs
<1>2. Typed BY DEF Good
<1>3. /\ root # NoFrame /\ Tree(ram, root) /\ m.segs # <<>>
      /\ s.vaddr + s.memsz <= m.new /\ PagesOf(m.new) + 2 <= PageLimit
      /\ Maps(ram, root, PagesOf(m.new)) /\ UserPages(ram, root, PagesOf(m.new))
  BY <1>1 DEF InExec
<1>4. /\ m.new \in Nat /\ PagesOf(m.new) \in Nat /\ IsSegs(m.segs)
      /\ DOMAIN m = {"np", "root", "at", "old", "new", "perm", "then", "segs", "size", "argv"}
  BY <1>1, PagesAre DEF IsLoc
<1>5. /\ {s.vaddr, s.memsz, s.filesz} \subseteq Nat /\ s.filesz <= s.memsz /\ s.vaddr % PGSIZE = 0
      /\ IsSegs(Tail(m.segs))
  BY <1>3, <1>4, SegsAre
<1>6. IsLoc(l) /\ l.root = root /\ l.size = m.new /\ l.segs = Tail(m.segs) /\ l.argv = m.argv
  <2>1. DOMAIN l = DOMAIN m /\ l.segs = Tail(m.segs) /\ l.root = m.root
        /\ l.np = m.np /\ l.at = m.at /\ l.old = m.old
        /\ l.new = m.new /\ l.size = m.new /\ l.argv = m.argv
    BY <1>4
  <2> HIDE DEF l
  <2> QED BY <1>1, <1>4, <1>5, <2>1 DEF IsLoc
<1>7. loc' = [loc EXCEPT ![p] = l] /\ pc' = [pc EXCEPT ![p] = "segment"] /\ "segment" \in Pc
  BY <1>2 DEF Goto, Pc, Typed
<1> HIDE DEF l
<1>8. loc'[p] = l /\ pc'[p] = "segment" /\ \A q \in Procs \ {p} : pc'[q] = pc[q] /\ loc'[q] = loc[q]
  BY <1>2, <1>7 DEF Typed
<1>9. \A k \in K : k \in 0 .. PagesOf(m.new) - 1
  <2> DEFINE a == s.vaddr \div PGSIZE
  <2> HIDE DEF s
  <2>1. a \in Nat /\ s.vaddr = a * PGSIZE BY <1>5, Aligned
  <2>2. ASSUME NEW k \in 0 .. PagesOf(s.filesz) - 1 PROVE a + k \in 0 .. PagesOf(m.new) - 1
    <3>1. k \in Nat /\ PagesOf(s.filesz) \in Nat BY <1>5, PagesAre
    <3>2. k * PGSIZE < s.filesz BY <1>5, <3>1, PagesCover
    <3>3. (a + k) * PGSIZE = s.vaddr + k * PGSIZE BY <2>1, <3>1, Constants
    <3>4. k * PGSIZE \in Nat BY <3>1, Constants
    <3>5. (a + k) * PGSIZE < m.new
      <4> DEFINE y == k * PGSIZE
                 z == (a + k) * PGSIZE
      <4> HIDE DEF y, z
      <4>1. z = s.vaddr + y /\ y \in Nat /\ y < s.filesz BY <3>2, <3>3, <3>4 DEF y, z
      <4>2. s.vaddr + s.memsz <= m.new BY <1>3 DEF s
      <4>3. z < m.new BY <1>4, <1>5, <4>1, <4>2
      <4> QED BY <4>3 DEF z
    <3>6. a + k \in Nat BY <2>1, <3>1
    <3>7. a + k < PagesOf(m.new) BY <1>4, <3>5, <3>6, PagesCover
    <3> QED BY <1>4, <3>6, <3>7
  <2> QED BY <2>2, SMTT(30) DEF s
<1> HIDE DEF s
<1>10. K \in SUBSET Addresses /\ \A k \in K : IsUser(root, k)
  <2>1. ASSUME NEW k \in K PROVE k \in Addresses /\ IsUser(root, k)
    <3>1. k \in 0 .. PagesOf(m.new) - 1 BY <1>9
    <3>2. k \in Nat /\ k < PageLimit BY <1>3, <1>4, <3>1, Constants
    <3>3. "U" \in Ent(ram, root, k).perm BY <1>3, <3>1 DEF UserPages
    <3> QED BY <3>2, <3>3, PageIn, PteIs DEF IsUser
  <2> QED BY <2>1
<1>11. panic' = FALSE BY <1>10, SMTT(30)
<1>12. Wrote(root)
  <2> DEFINE v == "text"
  <2>1. v # "kernel" /\ ram' = Copyout(root, K, v) OBVIOUS
  <2> HIDE DEF v
  <2> QED BY <1>2, <1>3, <1>10, <2>1, CopyoutWrites DEF Typed
<1> DEFINE o == <<"image", p>>
           S == {o}
           C == LeavesOf(ram, root)
<1>13. Holding[o] = SpaceOf(ram, root) /\ o \in Owners BY <1>1, HoldingIs, OwnersAre
<1>14. SpaceOf(ram, root) \subseteq Managed(ram) /\ free \subseteq Frames BY <1>13, Parts
<1>15. Alike(ram, ram', root) /\ Managed(ram') = Managed(ram)
         /\ LeavesOf(ram, root) \subseteq SpaceOf(ram, root)
  BY <1>3, <1>12, <1>14, WroteIs
<1>16. Stays(S, C) BY <1>12, <1>13, <1>15, Zenon DEF Stays, Wrote
<1>17. /\ state' = state /\ parent' = parent /\ trapframe' = trapframe
       /\ sz' = [sz EXCEPT ![p] = sz[p]] /\ pagetable' = [pagetable EXCEPT ![p] = pagetable[p]]
       /\ sz' = sz /\ pagetable' = pagetable /\ sz[p] \in Nat /\ pagetable[p] \in Frames /\ free' = free
  BY <1>1, ProcsSame
<1>18. NewRoot(p)' = root BY <1>1, <1>6, <1>8, <1>17 DEF NewRoot
<1>19. Holding'[o] = Holding[o]
  <2>1. Holding'[o] = SpaceOf(ram', NewRoot(p)') BY HoldingNext, ZenonT(40)
  <2>2. SpaceOf(ram', root) = SpaceOf(ram, root) BY <1>15, Zenon DEF Alike
  <2> QED BY <1>13, <1>18, <2>1, <2>2, SMTT(30)
<1>20. Partition(Holding, Managed(ram))'
  <2>1. \A q \in Procs : /\ <<"space", q>> \notin S => pagetable'[q] = pagetable[q]
                         /\ <<"image", q>> \notin S => NewRoot(q)' = NewRoot(q)
                         /\ <<"trapframe", q>> \notin S => trapframe'[q] = trapframe[q]
                         /\ <<"args", q>> \notin S => loc'[q].argv = loc[q].argv
    <3>1. ASSUME NEW q \in Procs \ {p} PROVE NewRoot(q)' = NewRoot(q) /\ loc'[q].argv = loc[q].argv
      <4>1. loc'[q] = loc[q] /\ pagetable'[q] = pagetable[q] BY <1>8, <1>17
      <4> QED BY <4>1 DEF NewRoot
    <3>2. loc'[p].argv = loc[p].argv /\ NewRoot(p)' = NewRoot(p)
      BY <1>1, <1>6, <1>8, <1>18, SMTT(30)
    <3> QED BY <1>17, <3>1, <3>2
  <2>2. \A a, b \in S : a # b => Holding'[a] \cap Holding'[b] = {} OBVIOUS
  <2>3. \A f : (\E a \in S : f \in Holding'[a]) <=> (\E a \in S : f \in Holding[a])
    BY <1>19, SMTT(30)
  <2> HIDE DEF S, C
  <2> QED BY <1>15, <1>16, <1>17, <2>1, <2>2, <2>3, PartitionStep, ZenonT(40)
<1>21. Process(p)'
  <2>1. <<"space", p>> \notin S BY SMTT(30)
  <2>2. Alike(ram, ram', pagetable[p])
    <3>1. pagetable[p] # NoFrame BY <1>1 DEF Process
    <3> HIDE DEF S, C
    <3> QED BY <1>16, <1>17, <2>1, <3>1, KeptSpace
  <2>3. Tree(ram', pagetable[p]) /\ \A n : Maps(ram, pagetable[p], n) => Maps(ram', pagetable[p], n)
    BY <2>2, ZenonT(40) DEF Alike
  <2>4. Idle(p)' BY <1>8 DEF Idle
  <2> QED BY <1>1, <1>8, <1>17, <2>3, <2>4 DEF Process
<1>22. Caller(p)'
  <2>1. /\ Tree(ram', root) /\ \A n : Maps(ram, root, n) => Maps(ram', root, n)
        /\ \A n \in Nat : n <= PageLimit /\ UserPages(ram, root, n) => UserPages(ram', root, n)
    BY <1>15, ZenonT(40) DEF Alike
  <2>2. Maps(ram', root, PagesOf(m.new)) /\ UserPages(ram', root, PagesOf(m.new))
    <3> DEFINE n == PagesOf(m.new)
    <3>1. n \in Nat /\ n <= PageLimit /\ Maps(ram, root, n) /\ UserPages(ram, root, n)
      BY <1>3, <1>4, Constants, SMTT(30)
    <3> HIDE DEF n
    <3>2. Maps(ram', root, n) /\ UserPages(ram', root, n) BY <2>1, <3>1
    <3> QED BY <3>2 DEF n
  <2>3. InExec(p)' BY <1>1, <1>3, <1>6, <1>8, <1>17, <2>1, <2>2, ZenonT(40) DEF InExec
  <2> QED BY <1>8, <2>3 DEF Caller, Idle
<1>23. \A q \in Procs \ {p} : <<"space", q>> \notin S /\ <<"image", q>> \notin S OBVIOUS
<1>24. ram' = [f \in Frames |-> ram'[f]] /\ free' \subseteq Frames
  BY <1>12, <1>14, <1>17, Zenon DEF Wrote
<1>25. <<"space", p>> \notin S OBVIOUS
<1> HIDE DEF S, C, o
<1>26. Good' /\ OthersRest({p}, S)
  BY <1>1, <1>6, <1>7, <1>11, <1>16, <1>17, <1>20, <1>21, <1>22, <1>23, <1>24, Alone, ZenonT(40)
<1>27. Footprint({p}, <<"space", p>>) BY <1>16, <1>25, <1>26 DEF Footprint
<1> QED BY <1>10, <1>26, <1>27

\* A segment is loaded, or exec() fails.
LEMMA LoadKeeps ==
  ASSUME Good, NEW p \in Procs, Load(p)
  PROVE  Good'
<1>1. pc[p] = "load" /\ InExec(p) /\ IsLoc(loc[p]) /\ UNCHANGED procs
  <2>1. pc[p] = "load" BY DEF Load
  <2> QED BY <2>1, Execs DEF Load
<1>2. /\ loc[p].new \in Nat /\ loc[p].size \in Nat /\ PagesOf(loc[p].size) + 2 <= PageLimit
      /\ loc[p].new # 0 => PagesOf(loc[p].new) + 2 <= PageLimit
      /\ Maps(ram, loc[p].root, PagesOf(IF loc[p].new = 0 THEN loc[p].size ELSE loc[p].new))
  BY <1>1 DEF InExec, IsLoc
<1>3. PagesOf(loc[p].size) <= PageLimit /\ (loc[p].new # 0 => PagesOf(loc[p].new) <= PageLimit)
  BY <1>2, PagesAre, Constants
<1>4. CASE loc[p].new = 0 /\ Bad(p, loc[p].size) BY <1>1, <1>2, <1>3, <1>4, BadKeeps
<1>5. CASE loc[p].new # 0 /\ Bad(p, loc[p].new) BY <1>1, <1>2, <1>3, <1>5, BadKeeps, ZenonT(40)
<1>6. CASE /\ loc[p].new # 0
           /\ \E K \in {{Head(loc[p].segs).vaddr \div PGSIZE + k :
                           k \in 0 .. PagesOf(Head(loc[p].segs).filesz) - 1}} :
                /\ ram' = Copyout(loc[p].root, K, "text")
                /\ panic' = \E k \in K : ~ IsUser(loc[p].root, k)
           /\ loc' = [loc EXCEPT ![p].size = loc[p].new, ![p].segs = Tail(@)]
           /\ Goto(p, "segment")
           /\ UNCHANGED free
  <2>1. PICK K : /\ K = {Head(loc[p].segs).vaddr \div PGSIZE + k :
                           k \in 0 .. PagesOf(Head(loc[p].segs).filesz) - 1}
                 /\ ram' = Copyout(loc[p].root, K, "text")
                 /\ panic' = (\E k \in K : ~ IsUser(loc[p].root, k))
    BY <1>6
  <2> QED BY <1>1, <1>6, <2>1, Loaded
<1> QED BY <1>4, <1>5, <1>6 DEF Load

\* The next segment, the stack, or a program header that is refused.
LEMMA SegmentKeeps ==
  ASSUME Good, NEW p \in Procs, Segment(p)
  PROVE  Good'
<1>1. pc[p] = "segment" /\ InExec(p) /\ IsLoc(loc[p]) /\ UNCHANGED procs
  <2>1. pc[p] = "segment" BY DEF Segment
  <2> QED BY <2>1, Execs DEF Segment
<1>2. /\ loc[p].size \in Nat /\ PagesOf(loc[p].size) + 2 <= PageLimit
      /\ Maps(ram, loc[p].root, PagesOf(loc[p].size))
  BY <1>1 DEF InExec, IsLoc
<1>3. PagesOf(loc[p].size) <= PageLimit BY <1>2, PagesAre, Constants
<1>4. CASE Bad(p, loc[p].size) BY <1>1, <1>2, <1>3, <1>4, BadKeeps
<1>5. CASE loc[p].segs # <<>> /\ UNCHANGED memory
           /\ Uvmalloc(p, loc[p], loc[p].size, Head(loc[p].segs).vaddr + Head(loc[p].segs).memsz,
                    Head(loc[p].segs).perm, "load")
  BY <1>1, <1>5, SegmentLoads
<1>6. CASE UNCHANGED memory
           /\ Uvmalloc(p, [loc[p] EXCEPT !.size = PGROUNDUP(@)], PGROUNDUP(loc[p].size),
                    PGROUNDUP(loc[p].size) + 2 * PGSIZE, {"W"}, "stack")
  BY <1>1, <1>6, SegmentStacks
<1> QED BY <1>4, <1>5, <1>6 DEF Segment

\* exec() has no stack, or the arguments do not fit it.
LEMMA CommitFailsKeeps ==
  ASSUME Good, NEW p \in Procs, CommitFails(p)
  PROVE  Good'
<1>1. pc[p] = "stack" /\ InExec(p) /\ IsLoc(loc[p]) /\ UNCHANGED procs
  <2>1. pc[p] = "stack" BY DEF CommitFails
  <2> QED BY <2>1, Execs DEF CommitFails
<1> DEFINE n == IF loc[p].new = 0 THEN loc[p].size ELSE loc[p].new
<1>2. /\ loc[p].new \in Nat /\ loc[p].size \in Nat /\ PagesOf(loc[p].size) + 2 <= PageLimit
      /\ loc[p].size % PGSIZE = 0 /\ (loc[p].new # 0 => loc[p].new = loc[p].size + 2 * PGSIZE)
      /\ Maps(ram, loc[p].root, PagesOf(n))
  BY <1>1 DEF InExec, IsLoc
<1>3. n \in Nat /\ PagesOf(n) <= PageLimit
  <2>1. PagesOf(loc[p].size) <= PageLimit /\ PagesOf(loc[p].size) \in Nat
    BY <1>2, PagesAre, Constants
  <2>2. loc[p].new # 0 => PagesOf(loc[p].new) <= PageLimit BY <1>2, TwoMore
  <2> QED BY <1>2, <2>1, <2>2
<1>4. Bad(p, n) BY DEF CommitFails
<1> HIDE DEF n
<1> QED BY <1>1, <1>2, <1>3, <1>4, BadKeeps

-----
\* New page tables.
\* proc_pagetable() in three free frames.
LEMMA Makes ==
  ASSUME Good, NEW a \in free, NEW b \in free \ {a}, NEW c \in free \ {a, b}, NEW tf \in Frames,
         ram' = SpaceTables(ram, a, b, c, tf)
  PROVE  /\ Tree(ram', a) /\ SpaceOf(ram', a) = {a, b, c} /\ Maps(ram', a, 0)
         /\ ram' = [f \in Frames |-> ram'[f]]
         /\ \A x \in Frames \ {a, b, c} : ram'[x] = ram[x]
         /\ Managed(ram') = Managed(ram) /\ {a, b, c} \subseteq Frames
<1>1. free \subseteq Frames /\ free \subseteq Managed(ram) /\ ram = [f \in Frames |-> ram[f]]
  BY Parts DEF Typed
<1>2. a \in Frames /\ b \in Frames \ {a} /\ c \in Frames \ {a, b} BY <1>1
<1>3. /\ Tree(ram', a) /\ SpaceOf(ram', a) = {a, b, c} /\ TablesOf(ram', a) = {a, b, c} /\ Maps(ram', a, 0)
      /\ ram' = [f \in Frames |-> ram'[f]]
      /\ \A x \in Frames \ {a, b, c} : ram'[x] = ram[x]
  <2>1. OnFrames(ram) BY <1>1 DEF OnFrames
  <2>2. Space(ram, SpaceTables(ram, a, b, c, tf), a, b, c) BY <1>2, <2>1, NewSpace
  <2> QED BY <2>2 DEF OnFrames, Space
<1>4. Managed(ram') = Managed(ram)
  <2>1. \A x \in {a, b, c} : IsTable(ram'[x]) BY <1>3 DEF Tree
  <2>2. \A x \in {a, b, c} : ram'[x] # Data("kernel") /\ x \in Managed(ram) BY <1>1, <2>1, Kinds
  <2> QED BY <1>3, <2>2 DEF Managed
<1> QED BY <1>2, <1>3, <1>4

\* exec() makes the new page table.
LEMMA OpenMakes ==
  ASSUME Good, NEW p \in Procs, pc[p] = "open", FreeFrames(3), free' = free \ {Frame1, Frame2, Frame3},
         ram' = SpaceTables(ram, Frame1, Frame2, Frame3, trapframe[p]),
         loc' = [loc EXCEPT ![p].root = Frame1], Goto(p, "segment"), UNCHANGED <<panic, procs>>
  PROVE  Good' /\ Footprint({p}, <<"space", p>>)
<1>1. PICK a, b, c : a = Frame1 /\ b = Frame2 /\ c = Frame3 OBVIOUS
<1> DEFINE m == loc[p]
           l == [m EXCEPT !.root = a]
<1>2. /\ state[p] = "runnable" /\ InExec(p) /\ IsLoc(m) /\ NewRoot(p) = m.root
      /\ Idle(p) /\ Maps(ram, pagetable[p], PagesOf(sz[p])) /\ Process(p) /\ m.root # pagetable[p]
      /\ m.root = NoFrame /\ m.size = 0
  BY Execs DEF InExec
<1>3. Typed /\ panic = FALSE /\ free \subseteq Frames BY DEF Good, Typed
<1>4. a \in free /\ b \in free \ {a} /\ c \in free \ {a, b} /\ trapframe[p] \in Frames
  BY <1>1, <1>2, <1>3, Taken, Runs
<1>5. /\ Tree(ram', a) /\ SpaceOf(ram', a) = {a, b, c} /\ Maps(ram', a, 0)
      /\ ram' = [f \in Frames |-> ram'[f]]
      /\ \A x \in Frames \ {a, b, c} : ram'[x] = ram[x]
      /\ Managed(ram') = Managed(ram) /\ {a, b, c} \subseteq Frames
  BY <1>1, <1>4, Makes
<1>6. IsLoc(l) /\ l.root = a /\ l.size = 0 /\ l.argv = m.argv
  <2>1. DOMAIN m = {"np", "root", "at", "old", "new", "perm", "then", "segs", "size", "argv"}
    BY <1>2 DEF IsLoc
  <2>2. DOMAIN l = DOMAIN m /\ l.segs = m.segs /\ l.root = a
        /\ l.np = m.np /\ l.at = m.at /\ l.old = m.old
        /\ l.new = m.new /\ l.size = m.size /\ l.argv = m.argv
    BY <2>1
  <2> HIDE DEF l
  <2> QED BY <1>2, <1>5, <2>1, <2>2 DEF IsLoc
<1>7. loc' = [loc EXCEPT ![p] = l] /\ pc' = [pc EXCEPT ![p] = "segment"] /\ "segment" \in Pc
  BY <1>1 DEF Goto, Pc
<1> HIDE DEF l
<1>8. loc'[p] = l /\ pc'[p] = "segment" /\ \A q \in Procs \ {p} : pc'[q] = pc[q] /\ loc'[q] = loc[q]
  BY <1>3, <1>7 DEF Typed
<1>9. /\ state' = state /\ parent' = parent /\ trapframe' = trapframe
      /\ sz' = [sz EXCEPT ![p] = sz[p]] /\ pagetable' = [pagetable EXCEPT ![p] = pagetable[p]]
      /\ sz' = sz /\ pagetable' = pagetable /\ sz[p] \in Nat /\ pagetable[p] \in Frames
      /\ panic' = FALSE /\ free' = free \ {a, b, c}
  BY <1>1, <1>2, <1>3, ProcsSame
<1> DEFINE o == <<"image", p>>
           e == <<"free", 0>>
           S == {e, o}
           C == {a, b, c}
<1>10. /\ Holding[o] = {} /\ o \in Owners /\ Holding[e] = free /\ e \in Owners /\ e # o
       /\ Holding'[e] = free \ C
  <2>1. Holding[o] = SpaceOf(ram, NewRoot(p)) BY HoldingIs
  <2> QED BY <1>2, <1>9, <2>1, HoldingIs, HoldingNext, OwnersAre DEF SpaceOf
<1>11. a # pagetable[p]
  <2>1. pagetable[p] \in Holding[<<"space", p>>]
    <3>1. Tree(ram, pagetable[p]) /\ pagetable[p] # NoFrame BY <1>2, Runs
    <3>2. pagetable[p] \in SpaceOf(ram, pagetable[p]) BY <3>1, Constants DEF SpaceOf, TablesOf
    <3> QED BY <3>2, HoldingIs
  <2>2. <<"space", p>> \in Owners /\ <<"space", p>> # e BY OwnersAre
  <2>3. Holding[<<"space", p>>] \cap Holding[e] = {} BY <1>10, <2>2, Parts DEF Partition
  <2> QED BY <1>4, <1>10, <2>1, <2>3
<1>12. NewRoot(p)' = a BY <1>6, <1>8, <1>9, <1>11 DEF NewRoot
<1>13. Holding'[o] = C
  <2>1. Holding'[o] = SpaceOf(ram', NewRoot(p)') BY HoldingNext
  <2> QED BY <1>5, <1>12, <2>1
<1>14. Stays(S, C) BY <1>4, <1>5, <1>10 DEF Stays
<1>15. Partition(Holding, Managed(ram))'
  <2>1. \A q \in Procs : /\ <<"space", q>> \notin S => pagetable'[q] = pagetable[q]
                         /\ <<"image", q>> \notin S => NewRoot(q)' = NewRoot(q)
                         /\ <<"trapframe", q>> \notin S => trapframe'[q] = trapframe[q]
                         /\ <<"args", q>> \notin S => loc'[q].argv = loc[q].argv
    <3>1. ASSUME NEW q \in Procs \ {p} PROVE NewRoot(q)' = NewRoot(q) /\ loc'[q].argv = loc[q].argv
      <4>1. loc'[q] = loc[q] /\ pagetable'[q] = pagetable[q] BY <1>8, <1>9
      <4> QED BY <4>1 DEF NewRoot
    <3>2. loc'[p].argv = loc[p].argv BY <1>6, <1>8
    <3> QED BY <1>9, <3>1, <3>2
  <2>2. \A x, y \in S : x # y => Holding'[x] \cap Holding'[y] = {} BY <1>10, <1>13
  <2>3. \A f : (\E x \in S : f \in Holding'[x]) <=> (\E x \in S : f \in Holding[x])
    BY <1>4, <1>10, <1>13
  <2>4. <<"free", 0>> \in S OBVIOUS
  <2> HIDE DEF S, C
  <2> QED BY <1>5, <1>14, <2>1, <2>2, <2>3, <2>4, PartitionStep
<1>16. Process(p)'
  <2>1. <<"space", p>> \notin S OBVIOUS
  <2>2. Alike(ram, ram', pagetable[p])
    <3>1. pagetable[p] # NoFrame BY <1>2 DEF Process
    <3> HIDE DEF S, C
    <3> QED BY <1>9, <1>14, <2>1, <3>1, KeptSpace
  <2>3. Tree(ram', pagetable[p]) /\ \A n : Maps(ram, pagetable[p], n) => Maps(ram', pagetable[p], n)
    BY <2>2, Zenon DEF Alike
  <2>4. Idle(p)' BY <1>8 DEF Idle
  <2> QED BY <1>2, <1>8, <1>9, <2>3, <2>4 DEF Process
<1>17. Caller(p)'
  <2>1. PagesOf(0) = 0 /\ 0 + 2 <= PageLimit /\ a # NoFrame
    BY <1>5, ZeroPages, PagesAssumption, Constants
  <2>2. UserPages(ram', a, 0) BY DEF UserPages
  <2>3. InExec(p)' BY <1>5, <1>6, <1>8, <1>9, <1>11, <2>1, <2>2 DEF InExec
  <2> QED BY <1>8, <2>3 DEF Caller, Idle
<1>18. \A q \in Procs \ {p} : <<"space", q>> \notin S /\ <<"image", q>> \notin S OBVIOUS
<1>19. free' \subseteq Frames BY <1>3, <1>9
<1>20. <<"space", p>> \notin S OBVIOUS
<1> HIDE DEF S, C, o, e
<1>21. Good' /\ OthersRest({p}, S)
  BY <1>2, <1>5, <1>6, <1>7, <1>9, <1>14, <1>15, <1>16, <1>17, <1>18, <1>19, Alone
<1> QED BY <1>14, <1>20, <1>21 DEF Footprint

\* The file is opened, or exec() fails.
LEMMA OpenKeeps ==
  ASSUME Good, NEW p \in Procs, Open(p)
  PROVE  Good'
<1>1. pc[p] = "open" /\ InExec(p) /\ loc[p].root = NoFrame
  <2>1. pc[p] = "open" BY DEF Open
  <2> QED BY <2>1, Execs DEF InExec
<1>2. CASE Bad(p, 0)
  <2>1. 0 \in Nat /\ PagesOf(0) <= PageLimit /\ UNCHANGED procs BY ZeroPages, Constants DEF Open
  <2> QED BY <1>1, <1>2, <2>1, BadKeeps
<1>3. CASE /\ FreeFrames(3) /\ free' = free \ {Frame1, Frame2, Frame3}
           /\ ram' = SpaceTables(ram, Frame1, Frame2, Frame3, trapframe[p])
           /\ loc' = [loc EXCEPT ![p].root = Frame1]
           /\ Goto(p, "segment")
           /\ UNCHANGED panic
  BY <1>1, <1>3, OpenMakes DEF Open
<1> QED BY <1>2, <1>3 DEF Open

\* allocproc() in fork().
LEMMA ForkMakes ==
  ASSUME Good, NEW p \in Procs, state[p] = "runnable", pc[p] = "user", NEW x \in Procs, state[x] = "unused",
         FreeFrames(4), free' = free \ {Frame1, Frame2, Frame3, Frame4},
         ram' = SpaceTables(ram, Frame2, Frame3, Frame4, Frame1),
         state' = [state EXCEPT ![x] = "used"], pagetable' = [pagetable EXCEPT ![x] = Frame2],
         trapframe' = [trapframe EXCEPT ![x] = Frame1], Goto(p, "copy"),
         loc' = [loc EXCEPT ![p] = [NoCall EXCEPT !.np = x]], UNCHANGED <<panic, parent, sz>>
  PROVE  Good' /\ Footprint({p, x}, <<"space", p>>)
<1>1. PICK t, a, b, c : t = Frame1 /\ a = Frame2 /\ b = Frame3 /\ c = Frame4 OBVIOUS
<1> DEFINE l == [NoCall EXCEPT !.np = x]
<1>2. Typed /\ panic = FALSE /\ free \subseteq Frames /\ Process(p) /\ Process(x) /\ Forks
  BY DEF Good, Typed
<1>3. /\ loc[p] = NoCall /\ NewRoot(p) = NoFrame /\ Idle(p) /\ Maps(ram, pagetable[p], PagesOf(sz[p]))
      /\ pagetable[p] \in Frames /\ pagetable[p] # NoFrame /\ Tree(ram, pagetable[p])
      /\ PagesOf(sz[p]) \in Nat
  BY User, Runs
<1>4. /\ x # p /\ pagetable[x] = NoFrame /\ trapframe[x] = NoFrame /\ pc[x] = "user" /\ loc[x] = NoCall
      /\ sz[x] = 0
  BY <1>2 DEF Process
<1>5. a \in free /\ b \in free \ {a} /\ c \in free \ {a, b} /\ t \in free \ {a, b, c} /\ t \in Frames
  BY <1>1, <1>2, Taken
<1>6. /\ Tree(ram', a) /\ SpaceOf(ram', a) = {a, b, c} /\ Maps(ram', a, 0)
      /\ ram' = [f \in Frames |-> ram'[f]]
      /\ \A y \in Frames \ {a, b, c} : ram'[y] = ram[y]
      /\ Managed(ram') = Managed(ram) /\ {a, b, c} \subseteq Frames
  BY <1>1, <1>5, Makes
<1>7. IsLoc(l) /\ l.np = x /\ l.root = NoFrame /\ l.argv = {} /\ l.at = 0
  <2>1. DOMAIN NoCall = {"np", "root", "at", "old", "new", "perm", "then", "segs", "size", "argv"}
    BY DEF NoCall
  <2>2. DOMAIN l = DOMAIN NoCall /\ l.segs = NoCall.segs /\ l.root = NoCall.root
        /\ l.np = x /\ l.at = NoCall.at /\ l.old = NoCall.old
        /\ l.new = NoCall.new /\ l.size = NoCall.size /\ l.argv = NoCall.argv
    BY <2>1
  <2>3. x \in Int BY MemAssumption DEF Procs
  <2> HIDE DEF l
  <2> QED BY <2>1, <2>2, <2>3, NoCallIs DEF IsLoc
<1>8. /\ loc' = [loc EXCEPT ![p] = l] /\ pc' = [pc EXCEPT ![p] = "copy"] /\ panic' = FALSE
      /\ parent' = parent /\ sz' = sz /\ free' = free \ {a, b, c, t}
      /\ state' = [state EXCEPT ![x] = "used"] /\ pagetable' = [pagetable EXCEPT ![x] = a]
      /\ trapframe' = [trapframe EXCEPT ![x] = t]
  BY <1>1, <1>2 DEF Goto
<1> HIDE DEF l
<1>9. /\ loc'[p] = l /\ pc'[p] = "copy" /\ state'[p] = "runnable" /\ pagetable'[p] = pagetable[p]
      /\ trapframe'[p] = trapframe[p]
      /\ loc'[x] = NoCall /\ pc'[x] = "user" /\ state'[x] = "used" /\ pagetable'[x] = a /\ trapframe'[x] = t
  BY <1>2, <1>4, <1>8 DEF Typed
<1>10. \A q \in Procs \ {p, x} : /\ pc'[q] = pc[q] /\ loc'[q] = loc[q] /\ state'[q] = state[q]
                                 /\ pagetable'[q] = pagetable[q] /\ trapframe'[q] = trapframe[q]
  BY <1>2, <1>8 DEF Typed
<1>11. \A q \in Procs : NewRoot(q)' = NewRoot(q) /\ loc'[q].argv = loc[q].argv
  <2>1. NewRoot(p)' = NoFrame /\ loc'[p].argv = loc[p].argv
    BY <1>3, <1>7, <1>9, NoCallIs DEF NewRoot
  <2>2. NewRoot(x)' = NoFrame /\ NewRoot(x) = NoFrame /\ loc'[x].argv = loc[x].argv
    BY <1>4, <1>9, NoCallIs DEF NewRoot
  <2>3. ASSUME NEW q \in Procs \ {p, x} PROVE NewRoot(q)' = NewRoot(q) /\ loc'[q].argv = loc[q].argv
    <3>1. loc'[q] = loc[q] /\ pagetable'[q] = pagetable[q] BY <1>10
    <3> QED BY <3>1 DEF NewRoot
  <2> QED BY <1>3, <2>1, <2>2, <2>3
<1> DEFINE o == <<"space", x>>
           u == <<"trapframe", x>>
           e == <<"free", 0>>
           S == {e, o, u}
           C == {a, b, c}
           X == {p, x}
<1>12. /\ Holding[o] = {} /\ Holding[u] = {} /\ Holding[e] = free /\ S \subseteq Owners
  <2>1. Holding[o] = SpaceOf(ram, pagetable[x]) BY HoldingIs
  <2>2. Holding[u] = {trapframe[x]} \ {NoFrame} BY HoldingIs
  <2> QED BY <1>4, <2>1, <2>2, HoldingIs, OwnersAre DEF SpaceOf
<1>13. Holding'[e] = free \ {a, b, c, t} /\ Holding'[o] = {a, b, c} /\ Holding'[u] = {t}
  <2>1. Holding'[o] = SpaceOf(ram', pagetable'[x]) BY HoldingNext
  <2>2. Holding'[u] = {trapframe'[x]} \ {NoFrame} BY HoldingNext
  <2>3. Holding'[e] = free' BY HoldingNext
  <2> QED BY <1>5, <1>6, <1>8, <1>9, <2>1, <2>2, <2>3, Constants
<1>14. Stays(S, C) BY <1>5, <1>6, <1>12 DEF Stays
<1>15. Partition(Holding, Managed(ram))'
  <2>1. \A q \in Procs : /\ <<"space", q>> \notin S => pagetable'[q] = pagetable[q]
                         /\ <<"image", q>> \notin S => NewRoot(q)' = NewRoot(q)
                         /\ <<"trapframe", q>> \notin S => trapframe'[q] = trapframe[q]
                         /\ <<"args", q>> \notin S => loc'[q].argv = loc[q].argv
    BY <1>9, <1>10, <1>11
  <2>2. \A y, z \in S : y # z => Holding'[y] \cap Holding'[z] = {} BY <1>5, <1>13
  <2>3. \A f : (\E y \in S : f \in Holding'[y]) <=> (\E y \in S : f \in Holding[y])
    BY <1>5, <1>12, <1>13
  <2>4. <<"free", 0>> \in S OBVIOUS
  <2> HIDE DEF S, C
  <2> QED BY <1>6, <1>14, <2>1, <2>2, <2>3, <2>4, PartitionStep
<1>16. Typed'
  <2>1. \A q \in Procs : IsLoc(loc'[q]) BY <1>2, <1>7, <1>9, <1>10, NoCallIs DEF Typed
  <2>2. state' \in [Procs -> {"unused", "used", "runnable", "zombie"}] BY <1>2, <1>8 DEF Typed
  <2>3. pagetable' \in [Procs -> Frames \cup {NoFrame}] /\ trapframe' \in [Procs -> Frames \cup {NoFrame}]
    BY <1>2, <1>5, <1>6, <1>8 DEF Typed
  <2>4. pc' \in [Procs -> Pc] /\ loc' = [q \in Procs |-> loc'[q]] BY <1>2, <1>8 DEF Typed, Pc
  <2> QED BY <1>2, <1>6, <1>8, <2>1, <2>2, <2>3, <2>4 DEF Typed
<1>17. Forks'
  <2>1. ASSUME NEW q \in Procs \ {p}, pc'[q] = "copy"
        PROVE  pc[q] = "copy" /\ loc'[q] = loc[q] /\ loc'[q].np # x
    <3>1. pc[q] = "copy" /\ loc'[q] = loc[q] BY <1>4, <1>9, <1>10, <2>1
    <3> QED BY <3>1, PcApart
  <2> QED BY <1>2, <1>7, <1>9, <2>1 DEF Forks
<1>18. OthersRest(X, S)
  <2>1. ASSUME NEW q \in Procs \ {p, x}
        PROVE  /\ pc[q] = "copy" => loc[q].np \notin X
               /\ pc[q] = "reap" => loc[q].np \notin X /\ parent'[loc[q].np] = parent[loc[q].np]
    BY <1>8, PcApart
  <2>2. ASSUME NEW q \in Procs \ {p, x} PROVE <<"space", q>> \notin S /\ <<"image", q>> \notin S
    OBVIOUS
  <2> HIDE DEF S
  <2> QED BY <1>8, <1>10, <2>1, <2>2 DEF OthersRest
<1>19. Process(p)' /\ Caller(p)'
  <2>1. <<"space", p>> \notin S BY <1>4
  <2>2. Alike(ram, ram', pagetable[p])
    <3> HIDE DEF S, C
    <3> QED BY <1>3, <1>9, <1>14, <2>1, KeptSpace
  <2>3. Tree(ram', pagetable[p]) /\ \A n : Maps(ram, pagetable[p], n) => Maps(ram', pagetable[p], n)
    BY <2>2, Zenon DEF Alike
  <2>4. Idle(p)' BY <1>9 DEF Idle
  <2>5. Process(p)' BY <1>2, <1>3, <1>8, <1>9, <2>3, <2>4 DEF Process
  <2>6. InFork(p)'
    <3>1. /\ loc'[p].root = NoFrame /\ loc'[p].argv = {} /\ loc'[p].np = x /\ loc'[p].at = 0
      BY <1>7, <1>9
    <3>3. sz'[p] = sz[p] /\ 0 <= PagesOf(sz[p]) BY <1>3, <1>8
    <3>2. state'[loc'[p].np] = "used" /\ Maps(ram', pagetable'[loc'[p].np], loc'[p].at)
      BY <1>6, <1>9, <3>1
    <3> QED BY <3>1, <3>2, <3>3 DEF InFork
  <2> QED BY <1>9, <2>4, <2>5, <2>6 DEF Caller
<1>20. Process(x)' /\ Caller(x)'
  <2>1. PagesOf(0) <= PageLimit /\ a # NoFrame /\ t # NoFrame
    BY <1>5, <1>6, ZeroPages, Constants
  <2> QED BY <1>4, <1>6, <1>8, <1>9, <2>1 DEF Process, Caller, Idle
<1>21. \A q \in X : Process(q)' /\ Caller(q)' BY <1>19, <1>20
<1>22. <<"space", p>> \notin S BY <1>4
<1> HIDE DEF S, C, X, o, e, u
<1>23. Good' BY <1>8, <1>14, <1>15, <1>16, <1>17, <1>18, <1>21, Together
<1>24. X = {p, x} BY DEF X
<1> QED BY <1>14, <1>18, <1>22, <1>23, <1>24 DEF Footprint

\* fork() begins, or has no slot or no memory.
LEMMA ForkKeeps ==
  ASSUME Good, NEW p \in Procs, Fork(p)
  PROVE  Good'
<1>1. state[p] = "runnable" /\ pc[p] = "user" BY DEF Fork, Calls
<1>2. CASE UNCHANGED <<memory, procs, pc, loc>> BY <1>2, Same
<1>3. CASE Slots # {} /\ ~ UNCHANGED <<memory, procs, pc, loc>>
  <2>1. Min(Slots) \in Slots
    <3>1. Slots \in SUBSET Nat BY MemAssumption DEF Slots, Procs
    <3> QED BY <1>3, <3>1, MinIs
  <2>2. PICK x : x = Min(Slots) /\ x \in Procs /\ state[x] = "unused" BY <2>1 DEF Slots
  <2> QED BY <1>1, <1>3, <2>2, ForkMakes DEF Fork
<1> QED BY <1>2, <1>3 DEF Fork

=============================================================================
