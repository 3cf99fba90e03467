----------------------------- MODULE XvFsLemmas ------------------------------
(***************************************************************************)
(* What the proofs about the file system of xv6 need: its inductive        *)
(* invariant, lemmas on the parts of it, and the steps that write no       *)
(* inode.                                                                  *)
(*                                                                         *)
(* Good is the invariant.  Core holds whatever the calls do: types         *)
(* (Typed), where each call is and what it has there (Shape), who holds    *)
(* which sleep-lock (Locks), memory and disk hold the same inodes but for  *)
(* one that is being truncated or freed (Coherent), reference counts are   *)
(* exact (RefsOK, FilesOK), the entry that unlink() is to clear is there   *)
(* (UnlinkOK), and a block has one owner (BlocksOwned).  Sound holds until *)
(* a path leads through the ".." of a removed directory (strayed): links   *)
(* are counted (Counted), an inode that somebody has is not freed (Alive), *)
(* the directories form a tree, a path walks directories that have entries *)
(* (Reaching), and nobody else has the inode that create() makes           *)
(* (NewAlone).                                                             *)
(***************************************************************************)
EXTENDS XvFs, FiniteSetTheorems, SequenceTheorems, WellFoundedInduction, TLAPS

-----
\* Sequences, and blocks and their owners.
\* The inodes of a disk, or of the view that the calls have of it.
Inos(ino) == ino = [i \in Inums |-> ino[i]] /\ \A i \in Inums : IsInode(ino[i])

\* The entries of a directory with one more, and with one less.
Entered(ents, n, i) == [m \in DOMAIN ents \cup {n} |-> IF m = n THEN i ELSE ents[m]]
Left(ents, n) == [m \in DOMAIN ents \ {n} |-> ents[m]]

\* The members of a sequence, and of the empty one.
LEMMA RangeEmpty == Range(<<>>) = {}
BY DEF Range

\* Append() adds its argument to the members.
LEMMA RangeAppend ==
  ASSUME NEW S, NEW s \in Seq(S), NEW x
  PROVE  Range(Append(s, x)) = Range(s) \cup {x}
<1>1. DOMAIN s = 1 .. Len(s) /\ DOMAIN Append(s, x) = 1 .. Len(s) + 1 /\ Len(s) \in Nat OBVIOUS
<1>2. \A k \in 1 .. Len(s) : Append(s, x)[k] = s[k] OBVIOUS
<1>3. Append(s, x)[Len(s) + 1] = x OBVIOUS
<1> QED BY <1>1, <1>2, <1>3 DEF Range

\* A set of natural numbers has a least member.
LEMMA MinIs ==
  ASSUME NEW S \in SUBSET Nat, S # {}
  PROVE  Min(S) \in S /\ \A y \in S : Min(S) <= y
<1> DEFINE R == OpToRel(<, Nat)
<1>1. IsWellFoundedOn(R, Nat) BY NatLessThanWellFounded, Zenon
<1>2. \A x, y \in Nat : y < x => <<y, x>> \in R BY DEF OpToRel
<1> HIDE DEF R
<1>3. PICK x \in S : \A y \in S : ~ (<<y, x>> \in R) BY <1>1, WFMin, Zenon
<1>4. \A y \in S : ~ (y < x) BY <1>2, <1>3
<1>5. \A y \in S : x <= y BY <1>4
<1> QED BY <1>5 DEF Min

\* What leaves addrs[] alone leaves the owners of the blocks alone.
LEMMA BlocksStay ==
  ASSUME NEW a, NEW b, NEW used, BlocksOwned(a, used),
         \A i \in Inums : Range(b[i].addrs) = Range(a[i].addrs)
  PROVE  BlocksOwned(b, used)
BY DEF BlocksOwned

\* itrunc() gives all the blocks of inode j back to the bitmap.
LEMMA BlocksDrop ==
  ASSUME NEW a, NEW b, NEW used, BlocksOwned(a, used), NEW j \in Inums,
         Range(b[j].addrs) = {},
         \A i \in Inums \ {j} : Range(b[i].addrs) = Range(a[i].addrs)
  PROVE  BlocksOwned(b, used \ Range(a[j].addrs))
BY DEF BlocksOwned

\* An entry is a pair of an inode and a name in it.
LEMMA EntriesAre ==
  ASSUME NEW ino
  PROVE  /\ \A i, n : <<i, n>> \in Entries(ino) <=> i \in Inums /\ n \in DOMAIN ino[i].ents
         /\ \A e \in Entries(ino) :
              e = <<e[1], e[2]>> /\ e[1] \in Inums /\ e[2] \in DOMAIN ino[e[1]].ents
BY DEF Entries

\* The directories of a disk have finitely many entries together.
LEMMA EntriesFinite ==
  ASSUME NEW ino, Inos(ino)
  PROVE  IsFiniteSet(Entries(ino))
<1>1. \A i \in Inums : IsFiniteSet({i} \X DOMAIN ino[i].ents)
  BY FS_Singleton, FS_Product DEF Inos, IsInode
<1> DEFINE f == [i \in Inums |-> {i} \X DOMAIN ino[i].ents]
           T == {{i} \X DOMAIN ino[i].ents : i \in Inums}
<1>2. f \in Surjection(Inums, T) BY DEF Surjection
<1>3. IsFiniteSet(Inums) BY FS_Interval, SizesAssumption DEF Inums
<1>4. IsFiniteSet(T) BY <1>2, <1>3, FS_Surjection
<1> QED BY <1>1, <1>4, FS_UNION DEF Entries

\* So the links to an inode can be counted.
LEMMA LinksFinite ==
  ASSUME NEW ino, Inos(ino), NEW i
  PROVE  IsFiniteSet(LinksTo(ino, i)) /\ Cardinality(LinksTo(ino, i)) \in Nat
BY EntriesFinite, FS_Subset, FS_CardinalityType DEF LinksTo

\* The root directory is an inode.
LEMMA RootIs == ROOTINO \in Inums
BY SizesAssumption DEF ROOTINO, Inums

\* An entry leads to an inode.
LEMMA Targets ==
  ASSUME NEW ino, Inos(ino), NEW e \in Entries(ino)
  PROVE  Target(ino, e) \in Inums
<1>1. e[1] \in Inums /\ e[2] \in DOMAIN ino[e[1]].ents BY EntriesAre
<1>2. IsInode(ino[e[1]]) BY <1>1 DEF Inos
<1> QED BY <1>1, <1>2 DEF Target, IsInode, Range

\* Who is where, and where the links are, depends on types and entries only.
LEMMA TreeStays ==
  ASSUME NEW a, Inos(a), NEW b, \A i \in Inums : b[i].ents = a[i].ents /\ b[i].type = a[i].type
  PROVE  /\ Tree(a) => Tree(b)
         /\ Entries(b) = Entries(a)
         /\ \A i \in Inums : Named(b, i) <=> Named(a, i)
         /\ \A i \in Inums : LinksTo(b, i) = LinksTo(a, i)
<1>1. Entries(b) = Entries(a) BY DEF Entries
<1>2. \A e \in Entries(a) : Target(b, e) = Target(a, e) /\ e[1] \in Inums
  BY EntriesAre DEF Target
<1>3. \A i \in Inums : Named(b, i) <=> Named(a, i) BY <1>1, <1>2 DEF Named
<1>4. \A i \in Inums : LinksTo(b, i) = LinksTo(a, i) BY <1>1, <1>2, <1>3 DEF LinksTo
<1>5. ASSUME Tree(a) PROVE Tree(b)
  <2>1. \A i \in Inums : DirOK(b, i) BY <1>5 DEF DirOK, Tree
  <2>2. ASSUME NEW e \in Entries(b), e[2] \notin Dots PROVE NameOK(b, e)
    <3>1. NameOK(a, e) BY <1>1, <1>5, <2>2 DEF Tree
    <3> QED BY <1>1, <1>2, <3>1, Targets DEF NameOK
  <2> QED BY <1>5, <2>1, <2>2, RootIs DEF Tree
<1> QED BY <1>1, <1>3, <1>4, <1>5

-----
\* The tree of directories and the links in it.
\* The links of b and of a: no more, the same but to S, one more, one less.
NoMore(a, b) == \A j \in Inums : LinksTo(b, j) \subseteq LinksTo(a, j)
SameBut(a, b, S) == \A j \in Inums \ S : LinksTo(b, j) = LinksTo(a, j)
OneMore(a, b, i, e) == LinksTo(b, i) = LinksTo(a, i) \cup {e}
OneLess(a, b, i, e) == LinksTo(b, i) = LinksTo(a, i) \ {e}

\* An inode nobody links to is emptied, or gets its type: no name leads to it.
LEMMA Emptied ==
  ASSUME NEW a, NEW b, Inos(a), NEW i \in Inums, Tree(a), LinksTo(a, i) = {},
         b[i].ents = NoEntry, \A j \in Inums \ {i} : b[j] = a[j]
  PROVE  /\ Tree(b) /\ i # ROOTINO
         /\ NoMore(a, b)
<1>1. Entries(b) \subseteq Entries(a) /\ \A e \in Entries(b) : e[1] # i
  BY EntriesAre DEF NoEntry
<1>2. \A e \in Entries(b) : Target(b, e) = Target(a, e) /\ b[e[1]] = a[e[1]] /\ e[1] \in Inums
  BY <1>1, EntriesAre DEF Target
<1>3. \A j : Named(b, j) => Named(a, j) BY <1>1, <1>2 DEF Named
<1>4. \A j \in Inums : LinksTo(b, j) \subseteq LinksTo(a, j) BY <1>1, <1>2, <1>3 DEF LinksTo
<1>5. i # ROOTINO
  <2>1. <<ROOTINO, "..">> \in Entries(a) /\ Target(a, <<ROOTINO, "..">>) = ROOTINO
    BY EntriesAre, RootIs DEF Tree, DirOK, Dots, Target
  <2> QED BY <2>1 DEF LinksTo, Named
<1>6. \A j \in Inums : DirOK(b, j) BY DEF Tree, DirOK, NoEntry
<1>7. ASSUME NEW e \in Entries(b), e[2] \notin Dots PROVE NameOK(b, e)
  <2>1. NameOK(a, e) /\ e \in Entries(a) /\ Target(a, e) \in Inums
    BY <1>1, <1>7, Targets DEF Tree
  <2>2. Target(a, e) # i BY <2>1, <1>7 DEF LinksTo, Dots
  <2> QED BY <1>1, <1>2, <2>1, <2>2 DEF NameOK
<1> QED BY <1>4, <1>5, <1>6, <1>7, RootIs DEF Tree, NoMore, OneLess

\* dirlink() of ".", and of "..", in a directory nobody links to.
LEMMA Dotted ==
  ASSUME NEW a, NEW b, Inos(a), NEW i \in Inums, NEW d \in Inums, Tree(a), LinksTo(a, i) = {},
         a[i].ents = NoEntry, b[i].type = "dir", DOMAIN b[i].ents = Dots,
         b[i].ents["."] = i, b[i].ents[".."] = d,
         \A j \in Inums \ {i} : b[j].type = a[j].type /\ b[j].ents = a[j].ents
  PROVE  /\ Tree(b)
         /\ NoMore(a, b)
<1>1. Entries(b) = Entries(a) \cup {<<i, ".">>, <<i, "..">>} /\ \A e \in Entries(a) : e[1] # i
  BY EntriesAre DEF NoEntry, Dots
<1>2. \A e \in Entries(a) : Target(b, e) = Target(a, e) /\ e[1] \in Inums
  BY <1>1, EntriesAre DEF Target
<1>3. \A j : Named(b, j) <=> Named(a, j) BY <1>1, <1>2 DEF Named, Dots
<1>5. i # ROOTINO BY DEF Tree, NoEntry
<1>8. \A e \in Entries(a) : e[2] \notin Dots => Target(a, e) # i BY DEF LinksTo, Dots
<1>9. ~ Named(b, i) BY <1>3, <1>5, <1>8 DEF Named
<1>4. \A j \in Inums : LinksTo(b, j) \subseteq LinksTo(a, j)
  BY <1>1, <1>2, <1>3, <1>9 DEF LinksTo
<1>6. \A j \in Inums : DirOK(b, j) BY DEF Tree, DirOK, NoEntry
<1>7. ASSUME NEW e \in Entries(b), e[2] \notin Dots PROVE NameOK(b, e)
  <2>1. NameOK(a, e) /\ e \in Entries(a) /\ Target(a, e) \in Inums
    BY <1>1, <1>7, Targets DEF Tree, Dots
  <2> QED BY <1>1, <1>2, <2>1, <1>8, <1>7 DEF NameOK, Dots
<1> QED BY <1>4, <1>5, <1>6, <1>7, RootIs DEF Tree, NoMore, OneLess

\* b is a with the entry n of directory d, for i; without it.
NameMade(a, b, d, n, i) ==
  /\ a[d].type = "dir" /\ DOMAIN a[d].ents # {} /\ n \notin DOMAIN a[d].ents
  /\ b[d].type = a[d].type /\ b[d].ents = Entered(a[d].ents, n, i)
  /\ \A j \in Inums \ {d} : b[j].type = a[j].type /\ b[j].ents = a[j].ents
NameGone(a, b, d, n, i) ==
  /\ n \notin Dots /\ n \in DOMAIN a[d].ents /\ a[d].ents[n] = i
  /\ b[d].type = a[d].type /\ b[d].ents = Left(a[d].ents, n)
  /\ \A j \in Inums \ {d} : b[j].type = a[j].type /\ b[j].ents = a[j].ents

\* A name in a directory, for an inode that is not one.
LEMMA NamedFile ==
  ASSUME NEW a, NEW b, Inos(a), Tree(a), NEW d \in Inums, NEW n, NEW i \in Inums,
         NameMade(a, b, d, n, i), a[i].type # "dir"
  PROVE  /\ Tree(b)
         /\ SameBut(a, b, {i}) /\ OneMore(a, b, i, <<d, n>>)
         /\ <<d, n>> \notin Entries(a)
<1>0. /\ a[d].type = "dir" /\ DOMAIN a[d].ents # {} /\ n \notin DOMAIN a[d].ents
      /\ b[d].type = a[d].type
      /\ b[d].ents = [m \in DOMAIN a[d].ents \cup {n} |-> IF m = n THEN i ELSE a[d].ents[m]]
      /\ \A j \in Inums \ {d} : b[j].type = a[j].type /\ b[j].ents = a[j].ents
  BY DEF NameMade, Entered
<1> USE <1>0
<1>1. /\ Entries(b) = Entries(a) \cup {<<d, n>>} /\ <<d, n>> \notin Entries(a) BY EntriesAre, Z3
<1>2. /\ \A e \in Entries(a) : Target(b, e) = Target(a, e) /\ e[1] \in Inums
      /\ Target(b, <<d, n>>) = i
  <2>1. ASSUME NEW e \in Entries(a) PROVE Target(b, e) = Target(a, e) /\ e[1] \in Inums
    BY EntriesAre DEF Target
  <2> QED BY <2>1 DEF Target
<1>3. n \notin Dots BY DEF Tree, DirOK
<1>4. \A j : j # i => (Named(b, j) <=> Named(a, j)) BY <1>1, <1>2 DEF Named
<1>5. \A e \in Entries(a) : e[1] # i BY EntriesAre DEF Tree, DirOK
<1>6. \A j \in Inums \ {i} : LinksTo(b, j) = LinksTo(a, j)
  BY <1>1, <1>2, <1>3, <1>4, <1>5 DEF LinksTo, Dots
<1>7. LinksTo(b, i) = LinksTo(a, i) \cup {<<d, n>>}
  BY <1>1, <1>2, <1>3, <1>4, <1>5 DEF LinksTo, Dots
<1>8. i # ROOTINO BY DEF Tree
<1>9. \A j \in Inums : DirOK(b, j)
  <2>1. DirOK(b, d) BY <1>3 DEF Tree, DirOK, Dots
  <2>2. \A j \in Inums \ {d} : DirOK(b, j) BY DEF Tree, DirOK
  <2> QED BY <2>1, <2>2
<1>10. ASSUME NEW e \in Entries(a), e[2] \notin Dots PROVE NameOK(b, e)
  <2>1. NameOK(a, e) /\ Target(a, e) \in Inums BY <1>10, Targets DEF Tree
  <2> DEFINE t == Target(a, e)
  <2>2. CASE a[t].type # "dir" BY <1>2, <2>1, <2>2 DEF NameOK
  <2>3. CASE a[t].type = "dir"
    <3>1. t # i /\ DOMAIN a[t].ents # {} /\ a[t].ents[".."] = e[1] BY <2>1, <2>3 DEF NameOK
    <3>2. DOMAIN b[t].ents # {} /\ b[t].ents[".."] = e[1]
      <4>1. ".." \in DOMAIN a[t].ents BY <2>1, <2>3, <3>1 DEF Tree, DirOK, Dots
      <4> QED BY <2>1, <3>1, <4>1
    <3> QED BY <1>1, <1>2, <2>1, <2>3, <3>1, <3>2 DEF NameOK
  <2> QED BY <2>2, <2>3
<1>11. NameOK(b, <<d, n>>) BY <1>2, <1>8 DEF NameOK
<1>12. b[ROOTINO].type = "dir" /\ DOMAIN b[ROOTINO].ents # {} /\ b[ROOTINO].ents[".."] = ROOTINO
  BY <1>3, RootIs DEF Tree, DirOK, Dots
<1> QED BY <1>1, <1>6, <1>7, <1>9, <1>10, <1>11, <1>12 DEF Tree, SameBut, OneMore

\* A name for the directory made in d.
LEMMA NamedDir ==
  ASSUME NEW a, NEW b, Inos(a), Tree(a), NEW d \in Inums, NEW n, NEW i \in Inums, i # d,
         NameMade(a, b, d, n, i),
         a[i].type = "dir", DOMAIN a[i].ents = Dots, a[i].ents[".."] = d, LinksTo(a, i) = {}
  PROVE  /\ Tree(b)
         /\ SameBut(a, b, {i, d}) /\ OneMore(a, b, i, <<d, n>>) /\ OneMore(a, b, d, <<i, "..">>)
<1>0. /\ a[d].type = "dir" /\ DOMAIN a[d].ents # {} /\ n \notin DOMAIN a[d].ents
      /\ b[d].type = a[d].type
      /\ b[d].ents = [m \in DOMAIN a[d].ents \cup {n} |-> IF m = n THEN i ELSE a[d].ents[m]]
      /\ \A j \in Inums \ {d} : b[j].type = a[j].type /\ b[j].ents = a[j].ents
  BY DEF NameMade, Entered
<1> USE <1>0
<1>1. /\ Entries(b) = Entries(a) \cup {<<d, n>>} /\ <<d, n>> \notin Entries(a)
  <2>1. DOMAIN b[d].ents = DOMAIN a[d].ents \cup {n} /\ \A j \in Inums \ {d} : b[j].ents = a[j].ents
    OBVIOUS
  <2>2. Entries(b) = Entries(a) \cup {<<d, n>>} BY <2>1 DEF Entries
  <2> QED BY <2>2, EntriesAre
<1>2. /\ \A e \in Entries(a) : Target(b, e) = Target(a, e) /\ e[1] \in Inums
      /\ Target(b, <<d, n>>) = i
  <2>1. ASSUME NEW e \in Entries(a) PROVE Target(b, e) = Target(a, e) /\ e[1] \in Inums
    BY EntriesAre DEF Target
  <2> QED BY <2>1 DEF Target
<1>3. n \notin Dots BY DEF Tree, DirOK
<1>4. (\A j : j # i => (Named(b, j) <=> Named(a, j))) /\ Named(b, i)
  BY <1>1, <1>2, <1>3 DEF Named
<1>5. \A e \in Entries(a) : e[2] # "." => Target(a, e) # i \/ (e[2] = ".." /\ ~ Named(a, e[1]))
  BY DEF LinksTo
<1>13. \A e \in Entries(a) : e[1] = i => e = <<i, ".">> \/ e = <<i, "..">>
  BY EntriesAre DEF Dots
<1>14. <<i, "..">> \in Entries(a) /\ Target(a, <<i, "..">>) = d /\ <<i, ".">> \in Entries(a)
         /\ Target(a, <<i, ".">>) = i
  BY EntriesAre DEF Dots, Target, Tree, DirOK
<1>15. ~ Named(a, i)
  <2>1. i # ROOTINO
    <3>1. ASSUME i = ROOTINO PROVE <<i, "..">> \in LinksTo(a, i)
      BY <1>14, <3>1 DEF LinksTo, Named, Tree
    <3> QED BY <3>1
  <2> QED BY <1>5, <2>1 DEF Named, Dots
<1>6. \A j \in Inums \ {i, d} : LinksTo(b, j) = LinksTo(a, j)
  BY <1>1, <1>2, <1>3, <1>4, <1>14, <1>13, <1>15 DEF LinksTo, Dots
<1>7. LinksTo(b, i) = {<<d, n>>}
  <2>1. ASSUME NEW e \in LinksTo(b, i) PROVE e = <<d, n>>
    <3>1. e[1] = i => e = <<i, ".">> \/ e = <<i, "..">> BY <1>1, <1>13, <2>1 DEF LinksTo
    <3> QED BY <1>1, <1>2, <1>4, <1>5, <1>14, <2>1, <3>1 DEF LinksTo
  <2>2. <<d, n>> \in LinksTo(b, i) BY <1>1, <1>2, <1>3 DEF LinksTo, Dots
  <2> QED BY <2>1, <2>2
<1>16. LinksTo(b, d) = LinksTo(a, d) \cup {<<i, "..">>}
  BY <1>1, <1>2, <1>3, <1>4, <1>14, <1>13, <1>15 DEF LinksTo, Dots
<1>8. i # ROOTINO BY <1>15 DEF Named
<1>9. \A j \in Inums : DirOK(b, j)
  <2>1. DirOK(b, d) BY <1>3 DEF Tree, DirOK, Dots
  <2>2. \A j \in Inums \ {d} : DirOK(b, j) BY DEF Tree, DirOK
  <2> QED BY <2>1, <2>2
<1>10. ASSUME NEW e \in Entries(a), e[2] \notin Dots PROVE NameOK(b, e)
  <2>1. NameOK(a, e) /\ Target(a, e) \in Inums BY <1>10, Targets DEF Tree
  <2> DEFINE t == Target(a, e)
  <2>4. t # i BY <1>5, <1>10 DEF Dots
  <2>2. CASE a[t].type # "dir" BY <1>2, <2>1, <2>2 DEF NameOK
  <2>3. CASE a[t].type = "dir"
    <3>1. DOMAIN a[t].ents # {} /\ a[t].ents[".."] = e[1] BY <2>1, <2>3 DEF NameOK
    <3>2. DOMAIN b[t].ents # {} /\ b[t].ents[".."] = e[1]
      <4>1. ".." \in DOMAIN a[t].ents BY <2>1, <2>3, <3>1 DEF Tree, DirOK, Dots
      <4> QED BY <2>1, <3>1, <4>1
    <3> QED BY <1>1, <1>2, <2>1, <2>3, <2>4, <3>1, <3>2 DEF NameOK
  <2> QED BY <2>2, <2>3
<1>11. NameOK(b, <<d, n>>)
  <2>1. DOMAIN b[i].ents = Dots /\ b[i].ents[".."] = d OBVIOUS
  <2>2. \A o \in Entries(a) : o[2] \notin Dots => Target(a, o) # i BY <1>5 DEF Dots
  <2> QED BY <1>1, <1>2, <1>8, <2>1, <2>2 DEF NameOK, Dots
<1>12. b[ROOTINO].type = "dir" /\ DOMAIN b[ROOTINO].ents # {} /\ b[ROOTINO].ents[".."] = ROOTINO
  BY <1>3, RootIs DEF Tree, DirOK, Dots
<1> QED BY <1>1, <1>6, <1>7, <1>16, <1>9, <1>10, <1>11, <1>12 DEF Tree, SameBut, OneMore

\* A name is removed, of a file or of an empty directory.
LEMMA Unnamed ==
  ASSUME NEW a, NEW b, Inos(a), Tree(a), NEW d \in Inums, NEW n, NEW i \in Inums, i # d,
         NameGone(a, b, d, n, i)
  PROVE  /\ Tree(b) /\ <<d, n>> \in LinksTo(a, i)
         /\ NoMore(a, b)
         /\ OneLess(a, b, i, <<d, n>>)
         /\ a[i].type = "dir" => <<i, "..">> \in LinksTo(a, d) /\ <<i, "..">> \notin LinksTo(b, d)
<1>0. /\ n \notin Dots /\ n \in DOMAIN a[d].ents /\ a[d].ents[n] = i
      /\ b[d].type = a[d].type /\ b[d].ents = [m \in DOMAIN a[d].ents \ {n} |-> a[d].ents[m]]
      /\ \A j \in Inums \ {d} : b[j].type = a[j].type /\ b[j].ents = a[j].ents
  BY DEF NameGone, Left
<1> USE <1>0
<1>1. Entries(b) = Entries(a) \ {<<d, n>>} /\ <<d, n>> \in Entries(a) BY EntriesAre
<1>2. /\ \A e \in Entries(b) : Target(b, e) = Target(a, e) /\ e[1] \in Inums
      /\ Target(a, <<d, n>>) = i
  <2>1. ASSUME NEW e \in Entries(b) PROVE Target(b, e) = Target(a, e) /\ e[1] \in Inums
    BY EntriesAre DEF Target
  <2> QED BY <2>1 DEF Target
<1>3. (\A j : Named(b, j) => Named(a, j)) /\ (\A j : j # i => (Named(b, j) <=> Named(a, j)))
        /\ Named(a, i)
  BY <1>1, <1>2 DEF Named
<1>4. \A j \in Inums : LinksTo(b, j) \subseteq LinksTo(a, j) BY <1>1, <1>2, <1>3 DEF LinksTo
<1>5. NameOK(a, <<d, n>>) /\ i # ROOTINO
  <2>1. NameOK(a, <<d, n>>) BY <1>1 DEF Tree
  <2> QED BY <1>2, <2>1 DEF NameOK
<1>6. <<d, n>> \in LinksTo(a, i) BY <1>1, <1>2 DEF LinksTo, Dots
<1>7. LinksTo(b, i) = LinksTo(a, i) \ {<<d, n>>}
  <2>1. ASSUME NEW e \in LinksTo(a, i), e # <<d, n>> PROVE e \in LinksTo(b, i)
    <3>1. e \in Entries(b) /\ Target(b, e) = i /\ e[2] # "." /\ (e[2] = ".." => Named(a, e[1]))
      BY <1>1, <1>2, <2>1 DEF LinksTo
    <3>2. e[1] = i /\ e[2] = ".." => FALSE
      <4>1. SUFFICES ASSUME e[1] = i, e[2] = ".." PROVE FALSE OBVIOUS
      <4>2. a[i].ents[".."] = i /\ DOMAIN a[i].ents # {}
        BY <1>1, <1>2, <2>1, <3>1, <4>1, EntriesAre DEF Target
      <4>3. a[i].type = "dir" BY <4>2 DEF Tree, DirOK
      <4> QED BY <1>2, <1>5, <4>2, <4>3 DEF NameOK
    <3> QED BY <1>3, <3>1, <3>2 DEF LinksTo
  <2> QED BY <1>1, <1>4, <2>1 DEF LinksTo
<1>8. a[i].type = "dir" => <<i, "..">> \in LinksTo(a, d) /\ <<i, "..">> \notin LinksTo(b, d)
  <2>1. SUFFICES ASSUME a[i].type = "dir" PROVE <<i, "..">> \in LinksTo(a, d)
          /\ <<i, "..">> \notin LinksTo(b, d)
    OBVIOUS
  <2>2. DOMAIN a[i].ents # {} /\ a[i].ents[".."] = d /\ \A o \in Entries(a) : o[2] \notin Dots
          /\ Target(a, o) = i => o = <<d, n>>
    BY <1>2, <1>5, <2>1 DEF NameOK
  <2>3. <<i, "..">> \in Entries(a) /\ Target(a, <<i, "..">>) = d
    BY <2>1, <2>2, EntriesAre DEF Tree, DirOK, Dots, Target
  <2>4. ~ Named(b, i) BY <1>1, <1>2, <1>5, <2>2 DEF Named
  <2> QED BY <1>3, <2>3, <2>4 DEF LinksTo
<1>9. \A j \in Inums : DirOK(b, j)
  <2>1. DirOK(b, d) BY DEF Tree, DirOK, Dots
  <2>2. \A j \in Inums \ {d} : DirOK(b, j) BY DEF Tree, DirOK
  <2> QED BY <2>1, <2>2
<1>10. ASSUME NEW e \in Entries(b), e[2] \notin Dots PROVE NameOK(b, e)
  <2>1. NameOK(a, e) /\ Target(a, e) \in Inums /\ Target(b, e) = Target(a, e) /\ e \in Entries(a)
    BY <1>1, <1>2, <1>10, Targets DEF Tree
  <2> DEFINE t == Target(a, e)
  <2>2. CASE a[t].type # "dir" BY <1>2, <2>1, <2>2 DEF NameOK
  <2>3. CASE a[t].type = "dir"
    <3>1. DOMAIN a[t].ents # {} /\ a[t].ents[".."] = e[1] BY <2>1, <2>3 DEF NameOK
    <3>2. DOMAIN b[t].ents # {} /\ b[t].ents[".."] = e[1]
      <4>1. ".." \in DOMAIN a[t].ents BY <2>1, <2>3, <3>1 DEF Tree, DirOK, Dots
      <4> QED BY <2>1, <3>1, <4>1 DEF Dots
    <3> QED BY <1>1, <1>2, <2>1, <2>3, <3>1, <3>2 DEF NameOK
  <2> QED BY <2>2, <2>3
<1>12. b[ROOTINO].type = "dir" /\ DOMAIN b[ROOTINO].ents # {} /\ b[ROOTINO].ents[".."] = ROOTINO
  BY RootIs DEF Tree, DirOK, Dots
<1> QED BY <1>4, <1>6, <1>7, <1>8, <1>9, <1>10, <1>12 DEF Tree, NoMore, OneLess

-----
\* Inodes and what the calls do to them.
\* The contents of inodes as sets of functions and records.
Contents == {e \in UNION {[N -> Inums] : N \in SUBSET STRING} : IsFiniteSet(DOMAIN e)}
Inodes == [type : {"free", "file", "dir", "dev"}, nlink : Int, size : Nat,
           addrs : Seq(Blocks), ents : Contents]

\* The contents of a directory, member by member.
LEMMA ContentsAre ==
  ASSUME NEW e
  PROVE  e \in Contents <=> /\ e = [n \in DOMAIN e |-> e[n]] /\ Range(e) \subseteq Inums
                            /\ DOMAIN e \subseteq STRING /\ IsFiniteSet(DOMAIN e)
<1>1. ASSUME e \in Contents
      PROVE  /\ e = [n \in DOMAIN e |-> e[n]] /\ Range(e) \subseteq Inums
             /\ DOMAIN e \subseteq STRING /\ IsFiniteSet(DOMAIN e)
  <2>1. PICK N \in SUBSET STRING : e \in [N -> Inums] BY <1>1 DEF Contents
  <2>2. IsFiniteSet(DOMAIN e) BY <1>1 DEF Contents
  <2>3. DOMAIN e = N /\ \A n \in N : e[n] \in Inums BY <2>1
  <2>4. e = [n \in DOMAIN e |-> e[n]] BY <2>1
  <2> QED BY <2>2, <2>3, <2>4 DEF Range
<1>2. ASSUME e = [n \in DOMAIN e |-> e[n]], Range(e) \subseteq Inums,
             DOMAIN e \subseteq STRING, IsFiniteSet(DOMAIN e)
      PROVE  e \in Contents
  <2>1. e \in [DOMAIN e -> Inums] BY <1>2 DEF Range
  <2> QED BY <1>2, <2>1 DEF Contents
<1> QED BY <1>1, <1>2

\* IsInode() as a set: an unallocated inode is a fresh one.
LEMMA InodesAre ==
  ASSUME NEW x
  PROVE  IsInode(x) <=> x \in Inodes /\ (x.type = "free" => x = Fresh("free"))
<1>1. ASSUME IsInode(x) PROVE x \in Inodes BY <1>1, ContentsAre DEF IsInode, Inodes
<1>2. ASSUME x \in Inodes, x.type = "free" => x = Fresh("free") PROVE IsInode(x)
  <2>1. /\ x = [type |-> x.type, nlink |-> x.nlink, size |-> x.size, addrs |-> x.addrs,
             ents |-> x.ents]
        /\ x.type \in {"free", "file", "dir", "dev"} /\ x.nlink \in Int /\ x.size \in Nat
        /\ x.addrs \in Seq(Blocks) /\ x.ents \in Contents
    BY <1>2 DEF Inodes
  <2> QED BY <1>2, <2>1, ContentsAre DEF IsInode
<1> QED BY <1>1, <1>2 DEF IsInode

\* The contents of an empty file or of a directory that create() has not filled.
LEMMA NoEntryIs == NoEntry \in Contents /\ DOMAIN NoEntry = {}
<1>1. DOMAIN NoEntry = {} /\ Range(NoEntry) = {} /\ NoEntry = [n \in DOMAIN NoEntry |-> NoEntry[n]]
  BY DEF NoEntry, Range
<1> QED BY <1>1, FS_EmptySet, ContentsAre

\* ialloc() leaves an inode without links, blocks or entries.
LEMMA FreshIs ==
  ASSUME NEW t \in {"free", "file", "dir", "dev"}
  PROVE  /\ IsInode(Fresh(t)) /\ Fresh(t).type = t /\ Fresh(t).nlink = 0 /\ Fresh(t).size = 0
         /\ Fresh(t).addrs = <<>> /\ Fresh(t).ents = NoEntry
<1>1. Fresh(t) \in Inodes BY NoEntryIs DEF Fresh, Inodes
<1> QED BY <1>1, InodesAre DEF Fresh

\* An entry of the table that is not valid holds no inode.
LEMMA NotReadIs == \A x : IsInode(x) => x # NotRead
<1>1. NotRead.type = "not read" BY DEF NotRead
<1> QED BY <1>1 DEF IsInode

\* What the calls do to an inode leaves one.
LEMMA CountedIs ==
  ASSUME NEW x, IsInode(x), x.type # "free", NEW n \in Int
  PROVE  LET y == [x EXCEPT !.nlink = n] IN
         /\ IsInode(y) /\ y.type = x.type /\ y.nlink = n /\ y.addrs = x.addrs /\ y.ents = x.ents
         /\ y.size = x.size
<1>1. x \in Inodes BY InodesAre
<1>2. [x EXCEPT !.nlink = n] \in Inodes BY <1>1 DEF Inodes
<1> QED BY <1>1, <1>2, InodesAre DEF Inodes

\* itrunc() leaves type and links.
LEMMA TruncatedIs ==
  ASSUME NEW x, IsInode(x), x.type # "free"
  PROVE  LET y == Truncated(x) IN
         /\ IsInode(y) /\ y.type = x.type /\ y.nlink = x.nlink /\ y.addrs = <<>> /\ y.ents = NoEntry
<1>1. x \in Inodes BY InodesAre
<1>0. <<>> \in Seq(Blocks) /\ 0 \in Nat OBVIOUS
<1>2. Truncated(x) \in Inodes BY <1>0, <1>1, NoEntryIs DEF Inodes, Truncated
<1> QED BY <1>1, <1>2, InodesAre DEF Inodes, Truncated

\* sys_unlink() clears one entry and leaves the rest of the directory.
LEMMA UnlinkedIs ==
  ASSUME NEW x, IsInode(x), x.type # "free", NEW n
  PROVE  \E y : /\ y = Unlinked(x, n) /\ IsInode(y) /\ y.type # "free" /\ y.type = x.type
                /\ y.nlink = x.nlink /\ y.addrs = x.addrs /\ y.ents = Left(x.ents, n)
<1>1. x \in Inodes /\ x.ents \in Contents BY InodesAre DEF Inodes
<1> DEFINE e == [m \in DOMAIN x.ents \ {n} |-> x.ents[m]]
<1>2. e \in Contents
  <2>1. IsFiniteSet(DOMAIN x.ents) /\ DOMAIN x.ents \subseteq STRING
          /\ Range(x.ents) \subseteq Inums
    BY <1>1, ContentsAre
  <2>2. IsFiniteSet(DOMAIN x.ents \ {n}) BY <2>1, FS_RemoveElement
  <2>3. DOMAIN e = DOMAIN x.ents \ {n} /\ Range(e) \subseteq Inums /\ e = [m \in DOMAIN e |-> e[m]]
    BY <2>1 DEF Range
  <2> QED BY <2>1, <2>2, <2>3, ContentsAre
<1> HIDE DEF e
<1>3. Unlinked(x, n) = [x EXCEPT !.ents = e] BY DEF Unlinked, e
<1>4. [x EXCEPT !.ents = e] \in Inodes BY <1>1, <1>2 DEF Inodes
<1>5. [x EXCEPT !.ents = e].type = x.type /\ [x EXCEPT !.ents = e].nlink = x.nlink
        /\ [x EXCEPT !.ents = e].addrs = x.addrs /\ [x EXCEPT !.ents = e].ents = e
  BY <1>1 DEF Inodes
<1>6. e = Left(x.ents, n) BY DEF e, Left
<1> DEFINE y == [x EXCEPT !.ents = e]
<1> HIDE DEF y
<1>7. y = Unlinked(x, n) /\ y \in Inodes /\ y.type = x.type /\ y.nlink = x.nlink
        /\ y.addrs = x.addrs /\ y.ents = e
  BY <1>3, <1>4, <1>5 DEF y
<1>8. IsInode(y) /\ y.type # "free" BY <1>7, InodesAre
<1> QED BY <1>6, <1>7, <1>8

\* balloc() takes a block that the bitmap has free.
LEMMA FreeBlockIs ==
  ASSUME NEW used \in SUBSET Blocks, FreeBlocks(used) # {}
  PROVE  Min(FreeBlocks(used)) \in Blocks \ used
<1>1. FreeBlocks(used) \in SUBSET Nat BY SizesAssumption DEF FreeBlocks, Blocks
<1> QED BY <1>1, MinIs DEF FreeBlocks

\* The blocks of an inode and the bitmap: some more.
Takes(a, used, b, more) ==
  \E N \in SUBSET (Blocks \ used) : more = used \cup N /\ Range(b) = Range(a) \cup N

\* Nothing more is some more; so is some more after some more.
LEMMA TakesAre ==
  /\ \A a, used : Takes(a, used, a, used)
  /\ \A a, used, b, more, c, most :
       Takes(a, used, b, more) /\ Takes(b, more, c, most) => Takes(a, used, c, most)
<1>1. ASSUME NEW a, NEW used PROVE Takes(a, used, a, used)
  <2>1. {} \in SUBSET (Blocks \ used) /\ used = used \cup {} /\ Range(a) = Range(a) \cup {}
    OBVIOUS
  <2> QED BY <2>1 DEF Takes
<1>2. ASSUME NEW a, NEW used, NEW b, NEW more, NEW c, NEW most,
             Takes(a, used, b, more), Takes(b, more, c, most)
      PROVE  Takes(a, used, c, most)
  <2>1. PICK N \in SUBSET (Blocks \ used) : more = used \cup N /\ Range(b) = Range(a) \cup N
    BY <1>2 DEF Takes
  <2>2. PICK M \in SUBSET (Blocks \ more) : most = more \cup M /\ Range(c) = Range(b) \cup M
    BY <1>2 DEF Takes
  <2>3. N \cup M \in SUBSET (Blocks \ used) /\ most = used \cup (N \cup M)
          /\ Range(c) = Range(a) \cup (N \cup M)
    BY <2>1, <2>2
  <2> QED BY <2>3 DEF Takes
<1> QED BY <1>1, <1>2

\* From a with the bitmap `used' to b with `more'.
IsMore(a, used, b, more) ==
  b \in Seq(Blocks) /\ more \in SUBSET Blocks /\ Takes(a, used, b, more)

\* balloc(): a block, or none is free.
LEMMA BallocIs ==
  ASSUME NEW a \in Seq(Blocks), NEW used \in SUBSET Blocks
  PROVE  \E b, more : /\ Balloc([addrs |-> a, used |-> used]) = [addrs |-> b, used |-> more]
                      /\ IsMore(a, used, b, more) /\ Len(b) <= Len(a) + 1
<1>1. CASE FreeBlocks(used) = {}
  <2>1. Balloc([addrs |-> a, used |-> used]) = [addrs |-> a, used |-> used] BY <1>1 DEF Balloc
  <2>2. IsMore(a, used, a, used) /\ Len(a) <= Len(a) + 1 BY TakesAre DEF IsMore
  <2> QED BY <2>1, <2>2
<1>2. CASE FreeBlocks(used) # {}
  <2>1. PICK x \in Blocks \ used : x = Min(FreeBlocks(used)) BY <1>2, FreeBlockIs
  <2>2. PICK b : b = Append(a, x) OBVIOUS
  <2>3. PICK more : more = used \cup {x} OBVIOUS
  <2>4. Balloc([addrs |-> a, used |-> used]) = [addrs |-> b, used |-> more]
    BY <1>2, <2>1, <2>2, <2>3 DEF Balloc
  <2>5. b \in Seq(Blocks) /\ Len(b) = Len(a) + 1 /\ Len(a) \in Nat /\ Len(b) <= Len(a) + 1
    BY <2>1, <2>2
  <2>6. Range(b) = Range(a) \cup {x} BY <2>1, <2>2, RangeAppend
  <2>7. Takes(a, used, b, more) BY <2>1, <2>3, <2>6 DEF Takes
  <2>8. IsMore(a, used, b, more) BY <2>1, <2>3, <2>5, <2>7 DEF IsMore
  <2> QED BY <2>4, <2>5, <2>8
<1> QED BY <1>1, <1>2

\* bmap(): up to two blocks, but one to begin with.
LEMMA BmapIs ==
  ASSUME NEW a \in Seq(Blocks), NEW used \in SUBSET Blocks
  PROVE  \E b, more : /\ Bmap(a, used) = [addrs |-> b, used |-> more]
                      /\ IsMore(a, used, b, more) /\ (a = <<>> => Len(b) <= 1)
<1>1. PICK c, some : /\ Balloc([addrs |-> a, used |-> used]) = [addrs |-> c, used |-> some]
                     /\ IsMore(a, used, c, some) /\ Len(c) <= Len(a) + 1
  BY BallocIs
<1>2. CASE Len(a) = NDIRECT
  <2>1. a # <<>>
    <3>1. Len(<<>>) = 0 OBVIOUS
    <3> QED BY <1>2, <3>1, SizesAssumption
  <2>2. PICK b, more : /\ Balloc([addrs |-> c, used |-> some]) = [addrs |-> b, used |-> more]
                       /\ IsMore(c, some, b, more)
    BY <1>1, BallocIs DEF IsMore
  <2>3. Bmap(a, used) = [addrs |-> b, used |-> more] BY <1>1, <1>2, <2>2 DEF Bmap
  <2>4. IsMore(a, used, b, more) BY <1>1, <2>2, TakesAre DEF IsMore
  <2> QED BY <2>1, <2>3, <2>4
<1>3. CASE Len(a) # NDIRECT
  <2>1. Bmap(a, used) = [addrs |-> c, used |-> some] BY <1>1, <1>3 DEF Bmap
  <2>2. a = <<>> => Len(c) <= 1 BY <1>1
  <2> QED BY <1>1, <2>1, <2>2
<1> QED BY <1>2, <1>3

\* dirlink() of i as n turns w into v.
IsEntered(w, n, i, v) ==
  /\ v = Dirlink(w, n, i) /\ v.ok \in BOOLEAN /\ v.used \in SUBSET Blocks
  /\ v = [ok |-> v.ok, inode |-> v.inode, used |-> v.used]
  /\ IsInode(v.inode) /\ v.inode.type # "free" /\ v.inode.type = w.inode.type
  /\ v.inode.nlink = w.inode.nlink
  /\ v.inode.ents = (IF v.ok THEN Entered(w.inode.ents, n, i) ELSE w.inode.ents)
  /\ Takes(w.inode.addrs, w.used, v.inode.addrs, v.used)
  /\ v.ok => w.ok /\ n \notin DOMAIN w.inode.ents
  /\ w.ok /\ n \notin DOMAIN w.inode.ents /\ ~ Full(w.inode) => v.ok
  /\ v.ok /\ w.inode.addrs = <<>> /\ w.inode.ents = NoEntry => Len(v.inode.addrs) = 1

\* What writei() finds or allocates for an entry.
LEMMA MappedFor ==
  ASSUME NEW x, IsInode(x), NEW used \in SUBSET Blocks
  PROVE  \E b, more : /\ Mapped(x, used) = [addrs |-> b, used |-> more]
                      /\ IsMore(x.addrs, used, b, more)
                      /\ x.addrs = <<>> => Len(b) <= 1
<1>1. x.addrs \in Seq(Blocks) BY DEF IsInode
<1>2. CASE Full(x) /\ DataBlocks(x.addrs) < MAXFILE BY <1>1, <1>2, BmapIs DEF Mapped
<1>3. CASE ~ (Full(x) /\ DataBlocks(x.addrs) < MAXFILE)
  <2>1. Mapped(x, used) = [addrs |-> x.addrs, used |-> used] BY <1>3 DEF Mapped
  <2>2. IsMore(x.addrs, used, x.addrs, used) /\ (x.addrs = <<>> => Len(x.addrs) <= 1)
    BY <1>1, TakesAre DEF IsMore
  <2> QED BY <2>1, <2>2
<1> QED BY <1>2, <1>3

\* dirlink(): the entry, or not, and the blocks it may take for it.
LEMMA DirlinkIs ==
  ASSUME NEW w, w = [ok |-> w.ok, inode |-> w.inode, used |-> w.used], w.ok \in BOOLEAN,
         w.used \in SUBSET Blocks, IsInode(w.inode), w.inode.type # "free",
         NEW n \in STRING, NEW i \in Inums
  PROVE  \E v : IsEntered(w, n, i, v)
<1>1. PICK x, used : x = w.inode /\ used = w.used OBVIOUS
<1>2. x \in Inodes /\ x.ents \in Contents /\ x.addrs \in Seq(Blocks) /\ x.size \in Nat
        /\ IsInode(x) /\ used \in SUBSET Blocks /\ x.type # "free"
  BY <1>1, InodesAre DEF Inodes
<1>3. CASE w.ok /\ n \notin DOMAIN x.ents
  <2>1. PICK b, more : /\ Mapped(x, used) = [addrs |-> b, used |-> more]
                       /\ IsMore(x.addrs, used, b, more)
                       /\ x.addrs = <<>> => Len(b) <= 1
    BY <1>2, MappedFor
  <2>2. PICK e : e = [m \in DOMAIN x.ents \cup {n} |-> IF m = n THEN i ELSE x.ents[m]] OBVIOUS
  <2>3. e = Entered(x.ents, n, i) BY <2>2 DEF Entered
  <2>4. e \in Contents
    <3>1. IsFiniteSet(DOMAIN x.ents) /\ DOMAIN x.ents \subseteq STRING
            /\ Range(x.ents) \subseteq Inums
      BY <1>2, ContentsAre
    <3>2. IsFiniteSet(DOMAIN x.ents \cup {n}) BY <3>1, FS_AddElement
    <3>3. DOMAIN e = DOMAIN x.ents \cup {n} /\ Range(e) \subseteq Inums
            /\ e = [m \in DOMAIN e |-> e[m]]
      BY <2>2, <3>1 DEF Range
    <3> QED BY <3>1, <3>2, <3>3, ContentsAre
  <2>5. PICK ok \in BOOLEAN : ok <=> CanLink(x, used) OBVIOUS
  <2>6. PICK s \in Nat : s = IF ok THEN (IF Full(x) THEN x.size + 1 ELSE x.size) ELSE x.size
    BY <1>2
  <2>7. PICK f \in Contents : f = IF ok THEN e ELSE x.ents BY <1>2, <2>4
  <2>8. PICK y : y = [[[x EXCEPT !.addrs = b] EXCEPT !.size = s] EXCEPT !.ents = f] OBVIOUS
  <2>9. y \in Inodes
    <3>1. [x EXCEPT !.addrs = b] \in Inodes BY <1>2, <2>1 DEF Inodes, IsMore
    <3>2. [[x EXCEPT !.addrs = b] EXCEPT !.size = s] \in Inodes BY <3>1 DEF Inodes
    <3> QED BY <2>8, <3>2 DEF Inodes
  <2>10. y.type = x.type /\ y.nlink = x.nlink /\ y.addrs = b /\ y.ents = f
    BY <1>2, <2>8 DEF Inodes
  <2>11. IsInode(y) BY <1>2, <2>9, <2>10, InodesAre
  <2>12. PICK v : v = [ok |-> ok, inode |-> y, used |-> more] OBVIOUS
  <2>13. v = Dirlink(w, n, i)
    <3>1. y = [x EXCEPT !.addrs = b, !.size = IF ok THEN (IF Full(x) THEN x.size + 1 ELSE x.size)
                 ELSE @, !.ents = IF ok THEN e ELSE @]
      BY <1>2, <2>6, <2>7, <2>8 DEF Inodes
    <3>2. CanLink(x, used) = ok BY <2>5 DEF CanLink
    <3> QED BY <1>1, <1>3, <2>1, <2>2, <2>12, <3>1, <3>2 DEF Dirlink
  <2>14. Full(x) <=> ~ ~ Full(x) OBVIOUS
  <2>15. ~ Full(x) => ok BY <2>5 DEF CanLink
  <2>16. ok /\ x.addrs = <<>> /\ x.ents = NoEntry => Len(b) = 1
    <3> SUFFICES ASSUME ok, x.addrs = <<>>, x.ents = NoEntry PROVE Len(b) = 1
      OBVIOUS
    <3>1. Len(x.addrs) = 0 /\ Len(b) \in Nat /\ Len(b) <= 1 BY <1>2, <2>1 DEF IsMore
    <3>2. DataBlocks(x.addrs) = 0 BY <3>1, SizesAssumption DEF DataBlocks
    <3>3. Cardinality(DOMAIN x.ents) = 0 BY FS_EmptySet DEF NoEntry
    <3>4. Full(x) BY <3>2, <3>3, SizesAssumption DEF Full
    <3>5. DataBlocks(b) > 0 BY <2>1, <2>5, <3>2, <3>4 DEF CanLink
    <3>6. PICK l \in Nat : l = Len(b) /\ l <= 1 BY <3>1
    <3>7. l = 0 => DataBlocks(b) = 0 BY <3>6, SizesAssumption DEF DataBlocks
    <3>8. l # 0 BY <3>5, <3>7
    <3> QED BY <3>6, <3>8
  <2>17. Takes(x.addrs, used, b, more) /\ more \in SUBSET Blocks BY <2>1 DEF IsMore
  <2>18. f = (IF ok THEN Entered(x.ents, n, i) ELSE x.ents) BY <2>3, <2>7
  <2>19. IsEntered(w, n, i, v)
    BY <1>1, <1>2, <1>3, <2>10, <2>11, <2>12, <2>13, <2>15, <2>16, <2>17, <2>18 DEF IsEntered
  <2> QED BY <2>19
<1>4. CASE ~ (w.ok /\ n \notin DOMAIN x.ents)
  <2>1. PICK v : v = [ok |-> FALSE, inode |-> x, used |-> used] OBVIOUS
  <2>2. v = Dirlink(w, n, i)
    <3>1. Dirlink(w, n, i) = [w EXCEPT !.ok = FALSE] BY <1>1, <1>4 DEF Dirlink
    <3> QED BY <1>1, <2>1, <3>1
  <2>3. IsEntered(w, n, i, v) BY <1>1, <1>2, <1>4, <2>1, <2>2, TakesAre DEF IsEntered
  <2> QED BY <2>3
<1> QED BY <1>3, <1>4

\* bmap() and the size in writei().
LEMMA WrittenIs ==
  ASSUME NEW x, IsInode(x), x.type # "free", NEW s \in Nat, NEW a \in Seq(Blocks)
  PROVE  LET y == [x EXCEPT !.addrs = a, !.size = s] IN
         /\ IsInode(y) /\ y.type = x.type /\ y.nlink = x.nlink /\ y.addrs = a /\ y.ents = x.ents
<1>1. x \in Inodes BY InodesAre
<1> DEFINE y == [x EXCEPT !.addrs = a, !.size = s]
<1>2. y \in Inodes BY <1>1 DEF Inodes
<1>3. y.type = x.type /\ y.nlink = x.nlink /\ y.addrs = a /\ y.ents = x.ents BY <1>1 DEF Inodes
<1> HIDE DEF y
<1>4. IsInode(y) BY <1>2, <1>3, InodesAre
<1> QED BY <1>3, <1>4 DEF y

-----
\* The invariant, apart from the links and names of inodes.
\* Where a process can be in a call.
Labels == {"user", "walk", "found", "parent", "exists", "new", "giveUp", "made", "opening",
           "truncating", "unlinking", "unlinked", "linkBad", "chdir", "closing", "writing",
           "chunk", "end"}

\* A call with its arguments; the operations that take a path name.
WithPath == {"mkdir", "mknod", "unlink", "chdir", "open", "link"}
IsCall(c) ==
  /\ c.op \in WithPath => c.path.names \in Seq(STRING) /\ c.path.abs \in BOOLEAN
  /\ c.op = "link" => c.new.names \in Seq(STRING) /\ c.new.abs \in BOOLEAN
  /\ c.op = "write" => c = [op |-> "write", f |-> c.f, left |-> c.left] /\ c.f \in Files
                       /\ c.left \in Int

\* An entry of the file table.
FileIs == [ref : Int, ip : Inums \cup {None}, off : Nat, readable : BOOLEAN, writable : BOOLEAN]

\* Typed: the types of the variables, as the steps need them.  Disk and durable
\* disk hold inodes and a bitmap, and only processes are in a transaction.
DiskTyped == IsDisk(disk) /\ IsDisk(durable) /\ active \subseteq Procs

\* The inode table: counts, sleep-locks and copies of inodes.
TableTyped ==
  /\ ref \in [Inums -> Int] /\ lock \in [Inums -> Procs \cup {Nobody}]
  /\ copy = [i \in Inums |-> copy[i]]
  /\ \A i \in Inums : copy[i] # NotRead => IsInode(copy[i])

\* The file table, the descriptors and the working directories.
FilesTyped ==
  /\ ftable \in [Files -> FileIs] /\ ofile \in [Procs -> [Fds -> Files \cup {None}]]
  /\ cwd \in [Procs -> Inums]

\* The locals of the calls.
ProcsTyped ==
  /\ pc \in [Procs -> Labels] /\ put \in [Procs -> {"no", "freeing", "freed"}]
  /\ cur \in [Procs -> Inums \cup {None}] /\ ip \in [Procs -> Inums \cup {None}]
  /\ dp \in [Procs -> Inums \cup {None}]
  /\ rest \in [Procs -> Seq(STRING)] /\ puts \in [Procs -> Seq(Inums)]
  /\ call = [p \in Procs |-> call[p]] /\ \A p \in Procs : IsCall(call[p])
Typed == DiskTyped /\ TableTyped /\ FilesTyped /\ ProcsTyped

\* Where a call has a value in cur, in dp and in ip; where no iput() is due; and
\* where it holds the lock of ip, of dp.
WithCur == {"walk", "found"}
WithDp  == {"parent", "new", "giveUp", "unlinking"}
WithIp  == {"exists", "new", "made", "opening", "truncating", "unlinking", "unlinked", "linkBad",
            "chdir", "closing"}
NoPuts  == {"user", "found", "parent", "new", "unlinking", "truncating", "closing", "writing",
            "chunk"}
LocksIp == {"made", "opening", "truncating", "unlinked"}
LocksDp == {"new", "giveUp", "unlinking"}

\* Which locals of a process are set where it is in its call, and that it is in a
\* transaction (begin_op() to end_op()) everywhere but outside of calls and where the
\* code has not begun one.
Shape(p) ==
  /\ cur[p] # None <=> pc[p] \in WithCur
  /\ dp[p] # None <=> pc[p] \in WithDp
  /\ pc[p] \in WithIp => ip[p] # None
  /\ pc[p] \in {"parent", "giveUp"} => (ip[p] # None <=> call[p].op = "link")
  /\ pc[p] = "walk" /\ ip[p] # None => call[p].op = "link"
  /\ ip[p] # None => pc[p] \in WithIp \cup {"walk", "parent", "giveUp"}
  /\ pc[p] \in {"exists", "new"} => Creates(p)
  /\ pc[p] = "unlinking" => call[p].op = "unlink"
  /\ pc[p] = "linkBad" => call[p].op = "link"
  /\ pc[p] \in {"writing", "chunk"} => call[p].op = "write"
  /\ pc[p] \in {"parent", "new", "unlinking"} => rest[p] # <<>>
  /\ pc[p] \in {"walk", "found"} => call[p].op \in WithPath
  /\ pc[p] = "user" => call[p].op # "write"
  /\ pc[p] \in NoPuts => puts[p] = <<>>
  /\ Len(puts[p]) <= 2 /\ (puts[p] = <<>> => put[p] = "no")
  /\ p \in active <=> pc[p] \notin {"user", "closing", "writing"}
Shaped == \A p \in Procs : Shape(p)

\* p is in iput() between its two critical sections: it frees inode i.
Freeing(p, i) == put[p] = "freeing" /\ Head(puts[p]) = i

\* p holds the sleep-lock of i.
HoldsLock(p, i) ==
  \/ pc[p] \in LocksIp /\ ip[p] = i
  \/ pc[p] \in LocksDp /\ dp[p] = i
  \/ Freeing(p, i)

\* Locks: a sleep-lock is held by the process whose call has it, and only over an
\* inode that has been read (ilock() reads it).
Locks ==
  /\ \A i \in Inums, p \in Procs : lock[i] = p <=> HoldsLock(p, i)
  /\ \A p \in Procs, i \in Inums : Freeing(p, i) =>
       ~ (pc[p] \in LocksIp /\ ip[p] = i) /\ ~ (pc[p] \in LocksDp /\ dp[p] = i)
  /\ \A i \in Inums : lock[i] # Nobody => copy[i] # NotRead

\* An inode is busy while a process changes its copy in memory and has not written
\* it with iupdate(): the itrunc() of an iput(), and that of an open(O_TRUNC).
Truncates(p, i) == pc[p] = "truncating" /\ ip[p] = i
Busy(i) == \E p \in Procs : Freeing(p, i) \/ Truncates(p, i)

\* Coherent: the copy of an inode in memory is the inode on disk, except for a busy
\* one.
Coherent ==
  \A i \in Inums :
    /\ copy[i] # NotRead =>
        /\ copy[i].type = disk.ino[i].type /\ copy[i].type # "free"
        /\ copy[i] = disk.ino[i] \/ Busy(i)
    /\ (\E p \in Procs : Freeing(p, i)) => copy[i].addrs = <<>> /\ copy[i].ents = NoEntry

\* How often f has the value i.
Count(f, i) == Cardinality({x \in DOMAIN f : f[x] = i})

\* The inodes of the first and of the second iput() that a call has to do.
Put1(s) == IF s = <<>> THEN None ELSE Head(s)
Put2(s) == IF Len(s) > 1 THEN s[2] ELSE None

\* The references to inodes, one function for each place that keeps some: working
\* directories, locals of the calls, due iput()s and open files.  chdir() has taken the
\* old working directory away when it is about to put it; an open file has the
\* reference of the inode that open() is truncating.
CwdRef  == [p \in Procs |-> IF pc[p] = "chdir" THEN None ELSE cwd[p]]
IpRef   == [p \in Procs |-> IF pc[p] = "truncating" THEN None ELSE ip[p]]
Put1Ref == [p \in Procs |-> Put1(puts[p])]
Put2Ref == [p \in Procs |-> Put2(puts[p])]
FileRef == [f \in Files |-> IF ftable[f].ref > 0 THEN ftable[f].ip ELSE None]

\* How many references there are to inode i.
References(i) ==
  Count(CwdRef, i) + Count(FileRef, i) + Count(cur, i) + Count(IpRef, i)
   + Count(dp, i) + Count(Put1Ref, i) + Count(Put2Ref, i)

\* RefsOK: the count of an inode in the table is the number of references to it.
RefsOK == \A i \in Inums : ref[i] = References(i)

\* All the descriptors.
Descriptors == [x \in Procs \X Fds |-> ofile[x[1]][x[2]]]

\* FilesOK: a file's count is the number of its descriptors, an open file has an
\* inode, and a call that writes or truncates a file has it open.
FilesOK ==
  /\ \A f \in Files : ftable[f].ref = Count(Descriptors, f)
  /\ \A f \in Files : ftable[f].ref > 0 => ftable[f].ip \in Inums
  /\ \A p \in Procs : call[p].op = "write" => \E d \in Fds : ofile[p][d] = call[p].f
  /\ \A p \in Procs : pc[p] = "truncating" =>
        \E d \in Fds : ofile[p][d] # None /\ ftable[ofile[p][d]].ip = ip[p]

\* UnlinkOK: sys_unlink() holds the directory whose entry it is about to clear, and
\* the entry is still there and leads to ip.
UnlinkOK == \A p \in Procs : pc[p] = "unlinking" =>
  /\ Name(p) \in DOMAIN View[dp[p]].ents \ Dots
  /\ View[dp[p]].ents[Name(p)] = ip[p]

\* Core: what holds of every state of the file system, a path led through the ".."
\* of a removed directory or not.
Core == /\ Typed /\ Shaped /\ Locks /\ Coherent /\ RefsOK /\ FilesOK /\ UnlinkOK
        /\ BlocksOwned(View, disk.used) /\ BlocksOwned(durable.ino, durable.used)

\* 1 if x is i.
Is(x, i) == IF x = i THEN 1 ELSE 0

\* Is() takes two values; no reference is none to an inode.
LEMMA IsAre ==
  /\ \A x, i : Is(x, i) \in {0, 1}
  /\ \A i \in Inums : Is(None, i) = 0
  /\ \A i : Is(i, i) = 1
BY DEF Is, None, Inums

\* One place changes: it counts for its new value and no longer for its old one.
LEMMA CountChanges ==
  ASSUME NEW S, IsFiniteSet(S), NEW f, NEW g, DOMAIN f = S, DOMAIN g = S, NEW p \in S,
         \A q \in S \ {p} : g[q] = f[q], NEW i
  PROVE  /\ Count(g, i) = Count(f, i) - Is(f[p], i) + Is(g[p], i)
         /\ Count(f, i) \in Nat
<1> DEFINE F == {x \in S : f[x] = i}
           G == {x \in S : g[x] = i}
<1>1. IsFiniteSet(F) /\ IsFiniteSet(G) BY FS_Subset
<1>5. F \ {p} = G \ {p} /\ (f[p] = i <=> p \in F) /\ (g[p] = i <=> p \in G) OBVIOUS
<1>6. Count(f, i) = Cardinality(F) /\ Count(g, i) = Cardinality(G) BY DEF Count
<1> HIDE DEF F, G
<1>2. Cardinality(F) \in Nat /\ Cardinality(G) \in Nat BY <1>1, FS_CardinalityType
<1>3. Cardinality(F \ {p}) = Cardinality(F) - Is(f[p], i)
  <2>1. Cardinality(F \ {p}) = IF p \in F THEN Cardinality(F) - 1 ELSE Cardinality(F)
    BY <1>1, FS_RemoveElement
  <2>2. Is(f[p], i) = IF p \in F THEN 1 ELSE 0 BY <1>5 DEF Is
  <2> QED BY <1>2, <2>1, <2>2
<1>4. Cardinality(G \ {p}) = Cardinality(G) - Is(g[p], i)
  <2>1. Cardinality(G \ {p}) = IF p \in G THEN Cardinality(G) - 1 ELSE Cardinality(G)
    BY <1>1, FS_RemoveElement
  <2>2. Is(g[p], i) = IF p \in G THEN 1 ELSE 0 BY <1>5 DEF Is
  <2> QED BY <1>2, <2>1, <2>2
<1>7. Cardinality(F) - Is(f[p], i) = Cardinality(G) - Is(g[p], i) BY <1>3, <1>4, <1>5
<1> QED BY <1>2, <1>6, <1>7, IsAre

\* The count is positive when some place has the value.
LEMMA CountIs ==
  ASSUME NEW S, IsFiniteSet(S), NEW f, DOMAIN f = S, NEW i
  PROVE  Count(f, i) \in Nat /\ (Count(f, i) >= 1 <=> \E x \in S : f[x] = i)
<1> DEFINE F == {x \in S : f[x] = i}
<1>1. IsFiniteSet(F) BY FS_Subset
<1>2. Cardinality(F) \in Nat /\ (Cardinality(F) = 0 <=> F = {})
  BY <1>1, FS_CardinalityType, FS_EmptySet
<1>3. Count(f, i) = Cardinality(F) BY DEF Count
<1> QED BY <1>2, <1>3

\* One that is counted alone.
LEMMA CountOne ==
  ASSUME NEW S, IsFiniteSet(S), NEW f, DOMAIN f = S, NEW i, Count(f, i) <= 1,
         NEW x \in S, NEW y \in S, f[x] = i, f[y] = i
  PROVE  x = y
<1> DEFINE F == {z \in S : f[z] = i}
<1>1. IsFiniteSet(F) BY FS_Subset
<1>2. Cardinality(F) \in Nat /\ Cardinality(F \ {x}) = Cardinality(F) - 1 /\ IsFiniteSet(F \ {x})
  BY <1>1, FS_CardinalityType, FS_RemoveElement
<1>3. Cardinality(F) <= 1 BY DEF Count
<1>4. Cardinality(F \ {x}) \in Nat BY <1>2, FS_CardinalityType
<1>5. F \ {x} = {} BY <1>2, <1>3, <1>4, FS_EmptySet
<1> QED BY <1>5

\* Everything that is counted is finite.
LEMMA ProcsFinite == IsFiniteSet(Procs) /\ IsFiniteSet(Files) /\ IsFiniteSet(Fds)
  /\ IsFiniteSet(Procs \X Fds)
<1>1. IsFiniteSet(Procs) /\ Files = 1 .. NFILE /\ Fds = 0 .. NOFILE - 1 /\ NFILE \in Int
        /\ NOFILE - 1 \in Int
  BY ProcsAssumption, SizesAssumption DEF Files, Fds
<1>2. IsFiniteSet(1 .. NFILE) /\ IsFiniteSet(0 .. NOFILE - 1) BY <1>1, FS_Interval
<1> QED BY <1>1, <1>2, FS_Product

\* The due iput()s of a call, first to last.
LEMMA PutsAre ==
  /\ Put1(<<>>) = None /\ Put2(<<>>) = None
  /\ \A i : Put1(<<i>>) = i /\ Put2(<<i>>) = None
  /\ \A i, j : Put1(<<i, j>>) = i /\ Put2(<<i, j>>) = j
  /\ \A s \in Seq(Inums) : Len(s) <= 2 /\ s # <<>> =>
       /\ Put1(s) = Head(s) /\ Head(s) \in Inums /\ Tail(s) \in Seq(Inums) /\ Len(Tail(s)) <= 1
       /\ Put1(Tail(s)) = Put2(s) /\ Put2(Tail(s)) = None
<1>1. Put1(<<>>) = None /\ Put2(<<>>) = None BY DEF Put1, Put2
<1>2. \A i : Put1(<<i>>) = i /\ Put2(<<i>>) = None BY DEF Put1, Put2
<1>3. \A i, j : Put1(<<i, j>>) = i /\ Put2(<<i, j>>) = j BY DEF Put1, Put2
<1>4. ASSUME NEW s \in Seq(Inums), Len(s) <= 2, s # <<>>
      PROVE  /\ Put1(s) = Head(s) /\ Head(s) \in Inums /\ Tail(s) \in Seq(Inums)
        /\ Len(Tail(s)) <= 1
             /\ Put1(Tail(s)) = Put2(s) /\ Put2(Tail(s)) = None
  <2>1. Head(s) \in Inums /\ Tail(s) \in Seq(Inums) /\ Len(Tail(s)) = Len(s) - 1
    BY <1>4, HeadTailProperties
  <2>2. \A t \in Seq(Inums) : Len(t) \in Nat /\ (t # <<>> => Len(t) # 0)
    BY EmptySeq, LenProperties
  <2>5. Put1(s) = Head(s) BY <1>4 DEF Put1
  <2>6. Len(s) \in Nat /\ Len(s) # 0 /\ Len(Tail(s)) \in Nat BY <1>4, <2>1, <2>2
  <2>7. Len(Tail(s)) <= 1 /\ (Len(s) = 1 \/ Len(s) = 2) BY <1>4, <2>1, <2>6
  <2>3. CASE Len(s) = 1
    <3>0. Len(Tail(s)) = 0 BY <2>1, <2>3
    <3>1. Tail(s) = <<>> BY <2>1, <2>2, <3>0
    <3>2. Put2(s) = None BY <2>3 DEF Put2
    <3>3. Put1(Tail(s)) = None /\ Put2(Tail(s)) = None BY <1>1, <3>1
    <3> QED BY <2>1, <2>5, <2>7, <3>2, <3>3
  <2>4. CASE Len(s) = 2
    <3>1. Tail(s)[1] = s[2] /\ Len(Tail(s)) = 1
      BY <1>4, <2>1, <2>4, HeadTailProperties, SMTT(30)
    <3>2. Tail(s) # <<>> /\ Head(Tail(s)) = Tail(s)[1] BY <3>1, EmptySeq
    <3>3. Put2(s) = s[2] BY <2>4 DEF Put2
    <3>4. Put1(Tail(s)) = s[2] /\ Put2(Tail(s)) = None BY <3>1, <3>2 DEF Put1, Put2
    <3> QED BY <2>1, <2>5, <2>7, <3>3, <3>4
  <2> QED BY <2>3, <2>4, <2>7
<1> QED BY <1>1, <1>2, <1>3, <1>4

-----
\* References are counted, and who is referred to.
\* A step of p leaves the other processes where they are.
Others(p) == \A q \in Procs \ {p} :
  /\ pc'[q] = pc[q] /\ call'[q] = call[q] /\ cur'[q] = cur[q] /\ rest'[q] = rest[q]
  /\ ip'[q] = ip[q] /\ dp'[q] = dp[q] /\ puts'[q] = puts[q] /\ put'[q] = put[q]
  /\ cwd'[q] = cwd[q] /\ ofile'[q] = ofile[q] /\ (q \in active' <=> q \in active)

\* The references of p to i, apart from those of its files.
CwdOf(p) == IF pc[p] = "chdir" THEN None ELSE cwd[p]
IpOf(p)  == IF pc[p] = "truncating" THEN None ELSE ip[p]
Mine(p, i) ==
  Is(CwdOf(p), i) + Is(cur[p], i) + Is(IpOf(p), i) + Is(dp[p], i) + Is(Put1(puts[p]),
    i) + Is(Put2(puts[p]), i)

\* The counts are numbers.
LEMMA CountsAre ==
  ASSUME Typed, NEW i
  PROVE  /\ Count(CwdRef, i) \in Nat /\ Count(FileRef, i) \in Nat /\ Count(cur, i) \in Nat
         /\ Count(IpRef, i) \in Nat /\ Count(dp, i) \in Nat /\ Count(Put1Ref, i) \in Nat
         /\ Count(Put2Ref, i) \in Nat
<1>1. /\ DOMAIN CwdRef = Procs /\ DOMAIN IpRef = Procs /\ DOMAIN Put1Ref = Procs
      /\ DOMAIN Put2Ref = Procs /\ DOMAIN FileRef = Files /\ DOMAIN cur = Procs
      /\ DOMAIN dp = Procs
  BY DEF Typed, ProcsTyped, CwdRef, IpRef, Put1Ref, Put2Ref, FileRef
<1> QED BY <1>1, ProcsFinite, CountIs

\* A step of p changes the references by those of p and of the files.
LEMMA ReferencesChange ==
  ASSUME Typed, Typed', NEW p \in Procs, Others(p), NEW i \in Inums
  PROVE  /\ References(i)' - Count(FileRef, i)' - Mine(p, i)'
              = References(i) - Count(FileRef, i) - Mine(p, i)
         /\ References(i) \in Int /\ References(i)' \in Int /\ Mine(p, i) \in Int
         /\ Mine(p, i)' \in Int
         /\ Count(FileRef, i) \in Int /\ Count(FileRef, i)' \in Int
<1>1. /\ DOMAIN CwdRef = Procs /\ DOMAIN IpRef = Procs /\ DOMAIN Put1Ref = Procs
      /\ DOMAIN Put2Ref = Procs /\ DOMAIN cur = Procs /\ DOMAIN dp = Procs
      /\ DOMAIN CwdRef' = Procs /\ DOMAIN IpRef' = Procs /\ DOMAIN Put1Ref' = Procs
      /\ DOMAIN Put2Ref' = Procs /\ DOMAIN cur' = Procs /\ DOMAIN dp' = Procs
      /\ DOMAIN FileRef = Files /\ DOMAIN FileRef' = Files
  BY DEF Typed, ProcsTyped, CwdRef, IpRef, Put1Ref, Put2Ref, FileRef
<1>2. ASSUME NEW q \in Procs \ {p}
      PROVE  /\ CwdRef'[q] = CwdRef[q] /\ IpRef'[q] = IpRef[q] /\ Put1Ref'[q] = Put1Ref[q]
             /\ Put2Ref'[q] = Put2Ref[q] /\ cur'[q] = cur[q] /\ dp'[q] = dp[q]
  BY DEF Others, CwdRef, IpRef, Put1Ref, Put2Ref
<1>3. /\ CwdRef[p] = CwdOf(p) /\ IpRef[p] = IpOf(p) /\ Put1Ref[p] = Put1(puts[p])
      /\ Put2Ref[p] = Put2(puts[p])
  BY DEF CwdRef, IpRef, Put1Ref, Put2Ref, CwdOf, IpOf
<1>4. /\ CwdRef'[p] = CwdOf(p)' /\ IpRef'[p] = IpOf(p)' /\ Put1Ref'[p] = Put1(puts'[p])
      /\ Put2Ref'[p] = Put2(puts'[p])
  BY DEF CwdRef, IpRef, Put1Ref, Put2Ref, CwdOf, IpOf
<1>16. IsFiniteSet(Procs) BY ProcsAssumption
<1>5. Count(CwdRef, i)' = Count(CwdRef, i) - Is(CwdOf(p), i) + Is(CwdOf(p)', i)
  <2>1. /\ DOMAIN CwdRef = Procs /\ DOMAIN CwdRef' = Procs /\ CwdRef[p] = CwdOf(p)
        /\ CwdRef'[p] = CwdOf(p)'
        /\ \A q \in Procs \ {p} : CwdRef'[q] = CwdRef[q]
    BY <1>1, <1>2, <1>3, <1>4
  <2> QED BY <1>16, <2>1, CountChanges
<1>6. Count(IpRef, i)' = Count(IpRef, i) - Is(IpOf(p), i) + Is(IpOf(p)', i)
  <2>1. /\ DOMAIN IpRef = Procs /\ DOMAIN IpRef' = Procs /\ IpRef[p] = IpOf(p)
        /\ IpRef'[p] = IpOf(p)'
        /\ \A q \in Procs \ {p} : IpRef'[q] = IpRef[q]
    BY <1>1, <1>2, <1>3, <1>4
  <2> QED BY <1>16, <2>1, CountChanges
<1>7. Count(Put1Ref, i)' = Count(Put1Ref, i) - Is(Put1(puts[p]), i) + Is(Put1(puts'[p]), i)
  <2>1. /\ DOMAIN Put1Ref = Procs /\ DOMAIN Put1Ref' = Procs /\ Put1Ref[p] = Put1(puts[p])
        /\ Put1Ref'[p] = Put1(puts'[p])
        /\ \A q \in Procs \ {p} : Put1Ref'[q] = Put1Ref[q]
    BY <1>1, <1>2, <1>3, <1>4
  <2> QED BY <1>16, <2>1, CountChanges
<1>8. Count(Put2Ref, i)' = Count(Put2Ref, i) - Is(Put2(puts[p]), i) + Is(Put2(puts'[p]), i)
  <2>1. /\ DOMAIN Put2Ref = Procs /\ DOMAIN Put2Ref' = Procs /\ Put2Ref[p] = Put2(puts[p])
        /\ Put2Ref'[p] = Put2(puts'[p])
        /\ \A q \in Procs \ {p} : Put2Ref'[q] = Put2Ref[q]
    BY <1>1, <1>2, <1>3, <1>4
  <2> QED BY <1>16, <2>1, CountChanges
<1>9. Count(cur, i)' = Count(cur, i) - Is(cur[p], i) + Is(cur'[p], i)
  <2>1. /\ DOMAIN cur = Procs /\ DOMAIN cur' = Procs /\ cur[p] = cur[p] /\ cur'[p] = cur'[p]
        /\ \A q \in Procs \ {p} : cur'[q] = cur[q]
    BY <1>1, <1>2, <1>3, <1>4
  <2> QED BY <1>16, <2>1, CountChanges
<1>10. Count(dp, i)' = Count(dp, i) - Is(dp[p], i) + Is(dp'[p], i)
  <2>1. /\ DOMAIN dp = Procs /\ DOMAIN dp' = Procs /\ dp[p] = dp[p] /\ dp'[p] = dp'[p]
        /\ \A q \in Procs \ {p} : dp'[q] = dp[q]
    BY <1>1, <1>2, <1>3, <1>4
  <2> QED BY <1>16, <2>1, CountChanges
<1>11. /\ Mine(p, i) = Is(CwdOf(p), i) + Is(cur[p], i) + Is(IpOf(p), i) + Is(dp[p], i)
                       + Is(Put1(puts[p]), i) + Is(Put2(puts[p]), i)
       /\ Mine(p, i)' = Is(CwdOf(p)', i) + Is(cur'[p], i) + Is(IpOf(p)', i) + Is(dp'[p], i)
                        + Is(Put1(puts'[p]), i) + Is(Put2(puts'[p]), i)
  BY DEF Mine
<1>12. /\ References(i)' = Count(CwdRef, i)' + Count(FileRef, i)' + Count(cur,
            i)' + Count(IpRef, i)'
                           + Count(dp, i)' + Count(Put1Ref, i)' + Count(Put2Ref, i)'
       /\ References(i) = Count(CwdRef, i) + Count(FileRef, i) + Count(cur, i) + Count(IpRef, i)
                          + Count(dp, i) + Count(Put1Ref, i) + Count(Put2Ref, i)
  BY DEF References
<1>13. /\ Count(CwdRef, i) \in Int /\ Count(FileRef, i) \in Int /\ Count(cur, i) \in Int
       /\ Count(IpRef, i) \in Int /\ Count(dp, i) \in Int /\ Count(Put1Ref, i) \in Int
       /\ Count(Put2Ref, i) \in Int
  BY CountsAre
<1>14. \A x : Is(x, i) \in Int BY IsAre
<1>15. Count(FileRef, i)' \in Int BY <1>1, ProcsFinite, CountIs
<1> QED BY <1>5, <1>6, <1>7, <1>8, <1>9, <1>10, <1>11, <1>12, <1>13, <1>14, <1>15

\* It keeps RefsOK when it changes the count of each inode by as much; `from' and
\* `to' are the inodes that lose and get the reference of a file.
LEMMA RefsKept ==
  ASSUME Typed, Typed', RefsOK, NEW p \in Procs, Others(p), NEW from, NEW to,
         \A i \in Inums : Count(FileRef, i)' = Count(FileRef, i) - Is(from, i) + Is(to, i),
         \A i \in Inums : ref'[i] + Mine(p, i) + Is(from, i) = ref[i] + Mine(p, i)' + Is(to, i)
  PROVE  RefsOK'
<1>1. ASSUME NEW i \in Inums PROVE ref'[i] = References(i)'
  <2>1. ref[i] = References(i) /\ ref'[i] \in Int /\ ref[i] \in Int
    BY DEF RefsOK, Typed, TableTyped
  <2>2. Is(from, i) \in Int /\ Is(to, i) \in Int BY IsAre
  <2> QED BY <2>1, <2>2, ReferencesChange
<1> QED BY <1>1 DEF RefsOK

\* Whoever has an inode refers to it.
Has(p, i) ==
  \/ cwd[p] = i /\ pc[p] # "chdir"
  \/ ip[p] = i /\ pc[p] # "truncating"
  \/ cur[p] = i \/ dp[p] = i
  \/ Put1(puts[p]) = i \/ Put2(puts[p]) = i

\* i is the inode of an open file.
InFile(i) == \E f \in Files : ftable[f].ref > 0 /\ ftable[f].ip = i

\* The counts are positive when somebody refers.
LEMMA HadCounts ==
  ASSUME Typed, NEW i \in Inums
  PROVE  /\ Count(CwdRef, i) >= 1 <=> \E p \in Procs : cwd[p] = i /\ pc[p] # "chdir"
         /\ Count(cur, i) >= 1 <=> \E p \in Procs : cur[p] = i
         /\ Count(IpRef, i) >= 1 <=> \E p \in Procs : ip[p] = i /\ pc[p] # "truncating"
         /\ Count(dp, i) >= 1 <=> \E p \in Procs : dp[p] = i
         /\ Count(Put1Ref, i) >= 1 <=> \E p \in Procs : Put1(puts[p]) = i
         /\ Count(Put2Ref, i) >= 1 <=> \E p \in Procs : Put2(puts[p]) = i
         /\ Count(FileRef, i) >= 1 <=> InFile(i)
<1>1. /\ DOMAIN CwdRef = Procs /\ DOMAIN IpRef = Procs /\ DOMAIN Put1Ref = Procs
      /\ DOMAIN Put2Ref = Procs /\ DOMAIN FileRef = Files /\ DOMAIN cur = Procs
      /\ DOMAIN dp = Procs
  BY DEF Typed, ProcsTyped, CwdRef, IpRef, Put1Ref, Put2Ref, FileRef
<1>2. i # None BY DEF None, Inums
<1>3. Count(CwdRef, i) >= 1 <=> \E p \in Procs : CwdRef[p] = i BY <1>1, ProcsFinite, CountIs
<1>4. Count(IpRef, i) >= 1 <=> \E p \in Procs : IpRef[p] = i BY <1>1, ProcsFinite, CountIs
<1>5. Count(Put1Ref, i) >= 1 <=> \E p \in Procs : Put1Ref[p] = i BY <1>1, ProcsFinite, CountIs
<1>6. Count(Put2Ref, i) >= 1 <=> \E p \in Procs : Put2Ref[p] = i BY <1>1, ProcsFinite, CountIs
<1>7. Count(FileRef, i) >= 1 <=> \E f \in Files : FileRef[f] = i BY <1>1, ProcsFinite, CountIs
<1>8. Count(cur, i) >= 1 <=> \E p \in Procs : cur[p] = i BY <1>1, ProcsFinite, CountIs
<1>9. Count(dp, i) >= 1 <=> \E p \in Procs : dp[p] = i BY <1>1, ProcsFinite, CountIs
<1>10. (\E p \in Procs : CwdRef[p] = i) <=> \E p \in Procs : cwd[p] = i /\ pc[p] # "chdir"
  BY <1>2 DEF CwdRef
<1>11. (\E p \in Procs : IpRef[p] = i) <=> \E p \in Procs : ip[p] = i /\ pc[p] # "truncating"
  BY <1>2 DEF IpRef
<1>12. (\E f \in Files : FileRef[f] = i) <=> InFile(i) BY <1>2 DEF FileRef, InFile
<1>13. (\E p \in Procs : Put1Ref[p] = i) <=> \E p \in Procs : Put1(puts[p]) = i BY DEF Put1Ref
<1>14. (\E p \in Procs : Put2Ref[p] = i) <=> \E p \in Procs : Put2(puts[p]) = i BY DEF Put2Ref
<1> QED BY <1>3, <1>4, <1>5, <1>6, <1>7, <1>8, <1>9, <1>10, <1>11, <1>12, <1>13, <1>14

\* An inode that somebody has is referred to.
LEMMA Referenced ==
  ASSUME Typed, RefsOK, NEW i \in Inums, InFile(i) \/ \E p \in Procs : Has(p, i)
  PROVE  ref[i] >= 1
BY HadCounts, CountsAre DEF Has, RefsOK, References

\* Only an iput() has the inode that is to be freed.
LEMMA OnlyRef ==
  ASSUME Typed, RefsOK, NEW i \in Inums, ref[i] = 1, NEW p \in Procs, Put1(puts[p]) = i
  PROVE  /\ ~ InFile(i) /\ \A q \in Procs \ {p} : ~ Has(q, i)
         /\ ~ (cwd[p] = i /\ pc[p] # "chdir") /\ cur[p] # i /\ dp[p] # i
         /\ ~ (ip[p] = i /\ pc[p] # "truncating") /\ Put2(puts[p]) # i
<1>1. ref[i] = References(i) BY DEF RefsOK
<1>2. Count(Put1Ref, i) >= 1 BY HadCounts
<1>3. /\ Count(Put1Ref, i) <= 1 /\ ~ Count(CwdRef, i) >= 1 /\ ~ Count(cur, i) >= 1
      /\ ~ Count(IpRef, i) >= 1 /\ ~ Count(dp, i) >= 1 /\ ~ Count(Put2Ref, i) >= 1
      /\ ~ Count(FileRef, i) >= 1
  BY <1>1, <1>2, CountsAre DEF References
<1>4. \A q \in Procs : Put1(puts[q]) = i => q = p
  <2>1. DOMAIN Put1Ref = Procs /\ \A q \in Procs : Put1Ref[q] = Put1(puts[q]) BY DEF Put1Ref
  <2> QED BY <1>3, <2>1, CountOne, ProcsFinite
<1> QED BY <1>3, <1>4, HadCounts DEF Has

\* A locked inode is referred to, a busy one is locked.
LEMMA LocksReferenced ==
  ASSUME Typed, Shaped, Locks, RefsOK, FilesOK, NEW i \in Inums
  PROVE  /\ lock[i] # Nobody => ref[i] >= 1
         /\ Busy(i) => lock[i] # Nobody
<1>1. ASSUME NEW p \in Procs, HoldsLock(p, i) PROVE ref[i] >= 1
  <2>1. CASE pc[p] \in LocksIp \ {"truncating"} /\ ip[p] = i
    BY <2>1, Referenced DEF Has, LocksIp
  <2>2. CASE Truncates(p, i)
    <3>1. PICK d \in Fds : ofile[p][d] # None /\ ftable[ofile[p][d]].ip = ip[p]
      BY <2>2 DEF FilesOK, Truncates
    <3> DEFINE f == ofile[p][d]
    <3>2. f \in Files BY <3>1 DEF Typed, FilesTyped
    <3>3. <<p, d>> \in DOMAIN Descriptors /\ Descriptors[<<p, d>>] = f
            /\ DOMAIN Descriptors = Procs \X Fds
      BY DEF Descriptors
    <3>4. Count(Descriptors, f) >= 1 BY <3>3, ProcsFinite, CountIs
    <3>5. ftable[f].ref = Count(Descriptors, f) BY <3>2 DEF FilesOK
    <3>6. ftable[f].ref > 0 /\ ftable[f].ip = i
      BY <2>2, <3>1, <3>4, <3>5, CountIs, ProcsFinite, <3>3 DEF Truncates
    <3>7. InFile(i) BY <3>2, <3>6 DEF InFile
    <3> QED BY <3>7, Referenced
  <2>3. CASE pc[p] \in LocksDp /\ dp[p] = i BY <2>3, Referenced DEF Has
  <2>4. CASE Freeing(p, i)
    <3>1. Put1(puts[p]) = i BY <2>4 DEF Freeing, Put1, Shaped, Shape
    <3> QED BY <3>1, Referenced DEF Has
  <2> QED BY <1>1, <2>1, <2>2, <2>3, <2>4 DEF HoldsLock, Truncates
<1>2. lock[i] # Nobody => ref[i] >= 1 BY <1>1 DEF Locks, Typed, TableTyped
<1>3. Busy(i) => lock[i] # Nobody
  BY ProcsAssumption DEF Busy, Locks, HoldsLock, LocksIp, Truncates
<1> QED BY <1>2, <1>3

-----
\* Steps that read inodes and recycle entries of the table.
\* The view of the calls: the copy in memory where there is one, else the disk.
LEMMA InodeIs ==
  ASSUME Typed
  PROVE  /\ View = [i \in Inums |-> Inode(i)] /\ Inos(View) /\ Inos(disk.ino) /\ Inos(durable.ino)
         /\ \A i \in Inums : View[i] = Inode(i) /\ IsInode(Inode(i)) /\ Inode(i) # NotRead
BY NotReadIs DEF Typed, DiskTyped, TableTyped, IsDisk, Inos, View, Inode

\* The entries of an inode lead to inodes; an unallocated one has none, nor links.
LEMMA EntsAre ==
  ASSUME NEW x, IsInode(x)
  PROVE  /\ \A n \in DOMAIN x.ents : x.ents[n] \in Inums /\ n \in STRING
         /\ x.type = "free" => x.ents = NoEntry /\ x.nlink = 0
<1>1. x.type = "free" => x.ents = NoEntry /\ x.nlink = 0 BY FreshIs DEF IsInode
<1> QED BY <1>1 DEF IsInode, Range

\* A step reads inodes from disk, and recycles entries of the table.
Kept ==
  /\ disk' = disk /\ copy' = [i \in Inums |-> copy'[i]]
  /\ \A i \in Inums :
       \/ copy'[i] = copy[i]
       \/ copy'[i] = Inode(i) /\ lock[i] = Nobody /\ Inode(i).type # "free"
       \/ copy'[i] = NotRead /\ ref[i] = 0

\* An inode that is not locked or not referred to is not being changed.
LEMMA NotBusy ==
  ASSUME Typed, Shaped, Locks, RefsOK, FilesOK, NEW i \in Inums, ref[i] = 0 \/ lock[i] = Nobody
  PROVE  lock[i] = Nobody /\ ~ Busy(i)
BY LocksReferenced DEF Typed, TableTyped

\* Then the calls see the same inodes.
LEMMA ViewStays ==
  ASSUME Typed, Shaped, Locks, RefsOK, FilesOK, Coherent, Kept
  PROVE  View' = View
<1>1. ASSUME NEW i \in Inums PROVE Inode(i)' = Inode(i)
  <2>1. CASE copy'[i] = copy[i] BY <2>1 DEF Inode, Kept
  <2>2. CASE copy'[i] = Inode(i) BY <2>2, InodeIs DEF Inode, Kept
  <2>3. CASE copy'[i] = NotRead /\ ref[i] = 0 BY <2>3, NotBusy DEF Inode, Kept, Coherent
  <2> QED BY <2>1, <2>2, <2>3 DEF Kept
<1> QED BY <1>1 DEF View

\* And memory stays coherent with the disk, if nobody's truncation ends.
LEMMA CoherentStays ==
  ASSUME Typed, Shaped, Locks, RefsOK, FilesOK, Coherent, Kept,
         \A i \in Inums : Busy(i) => Busy(i)',
         \A i \in Inums : (\E p \in Procs : Freeing(p, i)') => \E p \in Procs : Freeing(p, i)
  PROVE  Coherent'
<1>1. ASSUME NEW i \in Inums, copy'[i] # NotRead
      PROVE  /\ copy'[i].type = disk'.ino[i].type /\ copy'[i].type # "free"
             /\ copy'[i] = disk'.ino[i] \/ Busy(i)'
  <2>1. CASE copy'[i] = copy[i] BY <1>1, <2>1 DEF Kept, Coherent
  <2>2. CASE copy'[i] = Inode(i) /\ Inode(i).type # "free"
    BY <1>1, <2>2 DEF Kept, Coherent, Inode
  <2> QED BY <1>1, <2>1, <2>2 DEF Kept
<1>2. ASSUME NEW i \in Inums, \E p \in Procs : Freeing(p, i)'
      PROVE  copy'[i].addrs = <<>> /\ copy'[i].ents = NoEntry
  <2>1. \E p \in Procs : Freeing(p, i) BY <1>2
  <2>2. Busy(i) BY <2>1 DEF Busy
  <2>3. copy'[i] = copy[i] BY <2>2, NotBusy DEF Kept
  <2> QED BY <2>1, <2>3 DEF Coherent
<1> QED BY <1>1, <1>2 DEF Coherent

\* p changes the locks that it has or that are free.
LocksMove(p) ==
  \A i \in Inums : \/ lock'[i] = lock[i] /\ copy'[i] = copy[i]
                   \/ lock'[i] = Nobody /\ lock[i] = Nobody
                   \/ lock'[i] = p /\ lock[i] \in {p, Nobody} /\ copy'[i] # NotRead
                   \/ lock'[i] = Nobody /\ lock[i] = p

\* Locks after a step, from what it does to p's own locks.
LEMMA LocksKept ==
  ASSUME Typed, Typed', Locks, NEW p \in Procs, Others(p), LocksMove(p),
         \A i \in Inums : lock'[i] = p <=> HoldsLock(p, i)',
         \A i \in Inums : Freeing(p, i)' =>
           ~ (pc'[p] \in LocksIp /\ ip'[p] = i) /\ ~ (pc'[p] \in LocksDp /\ dp'[p] = i)
  PROVE  Locks'
<1>1. ASSUME NEW q \in Procs \ {p}, NEW i \in Inums PROVE HoldsLock(q, i)' <=> HoldsLock(q, i)
  BY DEF Others, HoldsLock, Freeing
<1>2. ASSUME NEW q \in Procs, NEW i \in Inums PROVE lock'[i] = q <=> HoldsLock(q, i)'
  BY <1>1, <1>2, ProcsAssumption DEF LocksMove, Locks
<1>3. ASSUME NEW q \in Procs, NEW i \in Inums, Freeing(q, i)'
      PROVE  ~ (pc'[q] \in LocksIp /\ ip'[q] = i) /\ ~ (pc'[q] \in LocksDp /\ dp'[q] = i)
  BY <1>3 DEF Others, Freeing, Locks
<1>4. ASSUME NEW i \in Inums, lock'[i] # Nobody PROVE copy'[i] # NotRead
  BY <1>4 DEF LocksMove, Locks
<1> QED BY <1>2, <1>3, <1>4 DEF Locks

\* What the proofs need to know of a step of p, apart from what it does to files.
UnlinksOwn(p) ==
  pc[p] = "unlinking" => /\ Name(p) \in DOMAIN View[dp[p]].ents \ Dots
                         /\ View[dp[p]].ents[Name(p)] = ip[p]
Apart(p, i) ==
  Freeing(p, i) => ~ (pc[p] \in LocksIp /\ ip[p] = i) /\ ~ (pc[p] \in LocksDp /\ dp[p] = i)
SameBusy(p) == \A i \in Inums : (Freeing(p, i)' <=> Freeing(p, i))
  /\ (Truncates(p, i)' <=> Truncates(p, i))
OwnLocks(p) == \A i \in Inums : lock[i] = p <=> HoldsLock(p, i)

\* Shape() speaks of one process.
LEMMA ShapedKept ==
  ASSUME Shaped, NEW p \in Procs, Others(p), Shape(p)'
  PROVE  Shaped'
<1>1. ASSUME NEW q \in Procs \ {p} PROVE Shape(q)'
  <2>1. Shape(q) BY DEF Shaped
  <2>2. Creates(q)' <=> Creates(q) BY DEF Creates, Others
  <2> QED BY <2>1, <2>2 DEF Shape, Others
<1> QED BY <1>1 DEF Shaped

\* Nobody changes the directory that another process has locked.
LEMMA UnlinkKept ==
  ASSUME UnlinkOK, Locks, Shaped, Typed, NEW p \in Procs, Others(p),
         \A i \in Inums : lock[i] \in Procs \ {p} => View'[i] = View[i],
         UnlinksOwn(p)'
  PROVE  UnlinkOK'
<1>1. ASSUME NEW q \in Procs \ {p} PROVE UnlinksOwn(q)'
  <2>1. pc'[q] = pc[q] /\ dp'[q] = dp[q] /\ ip'[q] = ip[q] /\ Name(q)' = Name(q)
    BY DEF Others, Name
  <2>2. CASE pc[q] = "unlinking"
    <3>1. lock[dp[q]] = q /\ dp[q] \in Inums
      BY <2>2 DEF Locks, HoldsLock, LocksDp, Shaped, Shape, WithDp, Typed, ProcsTyped
    <3> QED BY <2>1, <2>2, <3>1 DEF UnlinksOwn, UnlinkOK
  <2> QED BY <2>1, <2>2 DEF UnlinksOwn
<1> QED BY <1>1 DEF UnlinkOK, UnlinksOwn

\* The same inodes are busy.
LEMMA BusyKept ==
  ASSUME NEW p \in Procs, Others(p), SameBusy(p)
  PROVE  \A i \in Inums : /\ Busy(i)' <=> Busy(i)
                          /\ (\E q \in Procs : Freeing(q, i)') <=> \E q \in Procs : Freeing(q, i)
<1>1. ASSUME NEW q \in Procs, NEW i \in Inums
      PROVE  (Freeing(q, i)' <=> Freeing(q, i)) /\ (Truncates(q, i)' <=> Truncates(q, i))
  BY DEF Others, SameBusy, Freeing, Truncates
<1> QED BY <1>1 DEF Busy

\* A step that writes no inode keeps Core when it keeps p's own part of it.
LEMMA QuietKeeps ==
  ASSUME Core, Typed', NEW p \in Procs, Others(p), Kept, durable' = durable, Shape(p)',
         LocksMove(p), OwnLocks(p)', \A i \in Inums : Apart(p, i)', SameBusy(p), UnlinksOwn(p)',
         RefsOK', FilesOK'
  PROVE  Core' /\ View' = View
<1>1. View' = View BY ViewStays DEF Core
<1>2. Shaped' BY ShapedKept DEF Core
<1>3. Locks' BY LocksKept DEF Core, OwnLocks, Apart
<1>4. Coherent' BY BusyKept, CoherentStays DEF Core
<1>5. UnlinkOK' BY <1>1, UnlinkKept DEF Core
<1>6. BlocksOwned(View, disk.used)' BY <1>1 DEF Core, Kept, BlocksOwned
<1> QED BY <1>1, <1>2, <1>3, <1>4, <1>5, <1>6 DEF Core, BlocksOwned

\* Files and descriptors stay as they are.
SameFiles(p) ==
  /\ ofile' = ofile /\ \A f \in Files : ftable'[f].ref = ftable[f].ref
       /\ ftable'[f].ip = ftable[f].ip
  /\ call'[p].op = "write" => call[p].op = "write" /\ call'[p].f = call[p].f
  /\ pc'[p] = "truncating" => pc[p] = "truncating" /\ ip'[p] = ip[p]

\* Then the counts of the files stay right.
LEMMA FilesStay ==
  ASSUME Typed, FilesOK, NEW p \in Procs, Others(p), SameFiles(p)
  PROVE  FilesOK' /\ \A i : InFile(i)' <=> InFile(i)
<1>1. Descriptors' = Descriptors BY DEF SameFiles, Descriptors
<1>2. \A f \in Files : Count(Descriptors, f)' = Count(Descriptors, f) BY <1>1 DEF Count
<1>3. ASSUME NEW q \in Procs, call'[q].op = "write" PROVE \E d \in Fds : ofile'[q][d] = call'[q].f
  <2>1. call[q].op = "write" /\ call'[q].f = call[q].f /\ ofile'[q] = ofile[q]
    BY <1>3 DEF SameFiles, Others
  <2> QED BY <2>1 DEF FilesOK
<1>4. ASSUME NEW q \in Procs, pc'[q] = "truncating"
      PROVE  \E d \in Fds : ofile'[q][d] # None /\ ftable'[ofile'[q][d]].ip = ip'[q]
  <2>1. pc[q] = "truncating" /\ ip'[q] = ip[q] /\ ofile'[q] = ofile[q]
    BY <1>4 DEF SameFiles, Others
  <2>2. PICK d \in Fds : ofile[q][d] # None /\ ftable[ofile[q][d]].ip = ip[q]
    BY <2>1 DEF FilesOK
  <2>3. ofile[q][d] \in Files BY <2>2 DEF Typed, FilesTyped
  <2> QED BY <2>1, <2>2, <2>3 DEF SameFiles
<1> QED BY <1>2, <1>3, <1>4 DEF FilesOK, SameFiles, InFile

\* Then only what p itself refers to counts.
LEMMA RefsStay ==
  ASSUME Typed, Typed', RefsOK, NEW p \in Procs, Others(p), SameFiles(p),
         \A i \in Inums : ref'[i] + Mine(p, i) = ref[i] + Mine(p, i)'
  PROVE  RefsOK'
<1>1. FileRef' = FileRef BY DEF SameFiles, FileRef
<1>2. ASSUME NEW i \in Inums PROVE ref'[i] = References(i)'
  <2>1. ref[i] = References(i) /\ ref'[i] \in Int /\ ref[i] \in Int
    BY DEF RefsOK, Typed, TableTyped
  <2>2. Count(FileRef, i)' = Count(FileRef, i) BY <1>1 DEF Count
  <2> QED BY <2>1, <2>2, ReferencesChange
<1> QED BY <1>2 DEF RefsOK

\* Sequences of at most two inodes, and paths.
LEMMA SeqsAre ==
  /\ <<>> \in Seq(Inums) /\ Len(<<>>) = 0
  /\ \A i \in Inums : <<i>> \in Seq(Inums) /\ Len(<<i>>) = 1 /\ <<i>> # <<>> /\ Head(<<i>>) = i
  /\ \A i, j \in Inums : <<i, j>> \in Seq(Inums) /\ Len(<<i, j>>) = 2 /\ <<i, j>> # <<>>
       /\ Head(<<i, j>>) = i
  /\ \A s \in Seq(STRING) : s # <<>> => Head(s) \in STRING /\ Tail(s) \in Seq(STRING)
<1>1. <<>> \in Seq(Inums) /\ Len(<<>>) = 0 OBVIOUS
<1>2. \A i \in Inums : <<i>> \in Seq(Inums) /\ Len(<<i>>) = 1 /\ <<i>> # <<>> /\ Head(<<i>>) = i
  OBVIOUS
<1>3. \A i, j \in Inums : <<i, j>> \in Seq(Inums) /\ Len(<<i, j>>) = 2 /\ <<i, j>> # <<>>
        /\ Head(<<i, j>>) = i
  OBVIOUS
<1>4. \A s \in Seq(STRING) : s # <<>> => Head(s) \in STRING /\ Tail(s) \in Seq(STRING)
  BY HeadTailProperties
<1> QED BY <1>1, <1>2, <1>3, <1>4

\* The ways in which an inode is read, an entry of the table is recycled.
LEMMA ReadsKeeps ==
  ASSUME Typed, disk' = disk, NEW i \in Inums, lock[i] = Nobody, Inode(i).type # "free",
         copy' = [copy EXCEPT ![i] = Inode(i)]
  PROVE  Kept /\ \A k \in Inums : copy'[k] # NotRead => IsInode(copy'[k])
<1>1. copy' = [k \in Inums |-> copy'[k]] /\ copy'[i] = Inode(i)
        /\ \A k \in Inums \ {i} : copy'[k] = copy[k]
  BY DEF Typed, TableTyped
<1> QED BY <1>1, InodeIs DEF Kept, Typed, TableTyped

\* iget() recycles an entry that nobody refers to.
LEMMA IgetIs ==
  ASSUME Typed, NEW j \in Inums
  PROVE  /\ IgetCopy(j) = [k \in Inums |-> IgetCopy(j)[k]]
         /\ IgetCopy(j)[j] = IF ref[j] = 0 THEN NotRead ELSE copy[j]
         /\ \A k \in Inums \ {j} : IgetCopy(j)[k] = copy[k]
BY DEF IgetCopy, Typed, TableTyped

\* An iget().
LEMMA IgetKeeps ==
  ASSUME Typed, disk' = disk, NEW j \in Inums, copy' = IgetCopy(j)
  PROVE  Kept /\ \A k \in Inums : copy'[k] # NotRead => IsInode(copy'[k])
BY IgetIs DEF Kept, Typed, TableTyped

\* An iget() of j under the lock of a directory i that was read with it.
LEMMA IgetReadsKeeps ==
  ASSUME Typed, disk' = disk, NEW i \in Inums, lock[i] = Nobody, Inode(i).type # "free",
         NEW j \in Inums, copy' = [IgetCopy(j) EXCEPT ![i] = Inode(i)]
  PROVE  Kept /\ \A k \in Inums : copy'[k] # NotRead => IsInode(copy'[k])
<1>1. copy' = [k \in Inums |-> copy'[k]] /\ copy'[i] = Inode(i)
        /\ \A k \in Inums \ {i} : copy'[k] = IgetCopy(j)[k]
  BY IgetIs
<1> QED BY <1>1, IgetIs, InodeIs DEF Kept, Typed, TableTyped

-----
\* The invariant as long as no path has led through the ".." of a removed
\* directory, and the steps that keep it.
\* None is not an inode.
LEMMA NoneIs == None \notin Inums
BY DEF None, Inums

\* What the locks become when p takes one that is free or leaves one.
LEMMA LocksMoveIs ==
  ASSUME Typed, Shaped, Locks, RefsOK, FilesOK, NEW p \in Procs, Kept,
         \A i \in Inums : \/ lock'[i] = lock[i]
                          \/ lock'[i] = p /\ lock[i] = Nobody /\ copy'[i] # NotRead
                          \/ lock'[i] = Nobody /\ lock[i] = p
  PROVE  LocksMove(p)
<1>1. ASSUME NEW i \in Inums, copy'[i] # copy[i], lock'[i] = lock[i]
      PROVE  lock[i] = Nobody
  BY <1>1, NotBusy DEF Kept
<1> QED BY <1>1, ProcsAssumption DEF LocksMove

\* A step that leaves disk and copies alone.
LEMMA SameKeeps ==
  ASSUME Typed, disk' = disk, copy' = copy
  PROVE  Kept /\ \A k \in Inums : copy'[k] # NotRead => IsInode(copy'[k])
BY DEF Kept, Typed, TableTyped

\* The entries that lead to i, from other inodes.
Links(i) == Cardinality(LinksTo(View, i))

\* p has counted a link that is not made yet, or has not yet counted one that is gone.
Pends(p, i) == ip[p] = i /\ pc[p] \in {"unlinked", "walk", "parent", "giveUp", "linkBad"}

\* The processes that are to link or to count i.
Pending(i) == {p \in Procs : Pends(p, i)}

\* Counted: nlink is no less than the links that are there and those that are being
\* made or counted down.
Counted == \A i \in Inums : View[i].nlink >= Links(i) + Cardinality(Pending(i))

\* p refers to i, apart from the iput() that frees it.
Holds(p, i) ==
  \/ cwd[p] = i /\ pc[p] # "chdir"
  \/ cur[p] = i \/ dp[p] = i \/ ip[p] = i
  \/ Put1(puts[p]) = i /\ put[p] = "no"
  \/ Put2(puts[p]) = i

\* Somebody refers to i, in a file or in a call.
Held(i) == InFile(i) \/ \E p \in Procs : Holds(p, i)

\* Alive: an inode that somebody has is allocated and not being freed; one that is
\* being freed has no link.
Alive == \A i \in Inums :
  /\ Held(i) => View[i].type # "free" /\ \A p \in Procs : ~ Freeing(p, i)
  /\ (\E p \in Procs : Freeing(p, i)) => View[i].nlink = 0

\* The directories where a path may start or has come to.
Reached(p, i) ==
  \/ cwd[p] = i /\ pc[p] # "chdir"
  \/ cur[p] = i \/ dp[p] = i
  \/ pc[p] = "chdir" /\ ip[p] = i

\* i is no directory, or one with entries.
HasEntries(i) == View[i].type = "dir" => DOMAIN View[i].ents # {}

\* sys_link() links no directory.
LinkedFile(p) ==
  pc[p] \in {"walk", "parent", "giveUp", "linkBad"} /\ ip[p] # None => View[ip[p]].type # "dir"

\* Reaching: a path starts from, and is at, directories that have entries ("." and
\* ".." at least), and a parent directory is one.
Reaching ==
  \A p \in Procs :
    /\ \A i \in Inums : Reached(p, i) => HasEntries(i)
    /\ dp[p] # None => View[dp[p]].type = "dir"
    /\ LinkedFile(p)

\* Nobody else has come to the inode that create() makes.
NewAlone(p) ==
  pc[p] = "new" =>
    /\ View[ip[p]] = Fresh(Type(p)) /\ copy[ip[p]] = NotRead
    /\ Name(p) \notin DOMAIN View[dp[p]].ents
    /\ ~ InFile(ip[p]) /\ \A q \in Procs \ {p} : ~ Holds(q, ip[p])
    /\ cwd[p] # ip[p] /\ dp[p] # ip[p]

\* Sound: what holds as long as no path has led through the ".." of a removed
\* directory.  The durable disk, which a crash goes back to, is a tree with counted
\* links.
Sound == /\ Counted /\ Alive /\ Tree(View) /\ Reaching /\ \A p \in Procs : NewAlone(p)
         /\ Tree(durable.ino) /\ LinksCounted(durable.ino)

\* Links and pending links can be counted.
LEMMA LinksAre ==
  ASSUME Typed, NEW i \in Inums
  PROVE  /\ Links(i) \in Nat /\ IsFiniteSet(LinksTo(View, i)) /\ IsFiniteSet(Pending(i))
         /\ Cardinality(Pending(i)) \in Nat
         /\ Links(i) = 0 <=> LinksTo(View, i) = {}
         /\ Cardinality(Pending(i)) = 0 <=> Pending(i) = {}
<1>1. IsFiniteSet(LinksTo(View, i)) /\ Links(i) \in Nat BY InodeIs, LinksFinite DEF Links
<1>2. IsFiniteSet(Pending(i)) BY ProcsAssumption, FS_Subset DEF Pending
<1> QED BY <1>1, <1>2, FS_CardinalityType, FS_EmptySet DEF Links

\* An inode without a link counted has none.
LEMMA Unlinkedness ==
  ASSUME Typed, Counted, NEW i \in Inums, View[i].nlink < 1
  PROVE  LinksTo(View, i) = {} /\ Pending(i) = {}
<1>1. View[i].nlink \in Int BY InodeIs DEF IsInode
<1>2. View[i].nlink >= Links(i) + Cardinality(Pending(i)) BY DEF Counted
<1>3. Links(i) = 0 /\ Cardinality(Pending(i)) = 0 BY <1>1, <1>2, LinksAre
<1> QED BY <1>3, LinksAre

\* Where a name leads: to an inode with links, unless it is the ".." of a directory
\* that has no name.
LEMMA EntryLeads ==
  ASSUME Typed, Counted, Tree(View), NEW d \in Inums, NEW n \in DOMAIN View[d].ents,
         n = ".." => Named(View, d)
  PROVE  LET i == View[d].ents[n] IN
         /\ i \in Inums /\ HasEntries(i)
         /\ i = d \/ View[i].nlink >= 1
<1> DEFINE i == View[d].ents[n]
           e == <<d, n>>
<1>1. e \in Entries(View) /\ Target(View, e) = i /\ i \in Inums
  BY EntriesAre, InodeIs, Targets DEF Target
<1>2. View[d].type = "dir" /\ (n = "." => i = d) BY DEF Tree, DirOK
<1>3. n # "." => View[i].nlink >= 1
  <2>1. n # "." => e \in LinksTo(View, i) BY <1>1 DEF LinksTo
  <2>2. View[i].nlink \in Int BY <1>1, InodeIs DEF IsInode
  <2> QED BY <1>1, <2>1, <2>2, Unlinkedness
<1>4. CASE n \notin Dots BY <1>1, <1>3, <1>4 DEF Tree, NameOK, HasEntries, Dots
<1>5. CASE n = "." BY <1>1, <1>2, <1>5 DEF HasEntries
<1>6. CASE n = ".."
  <2>1. CASE d = ROOTINO BY <1>1, <1>3, <1>6, <2>1 DEF Tree, HasEntries
  <2>2. CASE d # ROOTINO
    <3>1. PICK o \in Entries(View) : o[2] \notin Dots /\ Target(View, o) = d
      BY <1>6, <2>2 DEF Named
    <3>2. View[d].ents[".."] = o[1] BY <1>2, <3>1 DEF Tree, NameOK
    <3>3. o[1] = i /\ o[2] \in DOMAIN View[o[1]].ents BY <1>6, <3>1, <3>2, EntriesAre
    <3> QED BY <1>1, <1>3, <1>6, <3>3 DEF HasEntries
  <2> QED BY <2>1, <2>2
<1> QED BY <1>1, <1>4, <1>5, <1>6, <1>2, <1>3 DEF Dots

\* The root directory has a link.
LEMMA RootReached ==
  ASSUME Typed, Counted, Tree(View)
  PROVE  ROOTINO \in Inums /\ HasEntries(ROOTINO) /\ View[ROOTINO].nlink >= 1
<1>1. ".." \in DOMAIN View[ROOTINO].ents /\ View[ROOTINO].ents[".."] = ROOTINO /\ ROOTINO \in Inums
  BY RootIs DEF Tree, DirOK, Dots
<1>2. <<ROOTINO, "..">> \in LinksTo(View, ROOTINO)
  BY <1>1, EntriesAre DEF LinksTo, Target, Named
<1>3. View[ROOTINO].nlink \in Int BY <1>1, InodeIs DEF IsInode
<1> QED BY <1>1, <1>2, <1>3, Unlinkedness DEF Tree, HasEntries

\* What Sound needs to know of a step of p; create() alone takes an inode that nobody has.
Makes(p, i) ==
  /\ ~ Held(i) /\ \A q \in Procs : ~ Freeing(q, i)
  /\ View'[i].type # "free" /\ ~ Reached(p, i)' /\ pc'[p] = "new"
Goes(p) ==
  /\ \A i \in Inums :
       /\ Holds(p, i)' => Holds(p, i) \/ InFile(i) \/ View[i].nlink >= 1 \/ Makes(p, i)
       /\ Reached(p, i)' => Reached(p, i) \/ HasEntries(i)
       /\ InFile(i)' => InFile(i) \/ Holds(p, i)
       /\ copy'[i] = copy[i] \/ copy'[i] = NotRead \/ Holds(p, i) \/ InFile(i)
  /\ dp'[p] # None => dp'[p] \in Inums /\ View[dp'[p]].type = "dir"
  /\ pc'[p] \in {"walk", "parent", "giveUp", "linkBad"} /\ ip'[p] # None =>
       ip'[p] \in Inums /\ View[ip'[p]].type # "dir"
PendsLess(p) == pc'[p] # "new" /\ \A i \in Inums : Pends(p, i)' => Pends(p, i)
Changes(p) ==
  \A i \in Inums :
    /\ View'[i] = View[i] \/ Holds(p, i) \/ InFile(i) \/ Makes(p, i)
       \/ (Freeing(p, i) /\ ~ Freeing(p, i)')
    /\ lock[i] \in Procs \ {p} => View'[i] = View[i]
    /\ Held(i)' => \/ Makes(p, i)
                   \/ View'[i].type = View[i].type /\ (HasEntries(i) => HasEntries(i)')
    /\ Freeing(p, i)' => Freeing(p, i) \/ (~ Held(i)' /\ View'[i].nlink = 0)

\* What the others have, they keep.
LEMMA OthersHold ==
  ASSUME NEW p \in Procs, Others(p), NEW q \in Procs \ {p}
  PROVE  /\ Type(q)' = Type(q) /\ Name(q)' = Name(q) /\ pc'[q] = pc[q] /\ ip'[q] = ip[q]
         /\ dp'[q] = dp[q] /\ cwd'[q] = cwd[q]
         /\ \A i : /\ Holds(q, i)' <=> Holds(q, i)
                   /\ Reached(q, i)' <=> Reached(q, i)
                   /\ Pends(q, i)' <=> Pends(q, i)
                   /\ Freeing(q, i)' <=> Freeing(q, i)
BY DEF Others, Holds, Reached, Pends, Freeing, Type, Name

\* The pending links of a step of p.
LEMMA PendingChanges ==
  ASSUME Typed, Typed', NEW p \in Procs, Others(p), NEW i \in Inums
  PROVE  Cardinality(Pending(i))' = Cardinality(Pending(i)) + (IF Pends(p, i)' THEN 1 ELSE 0)
                                     - (IF Pends(p, i) THEN 1 ELSE 0)
<1>1. Pending(i)' \ {p} = Pending(i) \ {p} /\ (p \in Pending(i) <=> Pends(p, i))
        /\ (p \in Pending(i)' <=> Pends(p, i)')
  BY OthersHold DEF Pending
<1>2. IsFiniteSet(Pending(i)) /\ IsFiniteSet(Pending(i)')
  BY ProcsAssumption, FS_Subset DEF Pending
<1>3. Cardinality(Pending(i)) \in Nat /\ Cardinality(Pending(i)') \in Nat
  BY <1>2, FS_CardinalityType
<1>4. Cardinality(Pending(i) \ {p}) = IF p \in Pending(i) THEN Cardinality(Pending(i)) - 1
        ELSE Cardinality(Pending(i))
  BY <1>2, FS_RemoveElement
<1>5. Cardinality(Pending(i)' \ {p}) = IF p \in Pending(i)' THEN Cardinality(Pending(i)') - 1
        ELSE Cardinality(Pending(i)')
  BY <1>2, FS_RemoveElement
<1> HIDE DEF Pending
<1> QED BY <1>1, <1>3, <1>4, <1>5

\* Sound after a step of p, from what it takes and changes.
LEMMA SoundKept ==
  ASSUME Core, Core', Sound, NEW p \in Procs, Others(p), Goes(p), Changes(p),
         durable' = durable, Counted', Tree(View)', NewAlone(p)'
  PROVE  Sound'
<1>1. Typed /\ Typed' /\ Locks /\ Shaped BY DEF Core
<1>0. \A q \in Procs, i \in Inums : Reached(q, i) => Held(i) BY DEF Reached, Held, Holds
<1>10. \A q \in Procs, i \in Inums : Reached(q, i)' => Held(i)' BY DEF Reached, Held, Holds
<1>2. Alive'
  <2>1. ASSUME NEW i \in Inums, Held(i)' PROVE View'[i].type # "free"
          /\ \A q \in Procs : ~ Freeing(q, i)'
    <3>1. Held(i) \/ View[i].nlink >= 1 \/ Makes(p, i) BY <2>1, OthersHold DEF Held, Goes
    <3>2. CASE ~ Makes(p, i)
      <4>3. View[i].type # "free" /\ \A q \in Procs : ~ Freeing(q, i)
        <5>1. CASE Held(i) BY <5>1 DEF Sound, Alive
        <5>2. CASE View[i].nlink >= 1
          <6>1. View[i].type # "free" BY <5>2, <1>1, InodeIs, EntsAre
          <6> QED BY <5>2, <6>1 DEF Sound, Alive
        <5> QED BY <3>1, <3>2, <5>1, <5>2
      <4> QED BY <2>1, <3>2, <4>3, OthersHold DEF Changes
    <3>3. CASE Makes(p, i) BY <2>1, <3>3, OthersHold DEF Changes, Makes
    <3> QED BY <3>2, <3>3
  <2>2. ASSUME NEW i \in Inums, NEW q \in Procs, Freeing(q, i)' PROVE View'[i].nlink = 0
    <3>1. CASE ~ Freeing(q, i)
      <4>1. q = p BY <2>2, <3>1, OthersHold
      <4> QED BY <2>2, <3>1, <4>1 DEF Changes
    <3>2. CASE Freeing(q, i)
      <4>1. View[i].nlink = 0 /\ ~ Held(i) /\ ~ Makes(p, i) BY <3>2 DEF Sound, Alive, Makes
      <4>2. CASE q = p BY <2>2, <4>1, <4>2 DEF Changes, Held
      <4>3. CASE q # p
        <5>1. lock[i] = q BY <1>1, <3>2 DEF Locks, HoldsLock
        <5> QED BY <4>1, <4>3, <5>1 DEF Changes
      <4> QED BY <4>2, <4>3
    <3> QED BY <3>1, <3>2
  <2> QED BY <2>1, <2>2 DEF Alive
<1>3. ASSUME NEW q \in Procs
      PROVE  /\ \A i \in Inums : Reached(q, i)' => HasEntries(i)'
             /\ dp'[q] # None => View'[dp'[q]].type = "dir"
             /\ LinkedFile(q)'
  <2>1. /\ \A i \in Inums : Reached(q, i) => HasEntries(i)
        /\ dp[q] # None => View[dp[q]].type = "dir"
        /\ LinkedFile(q)
    BY DEF Sound, Reaching
  <2>2. /\ ip[q] \in Inums \cup {None} /\ dp[q] \in Inums \cup {None}
        /\ ip'[q] \in Inums \cup {None} /\ dp'[q] \in Inums \cup {None}
    BY <1>1 DEF Typed, ProcsTyped
  <2>7. ASSUME NEW i \in Inums, Reached(q, i)'
        PROVE  HasEntries(i) /\ ~ Makes(p, i)
    <3>1. CASE q = p BY <2>1, <2>7, <3>1 DEF Goes, Makes
    <3>2. CASE q # p BY <1>0, <2>1, <2>7, <3>2, OthersHold DEF Makes
    <3> QED BY <3>1, <3>2
  <2>8. \A i \in Inums : Reached(q, i)' => HasEntries(i)' BY <1>10, <2>7 DEF Changes
  <2>10. dp'[q] # None => View'[dp'[q]].type = "dir"
    <3>1. SUFFICES ASSUME dp'[q] # None PROVE View'[dp'[q]].type = "dir" OBVIOUS
    <3>2. PICK i \in Inums : i = dp'[q] BY <2>2, <3>1
    <3>3. Reached(q, i)' BY <3>2 DEF Reached
    <3>4. Held(i)' /\ ~ Makes(p, i) BY <1>10, <2>7, <3>3
    <3>5. View[i].type = "dir" BY <2>1, <3>1, <3>2, OthersHold DEF Goes
    <3> QED BY <3>2, <3>4, <3>5 DEF Changes
  <2>11. LinkedFile(q)'
    <3>1. SUFFICES ASSUME pc'[q] \in {"walk", "parent", "giveUp", "linkBad"}, ip'[q] # None
                   PROVE  View'[ip'[q]].type # "dir"
      BY DEF LinkedFile
    <3>2. PICK i \in Inums : i = ip'[q] BY <2>2, <3>1
    <3>3. View[i].type # "dir" BY <2>1, <3>1, <3>2, OthersHold DEF Goes, LinkedFile
    <3>4. Held(i)' BY <3>2 DEF Held, Holds
    <3>5. Makes(p, i) => View'[i].type # "dir"
      <4>1. SUFFICES ASSUME Makes(p, i) PROVE FALSE OBVIOUS
      <4>2. q = p BY <3>2, <4>1, OthersHold DEF Makes, Held, Holds
      <4> QED BY <3>1, <4>1, <4>2 DEF Makes
    <3> QED BY <3>2, <3>3, <3>4, <3>5 DEF Changes
  <2> QED BY <2>8, <2>10, <2>11
<1>4. ASSUME NEW q \in Procs PROVE NewAlone(q)'
  <2>1. CASE q = p BY <2>1
  <2>2. CASE q # p /\ pc[q] = "new"
    <3>1. /\ View[ip[q]] = Fresh(Type(q)) /\ copy[ip[q]] = NotRead
          /\ Name(q) \notin DOMAIN View[dp[q]].ents
          /\ ~ InFile(ip[q]) /\ \A r \in Procs \ {q} : ~ Holds(r, ip[q])
          /\ cwd[q] # ip[q] /\ dp[q] # ip[q]
      BY <2>2 DEF Sound, NewAlone
    <3>2. ip[q] \in Inums /\ dp[q] \in Inums /\ lock[dp[q]] = q
      BY <2>2, <1>1 DEF Typed, ProcsTyped, Shaped, Shape, WithIp, WithDp, Locks, HoldsLock,
        LocksDp
    <3>3. PICK i \in Inums : i = ip[q] BY <3>2
    <3>12. Held(i) /\ ~ Makes(p, i) /\ ~ Freeing(p, i)
      BY <3>3 DEF Held, Holds, Makes, Sound, Alive
    <3>4. View[i].nlink = 0 BY <3>1, <3>3, FreshIs DEF Type
    <3>5. View'[dp[q]] = View[dp[q]] BY <2>2, <3>2 DEF Changes
    <3>6. ~ Holds(p, i) /\ ~ InFile(i) BY <2>2, <3>1, <3>3
    <3>7. View'[i] = View[i] /\ copy'[i] = NotRead /\ ~ InFile(i)' /\ ~ Holds(p, i)'
      BY <3>1, <3>3, <3>4, <3>6, <3>12 DEF Goes, Changes
    <3>8. \A r \in Procs \ {q} : ~ Holds(r, i)' BY <3>1, <3>3, <3>7, OthersHold
    <3>9. /\ Type(q)' = Type(q) /\ Name(q)' = Name(q) /\ ip'[q] = i /\ dp'[q] = dp[q]
          /\ cwd'[q] = cwd[q]
      BY <2>2, <3>3, OthersHold
    <3> HIDE DEF Type, Name
    <3>10. /\ View'[ip'[q]] = Fresh(Type(q)') /\ copy'[ip'[q]] = NotRead
           /\ Name(q)' \notin DOMAIN View'[dp'[q]].ents
           /\ cwd'[q] # ip'[q] /\ dp'[q] # ip'[q]
      BY <3>1, <3>3, <3>5, <3>7, <3>9
    <3>11. ~ InFile(ip[q])' /\ \A r \in Procs \ {q} : ~ Holds(r, ip[q])' BY <3>7, <3>8, <3>9
    <3> QED BY <3>10, <3>11 DEF NewAlone
  <2>3. CASE q # p /\ pc[q] # "new" BY <2>3, OthersHold DEF NewAlone
  <2> QED BY <2>1, <2>2, <2>3
<1> QED BY <1>2, <1>3, <1>4 DEF Sound, Reaching

\* A step that only reads and recycles.
LEMMA QuietSound ==
  ASSUME Core, Core', Sound, View' = View, NEW p \in Procs, Others(p), SameBusy(p), Goes(p),
         durable' = durable, PendsLess(p)
  PROVE  Sound'
<1>1. Typed /\ Typed' BY DEF Core
<1>2. Counted'
  <2>1. ASSUME NEW i \in Inums PROVE View'[i].nlink >= Links(i)' + Cardinality(Pending(i))'
    <3>1. View[i].nlink >= Links(i) + Cardinality(Pending(i)) /\ View[i].nlink \in Int
      BY <1>1, InodeIs DEF Sound, Counted, IsInode
    <3>2. Links(i)' = Links(i) BY DEF Links
    <3>3. Cardinality(Pending(i))' <= Cardinality(Pending(i)) /\ Cardinality(Pending(i))' \in Int
      <4>1. Pending(i)' \subseteq Pending(i) BY OthersHold DEF Pending, PendsLess
      <4> QED BY <1>1, <4>1, LinksAre, FS_Subset, FS_CardinalityType
    <3> QED BY <1>1, <3>1, <3>2, <3>3, LinksAre
  <2> QED BY <2>1 DEF Counted
<1>3. Tree(View)' /\ Changes(p)
  <2>1. Tree(View)' BY DEF Sound
  <2>2. ASSUME NEW i \in Inums
        PROVE  /\ View'[i] = View[i] /\ View'[i].type = View[i].type
               /\ HasEntries(i) => HasEntries(i)'
               /\ Freeing(p, i)' => Freeing(p, i)
    BY DEF HasEntries, SameBusy
  <2>3. Changes(p) BY <2>2 DEF Changes
  <2> QED BY <2>1, <2>3
<1>4. NewAlone(p)' BY DEF NewAlone, PendsLess
<1> QED BY <1>2, <1>3, <1>4, SoundKept

\* The inductive invariant.
Good == Core /\ (strayed \/ Sound)

\* A step that writes no inode keeps it, when p takes only what may be taken.
LEMMA QuietGood ==
  ASSUME Good, Typed', NEW p \in Procs, Others(p), Kept, durable' = durable, Shape(p)',
         LocksMove(p), OwnLocks(p)', \A i \in Inums : Apart(p, i)', SameBusy(p), UnlinksOwn(p)',
         RefsOK', FilesOK', strayed => strayed', PendsLess(p), Sound => strayed' \/ Goes(p)
  PROVE  Good'
<1>1. Core /\ Core' /\ View' = View BY QuietKeeps DEF Good
<1>2. ASSUME ~ strayed' PROVE Sound' BY <1>1, <1>2, QuietSound DEF Good
<1> QED BY <1>1, <1>2 DEF Good

\* How a quiet step of p, one that writes no inode, keeps Good: the counters stay
\* counters; p takes a free lock of an inode that it has read, or leaves a lock; a
\* reference comes with, or goes from, one of p's places.
Counters == ref \in [Inums -> Int] /\ lock \in [Inums -> Procs \cup {Nobody}]
LocksStep(p) ==
  \A i \in Inums : \/ lock'[i] = lock[i]
                   \/ lock'[i] = p /\ lock[i] = Nobody /\ copy'[i] # NotRead
                   \/ lock'[i] = Nobody /\ lock[i] = p

\* Where p goes: what it takes, the directories it comes to, the inodes it reads, and
\* that what it has as a directory is one.
Gets(p) == \A i \in Inums : Holds(p, i)' => Holds(p, i) \/ InFile(i) \/ View[i].nlink >= 1
Comes(p) == \A i \in Inums : Reached(p, i)' => Reached(p, i) \/ HasEntries(i)
Rereads(p) ==
  \A i \in Inums : copy'[i] = copy[i] \/ copy'[i] = NotRead \/ Holds(p, i) \/ InFile(i)
Parents(p) ==
  /\ dp'[p] # None => dp'[p] \in Inums /\ View[dp'[p]].type = "dir"
  /\ pc'[p] \in {"walk", "parent", "giveUp", "linkBad"} /\ ip'[p] # None =>
       ip'[p] \in Inums /\ View[ip'[p]].type # "dir"
OnPath(p) == Gets(p) /\ Comes(p) /\ Rereads(p) /\ Parents(p)

LEMMA QuietStep ==
  ASSUME Good, NEW p \in Procs, Others(p), ProcsTyped', Counters', Kept,
         FilesTyped' /\ active' \subseteq Procs, durable' = durable, Shape(p)', LocksStep(p),
         OwnLocks(p)', \A i \in Inums : Apart(p, i)', SameBusy(p), UnlinksOwn(p)', PendsLess(p),
         SameFiles(p),
         \A k \in Inums : ref'[k] + Mine(p, k) = ref[k] + Mine(p, k)',
         strayed => strayed', Sound => strayed' \/ OnPath(p)
  PROVE  Good'
<1>1. Typed /\ Locks /\ RefsOK /\ FilesOK /\ Shaped BY DEF Good, Core
<1>2. LocksMove(p) BY <1>1, LocksMoveIs DEF LocksStep
<1>3. ASSUME NEW k \in Inums, copy'[k] # NotRead PROVE IsInode(copy'[k])
  BY <1>1, <1>3, InodeIs DEF Kept, Typed, TableTyped
<1>4. Typed' BY <1>1, <1>3 DEF Typed, DiskTyped, TableTyped, Kept, Counters
<1>5. FilesOK' /\ \A i : InFile(i)' <=> InFile(i) BY <1>1, FilesStay
<1>6. RefsOK' BY <1>1, <1>4, RefsStay
<1>7. OnPath(p) => Goes(p) BY <1>5 DEF OnPath, Gets, Comes, Rereads, Parents, Goes
<1> QED BY <1>2, <1>4, <1>5, <1>6, <1>7, QuietGood

\* The calls that the processes make.
LEMMA CallIs ==
  ASSUME NEW c \in Calls
  PROVE  /\ "path" \in DOMAIN c => c.op \in WithPath /\ IsCall(c) /\ c.path.names \in Seq(STRING)
         /\ c.op = "write" => c.n \in Nat
<1>1. CASE c \in [op : {"mkdir", "mknod", "unlink", "chdir"}, path : Paths]
  BY <1>1 DEF Paths, WithPath, IsCall
<1>2. CASE c \in [op : {"open"}, path : Paths, mode : Modes] BY <1>2 DEF Paths, WithPath, IsCall
<1>3. CASE c \in [op : {"link"}, path : Paths, new : Paths] BY <1>3 DEF Paths, WithPath, IsCall
<1>4. CASE c \in [op : {"write"}, n : Nat]
  <2>1. "path" \notin DOMAIN c BY <1>4
  <2> QED BY <1>4, <2>1
<1>5. CASE c \in [op : {"read", "close", "dup"}]
  <2>1. "path" \notin DOMAIN c BY <1>5
  <2> QED BY <1>5, <2>1
<1> QED BY <1>1, <1>2, <1>3, <1>4, <1>5, CallsAssumption

\* Not in a call.
LEMMA NoCallIs == IsCall(NoCall) /\ NoCall.op # "write"
BY DEF IsCall, NoCall, WithPath

-----
\* The file table and the descriptors.
\* An open descriptor leads to a file with an inode.
LEMMA DescriptorIs ==
  ASSUME Typed, FilesOK, NEW p \in Procs, NEW d \in Fds, ofile[p][d] # None
  PROVE  LET f == ofile[p][d] IN
         /\ f \in Files /\ ftable[f].ref >= 1 /\ ftable[f].ref \in Int /\ ftable[f].ip \in Inums
         /\ InFile(ftable[f].ip)
<1> DEFINE f == ofile[p][d]
<1>1. f \in Files BY DEF Typed, FilesTyped
<1>2. DOMAIN Descriptors = Procs \X Fds /\ Descriptors[<<p, d>>] = f /\ <<p, d>> \in Procs \X Fds
  BY DEF Descriptors
<1>3. Count(Descriptors, f) >= 1 /\ Count(Descriptors, f) \in Nat BY <1>2, ProcsFinite, CountIs
<1>4. ftable[f].ref = Count(Descriptors, f) BY <1>1 DEF FilesOK
<1>5. ftable[f].ip \in Inums BY <1>1, <1>3, <1>4 DEF FilesOK
<1> QED BY <1>1, <1>3, <1>4, <1>5 DEF InFile

\* The count of the descriptors when one of them changes.
Sets(p, d, x) == \A q \in Procs, b \in Fds : ofile'[q][b] = IF q = p /\ b = d THEN x
  ELSE ofile[q][b]

\* One descriptor changes.
LEMMA DescriptorChanges ==
  ASSUME NEW p \in Procs, NEW d \in Fds, NEW x, Sets(p, d, x)
  PROVE  \A f : /\ Count(Descriptors, f)' = Count(Descriptors, f) - Is(ofile[p][d], f) + Is(x, f)
                /\ Count(Descriptors, f) \in Int
<1>2. DOMAIN Descriptors = Procs \X Fds /\ DOMAIN Descriptors' = Procs \X Fds BY DEF Descriptors
<1>3. Descriptors[<<p, d>>] = ofile[p][d] /\ Descriptors'[<<p, d>>] = x /\ <<p, d>> \in Procs \X Fds
  BY DEF Descriptors, Sets
<1>4. \A y \in (Procs \X Fds) \ {<<p, d>>} : Descriptors'[y] = Descriptors[y]
  BY DEF Descriptors, Sets
<1>5. IsFiniteSet(Procs \X Fds) BY ProcsFinite
<1>6. ASSUME NEW f
      PROVE  /\ Count(Descriptors, f)' = Count(Descriptors, f) - Is(ofile[p][d], f) + Is(x, f)
             /\ Count(Descriptors, f) \in Int
  BY <1>2, <1>3, <1>4, <1>5, CountChanges
<1> QED BY <1>6

\* One entry of the file table changes: it may refer to another inode.
LEMMA FileRefChanges ==
  ASSUME Typed, NEW f \in Files, NEW r, NEW i, \A g \in Files \ {f} : ftable'[g] = ftable[g],
         ftable'[f].ref = r, ftable'[f].ip = i, NEW k
  PROVE  Count(FileRef, k)' = Count(FileRef,
    k) - Is(IF ftable[f].ref > 0 THEN ftable[f].ip ELSE None, k)
                              + Is(IF r > 0 THEN i ELSE None, k)
<1>1. DOMAIN FileRef = Files /\ DOMAIN FileRef' = Files
        /\ \A g \in Files \ {f} : FileRef'[g] = FileRef[g]
  BY DEF FileRef
<1>2. /\ FileRef[f] = IF ftable[f].ref > 0 THEN ftable[f].ip ELSE None
      /\ FileRef'[f] = IF r > 0 THEN i ELSE None
  BY DEF FileRef
<1> QED BY <1>1, <1>2, ProcsFinite, CountChanges

\* The entries of the file table and the descriptors are numbers.
LEMMA FilesAre ==
  /\ None \notin Files /\ Files \subseteq Nat /\ Fds \subseteq Nat
  /\ \A f \in Files : Is(None, f) = 0
<1>1. None \notin Files /\ Files \subseteq Nat /\ Fds \subseteq Nat
  BY SizesAssumption DEF Files, Fds, None
<1> QED BY <1>1 DEF Is

\* filealloc() and fdalloc() of sys_open().
LEMMA OpenFiles ==
  ASSUME Typed, FilesOK, NEW p \in Procs, Others(p), NEW i \in Inums,
         FreeFiles # {}, FreeFds(p) # {}, NEW r \in BOOLEAN, NEW w \in BOOLEAN,
         ftable' = [ftable EXCEPT ![Min(FreeFiles)] =
                     [ref |-> 1, ip |-> i, off |-> 0, readable |-> r, writable |-> w]],
         ofile' = [ofile EXCEPT ![p][Min(FreeFds(p))] = Min(FreeFiles)],
         cwd' = cwd, call' = call, pc'[p] = "truncating" => ip'[p] = i
  PROVE  /\ FilesOK' /\ FilesTyped'
         /\ \A k \in Inums : Count(FileRef, k)' = Count(FileRef, k) - Is(None, k) + Is(i, k)
         /\ \A k \in Inums : InFile(k)' => InFile(k) \/ k = i
<1> DEFINE f == Min(FreeFiles)
           d == Min(FreeFds(p))
<1>1. f \in Files /\ ftable[f].ref = 0 /\ d \in Fds /\ ofile[p][d] = None
  <2>1. FreeFiles \in SUBSET Nat /\ FreeFds(p) \in SUBSET Nat BY FilesAre DEF FreeFiles, FreeFds
  <2>2. f \in FreeFiles /\ d \in FreeFds(p) BY <2>1, MinIs
  <2> HIDE DEF f, d
  <2> QED BY <2>2 DEF FreeFiles, FreeFds
<1> HIDE DEF f, d
<1>2. /\ ftable' = [ftable EXCEPT ![f] = [ref |-> 1, ip |-> i, off |-> 0, readable |-> r,
           writable |-> w]]
      /\ ofile' = [ofile EXCEPT ![p][d] = f]
  BY DEF f, d
<1>3. FilesTyped'
  <2>1. [ref |-> 1, ip |-> i, off |-> 0, readable |-> r, writable |-> w] \in FileIs
    BY DEF FileIs
  <2>2. ftable' \in [Files -> FileIs] BY <1>1, <1>2, <2>1 DEF Typed, FilesTyped
  <2>4. [ofile[p] EXCEPT ![d] = f] \in [Fds -> Files \cup {None}] BY <1>1 DEF Typed, FilesTyped
  <2>5. ofile' = [ofile EXCEPT ![p] = [ofile[p] EXCEPT ![d] = f]] BY <1>2
  <2> DEFINE g == [ofile[p] EXCEPT ![d] = f]
  <2> HIDE DEF g
  <2>3. ofile' \in [Procs -> [Fds -> Files \cup {None}]] BY <2>4, <2>5 DEF Typed, FilesTyped, g
  <2> QED BY <2>2, <2>3 DEF Typed, FilesTyped
<1>4. /\ \A g : Count(Descriptors, g)' = Count(Descriptors, g) - Is(None, g) + Is(f, g)
      /\ \A q \in Procs, b \in Fds : ofile'[q][b] = IF q = p /\ b = d THEN f ELSE ofile[q][b]
  <2>1. \A q \in Procs, b \in Fds : ofile'[q][b] = IF q = p /\ b = d THEN f ELSE ofile[q][b]
    BY <1>1, <1>2 DEF Typed, FilesTyped
  <2>3. Sets(p, d, f) /\ d \in Fds BY <1>1, <2>1 DEF Sets
  <2>2. \A g : /\ Count(Descriptors, g)' = Count(Descriptors, g) - Is(ofile[p][d], g) + Is(f, g)
               /\ Count(Descriptors, g) \in Int
    BY <2>3, DescriptorChanges
  <2> QED BY <1>1, <2>1, <2>2
<1>5. /\ \A g \in Files \ {f} : ftable'[g] = ftable[g]
      /\ ftable'[f].ref = 1 /\ ftable'[f].ip = i
  BY <1>1, <1>2 DEF Typed, FilesTyped
<1>6. \A k \in Inums : Count(FileRef, k)' = Count(FileRef, k) - Is(None, k) + Is(i, k)
  BY <1>1, <1>5, FileRefChanges
<1>7. Count(Descriptors, f) = 0 BY <1>1 DEF FilesOK
<1>8. \A q \in Procs, b \in Fds : ofile[q][b] # f
  <2>1. ASSUME NEW q \in Procs, NEW b \in Fds, ofile[q][b] = f PROVE FALSE
    BY <2>1, <1>1, FilesAre, DescriptorIs
  <2> QED BY <2>1
<1>9. ASSUME NEW g \in Files PROVE ftable'[g].ref = Count(Descriptors, g)'
  <2>1. ftable[g].ref = Count(Descriptors, g) /\ ftable[g].ref \in Int /\ Is(None, g) = 0
    BY FilesAre DEF FilesOK, Typed, FilesTyped, FileIs
  <2>2. CASE g = f BY <1>4, <1>5, <1>7, <2>1, <2>2, IsAre
  <2>3. CASE g # f
    <3>1. Is(f, g) = 0 /\ ftable'[g].ref = ftable[g].ref BY <1>5, <2>3 DEF Is
    <3>2. Count(Descriptors, g)' = Count(Descriptors, g) - Is(None, g) + Is(f, g) BY <1>4
    <3> QED BY <2>1, <3>1, <3>2
  <2> QED BY <2>2, <2>3
<1>10. ASSUME NEW g \in Files, ftable'[g].ref > 0 PROVE ftable'[g].ip \in Inums
  BY <1>5, <1>10 DEF FilesOK
<1>11. ASSUME NEW q \in Procs, call'[q].op = "write" PROVE \E b \in Fds : ofile'[q][b] = call'[q].f
  <2>1. PICK b \in Fds : ofile[q][b] = call[q].f BY <1>11 DEF FilesOK
  <2>2. call[q].f \in Files BY <1>11 DEF Typed, ProcsTyped, IsCall
  <2> QED BY <1>1, <1>4, <2>1, <2>2, FilesAre
<1>12. ASSUME NEW q \in Procs, pc'[q] = "truncating"
       PROVE  \E b \in Fds : ofile'[q][b] # None /\ ftable'[ofile'[q][b]].ip = ip'[q]
  <2>1. CASE q = p BY <1>1, <1>4, <1>5, <1>12, <2>1, FilesAre
  <2>2. CASE q # p
    <3>1. pc[q] = "truncating" /\ ip'[q] = ip[q] BY <1>12, <2>2 DEF Others
    <3>2. PICK b \in Fds : ofile[q][b] # None /\ ftable[ofile[q][b]].ip = ip[q]
      BY <3>1 DEF FilesOK
    <3>3. ofile[q][b] \in Files \ {f} BY <1>8, <3>2 DEF Typed, FilesTyped
    <3> QED BY <1>4, <1>5, <2>2, <3>1, <3>2, <3>3
  <2> QED BY <2>1, <2>2
<1>13. \A k \in Inums : InFile(k)' => InFile(k) \/ k = i BY <1>5 DEF InFile
<1> QED BY <1>3, <1>6, <1>9, <1>10, <1>11, <1>12, <1>13 DEF FilesOK

\* sys_dup().
LEMMA DupFiles ==
  ASSUME Typed, FilesOK, NEW p \in Procs, NEW d \in Fds, ofile[p][d] # None, FreeFds(p) # {},
         ofile' = [ofile EXCEPT ![p][Min(FreeFds(p))] = ofile[p][d]],
         ftable' = [ftable EXCEPT ![ofile[p][d]].ref = @ + 1],
         cwd' = cwd, call' = call, pc' = pc, ip' = ip
  PROVE  /\ FilesOK' /\ FilesTyped'
         /\ \A k \in Inums : Count(FileRef, k)' = Count(FileRef, k) - Is(None, k) + Is(None, k)
         /\ \A k \in Inums : InFile(k)' => InFile(k)
<1> DEFINE f == ofile[p][d]
           b == Min(FreeFds(p))
<1>1. b \in Fds /\ ofile[p][b] = None
  <2>1. FreeFds(p) \in SUBSET Nat BY FilesAre DEF FreeFds
  <2>2. b \in FreeFds(p) BY <2>1, MinIs
  <2> HIDE DEF b
  <2> QED BY <2>2 DEF FreeFds
<1>2. f \in Files /\ ftable[f].ref >= 1 /\ ftable[f].ref \in Int /\ ftable[f] \in FileIs
  BY DescriptorIs DEF Typed, FilesTyped
<1>3. ofile' = [ofile EXCEPT ![p][b] = f] /\ ftable' = [ftable EXCEPT ![f].ref = @ + 1] OBVIOUS
<1>0. f # None OBVIOUS
<1> HIDE DEF f, b
<1>4. FilesTyped'
  <2>1. [ftable[f] EXCEPT !.ref = @ + 1] \in FileIs BY <1>2 DEF FileIs
  <2>2. ftable' \in [Files -> FileIs] BY <1>2, <1>3, <2>1 DEF Typed, FilesTyped
  <2>4. [ofile[p] EXCEPT ![b] = f] \in [Fds -> Files \cup {None}]
    BY <1>1, <1>2 DEF Typed, FilesTyped
  <2>5. ofile' = [ofile EXCEPT ![p] = [ofile[p] EXCEPT ![b] = f]] BY <1>3
  <2> DEFINE g == [ofile[p] EXCEPT ![b] = f]
  <2> HIDE DEF g
  <2>3. ofile' \in [Procs -> [Fds -> Files \cup {None}]] BY <2>4, <2>5 DEF Typed, FilesTyped, g
  <2> QED BY <2>2, <2>3 DEF Typed, FilesTyped
<1>5. /\ \A g : Count(Descriptors, g)' = Count(Descriptors, g) - Is(None, g) + Is(f, g)
      /\ \A q \in Procs, e \in Fds : ofile'[q][e] = IF q = p /\ e = b THEN f ELSE ofile[q][e]
  <2>1. \A q \in Procs, e \in Fds : ofile'[q][e] = IF q = p /\ e = b THEN f ELSE ofile[q][e]
    BY <1>1, <1>3 DEF Typed, FilesTyped
  <2>3. Sets(p, b, f) /\ b \in Fds BY <1>1, <2>1 DEF Sets
  <2>2. \A g : /\ Count(Descriptors, g)' = Count(Descriptors, g) - Is(ofile[p][b], g) + Is(f, g)
               /\ Count(Descriptors, g) \in Int
    BY <2>3, DescriptorChanges
  <2> QED BY <1>1, <2>1, <2>2
<1>6. /\ \A g \in Files \ {f} : ftable'[g] = ftable[g]
      /\ ftable'[f].ref = ftable[f].ref + 1 /\ \A g \in Files : ftable'[g].ip = ftable[g].ip
  BY <1>2, <1>3 DEF Typed, FilesTyped, FileIs
<1>7. FileRef' = FileRef /\ \A k \in Inums : InFile(k)' => InFile(k)
  BY <1>2, <1>6 DEF FileRef, InFile
<1>8. ASSUME NEW g \in Files PROVE ftable'[g].ref = Count(Descriptors, g)'
  <2>1. ftable[g].ref = Count(Descriptors, g) /\ ftable[g].ref \in Int /\ Is(None, g) = 0
    BY FilesAre DEF FilesOK, Typed, FilesTyped, FileIs
  <2>2. CASE g = f BY <1>5, <1>6, <2>1, <2>2, IsAre
  <2>3. CASE g # f
    <3>1. Is(f, g) = 0 /\ ftable'[g].ref = ftable[g].ref BY <1>6, <2>3 DEF Is
    <3>2. Count(Descriptors, g)' = Count(Descriptors, g) - Is(None, g) + Is(f, g) BY <1>5
    <3> QED BY <2>1, <3>1, <3>2
  <2> QED BY <2>2, <2>3
<1>9. ASSUME NEW g \in Files, ftable'[g].ref > 0 PROVE ftable'[g].ip \in Inums
  BY <1>2, <1>6, <1>9 DEF FilesOK
<1>10. ASSUME NEW q \in Procs, call'[q].op = "write" PROVE \E e \in Fds : ofile'[q][e] = call'[q].f
  <2>1. PICK e \in Fds : ofile[q][e] = call[q].f BY <1>10 DEF FilesOK
  <2>2. call[q].f \in Files BY <1>10 DEF Typed, ProcsTyped, IsCall
  <2> QED BY <1>1, <1>5, <2>1, <2>2, FilesAre
<1>11. ASSUME NEW q \in Procs, pc'[q] = "truncating"
       PROVE  \E e \in Fds : ofile'[q][e] # None /\ ftable'[ofile'[q][e]].ip = ip'[q]
  <2>1. PICK e \in Fds : ofile[q][e] # None /\ ftable[ofile[q][e]].ip = ip[q]
    BY <1>11 DEF FilesOK
  <2>2. ofile[q][e] \in Files /\ ofile'[q][e] = ofile[q][e]
    BY <1>1, <1>5, <2>1 DEF Typed, FilesTyped
  <2> QED BY <1>6, <2>1, <2>2
<1>12. ASSUME NEW k \in Inums
         PROVE Count(FileRef, k)' = Count(FileRef, k) - Is(None, k) + Is(None, k)
  <2>1. Count(FileRef, k)' = Count(FileRef, k) BY <1>7 DEF Count
  <2> QED BY <2>1, IsAre, CountsAre
<1> QED BY <1>4, <1>7, <1>8, <1>9, <1>10, <1>11, <1>12 DEF FilesOK

\* fileclose(): `from' is the inode of the file when this is its last descriptor.
LEMMA CloseFiles ==
  ASSUME Typed, FilesOK, NEW p \in Procs, NEW d \in Fds, ofile[p][d] # None, Others(p),
         ofile' = [ofile EXCEPT ![p][d] = None], cwd' = cwd, call' = call,
         call[p].op # "write", pc'[p] # "truncating",
         LET f == ofile[p][d] IN
         ftable' = IF ftable[f].ref > 1 THEN [ftable EXCEPT ![f].ref = @ - 1]
                                        ELSE [ftable EXCEPT ![f] = NoFile]
  PROVE  LET f == ofile[p][d]
             from == IF ftable[f].ref > 1 THEN None ELSE ftable[f].ip IN
         /\ FilesOK' /\ FilesTyped'
         /\ \A k \in Inums : Count(FileRef, k)' = Count(FileRef, k) - Is(from, k) + Is(None, k)
         /\ \A k \in Inums : InFile(k)' => InFile(k)
<1> DEFINE f == ofile[p][d]
           from == IF ftable[f].ref > 1 THEN None ELSE ftable[f].ip
           file == IF ftable[f].ref > 1 THEN [ftable[f] EXCEPT !.ref = @ - 1] ELSE NoFile
<1>1. f \in Files /\ ftable[f].ref >= 1 /\ ftable[f].ref \in Int /\ ftable[f] \in FileIs
        /\ ftable[f].ip \in Inums
  BY DescriptorIs DEF Typed, FilesTyped
<1>2. ofile' = [ofile EXCEPT ![p][d] = None] /\ ftable' = [ftable EXCEPT ![f] = file]
  BY <1>1 DEF Typed, FilesTyped
<1>3. /\ file \in FileIs /\ file.ref = ftable[f].ref - 1
      /\ file.ref > 0 => file.ip = ftable[f].ip
  <2>1. CASE ftable[f].ref > 1 BY <1>1, <2>1 DEF FileIs
  <2>2. CASE ~ ftable[f].ref > 1
    <3>1. NoFile \in FileIs /\ NoFile.ref = 0 BY DEF NoFile, FileIs
    <3> QED BY <1>1, <2>2, <3>1
  <2> QED BY <2>1, <2>2
<1>4. ofile[p][d] = f /\ f # None OBVIOUS
<1>15. ftable[f].ref > 1 => file.ip = ftable[f].ip BY <1>1, <1>3
<1> HIDE DEF f, file
<1>5. FilesTyped'
  <2>1. ftable' \in [Files -> FileIs] BY <1>1, <1>2, <1>3 DEF Typed, FilesTyped
  <2>2. ofile' \in [Procs -> [Fds -> Files \cup {None}]] BY <1>2 DEF Typed, FilesTyped
  <2> QED BY <2>1, <2>2 DEF Typed, FilesTyped
<1>6. /\ \A g : Count(Descriptors, g)' = Count(Descriptors, g) - Is(f, g) + Is(None, g)
      /\ \A q \in Procs, b \in Fds : ofile'[q][b] = IF q = p /\ b = d THEN None ELSE ofile[q][b]
  <2>1. \A q \in Procs, b \in Fds : ofile'[q][b] = IF q = p /\ b = d THEN None ELSE ofile[q][b]
    BY <1>2 DEF Typed, FilesTyped
  <2>3. Sets(p, d, None) /\ d \in Fds BY <1>1, <2>1 DEF Sets
  <2>2. \A g : /\ Count(Descriptors, g)' = Count(Descriptors, g) - Is(ofile[p][d], g) + Is(None, g)
               /\ Count(Descriptors, g) \in Int
    BY <2>3, DescriptorChanges
  <2> QED BY <1>4, <2>1, <2>2
<1>7. (\A g \in Files \ {f} : ftable'[g] = ftable[g]) /\ ftable'[f] = file
  BY <1>1, <1>2 DEF Typed, FilesTyped
<1>8. \A k \in Inums : Count(FileRef, k)' = Count(FileRef, k) - Is(from, k) + Is(None, k)
  <2>1. ASSUME NEW k \in Inums
          PROVE Count(FileRef, k)' = Count(FileRef, k) - Is(from, k) + Is(None, k)
    <3>1. Count(FileRef, k)' = Count(FileRef,
            k) - Is(IF ftable[f].ref > 0 THEN ftable[f].ip ELSE None, k)
                               + Is(IF file.ref > 0 THEN file.ip ELSE None, k)
      <4>1. f \in Files /\ ftable'[f].ref = file.ref /\ ftable'[f].ip = file.ip BY <1>1, <1>7
      <4> QED BY <1>7, <4>1, FileRefChanges
    <3>2. \A x : Is(x, k) \in Int BY IsAre
    <3>3. Count(FileRef, k) \in Int BY CountsAre
    <3>4. CASE ftable[f].ref > 1 BY <1>1, <1>3, <3>1, <3>2, <3>3, <3>4
    <3>5. CASE ~ ftable[f].ref > 1 BY <1>1, <1>3, <3>1, <3>2, <3>3, <3>5
    <3> QED BY <3>4, <3>5
  <2> QED BY <2>1
<1>9. ASSUME NEW g \in Files PROVE ftable'[g].ref = Count(Descriptors, g)'
  <2>1. ftable[g].ref = Count(Descriptors, g) /\ ftable[g].ref \in Int /\ Is(None, g) = 0
    BY FilesAre DEF FilesOK, Typed, FilesTyped, FileIs
  <2>2. CASE g = f BY <1>3, <1>6, <1>7, <2>1, <2>2, IsAre
  <2>3. CASE g # f
    <3>1. Is(f, g) = 0 /\ ftable'[g].ref = ftable[g].ref BY <1>7, <2>3 DEF Is
    <3>2. Count(Descriptors, g)' = Count(Descriptors, g) - Is(f, g) + Is(None, g) BY <1>6
    <3> QED BY <2>1, <3>1, <3>2
  <2> QED BY <2>2, <2>3
<1>10. ASSUME NEW g \in Files, ftable'[g].ref > 0 PROVE ftable'[g].ip \in Inums
  BY <1>1, <1>3, <1>7, <1>10 DEF FilesOK
<1>11. ASSUME NEW q \in Procs, call'[q].op = "write" PROVE \E b \in Fds : ofile'[q][b] = call'[q].f
  <2>1. PICK b \in Fds : ofile[q][b] = call[q].f BY <1>11 DEF FilesOK
  <2> QED BY <1>6, <1>11, <2>1
<1>12. ASSUME NEW q \in Procs, pc'[q] = "truncating"
       PROVE  \E b \in Fds : ofile'[q][b] # None /\ ftable'[ofile'[q][b]].ip = ip'[q]
  <2>1. q # p BY <1>12
  <2>2. pc[q] = "truncating" /\ ip'[q] = ip[q] BY <1>12, <2>1 DEF Others
  <2>3. PICK b \in Fds : ofile[q][b] # None /\ ftable[ofile[q][b]].ip = ip[q]
    BY <2>2 DEF FilesOK
  <2>4. ofile[q][b] \in Files /\ ofile'[q][b] = ofile[q][b]
    BY <1>6, <2>1, <2>3 DEF Typed, FilesTyped
  <2>5. ofile[q][b] = f => ftable[f].ref > 1
    <3>1. SUFFICES ASSUME ofile[q][b] = f, ~ ftable[f].ref > 1 PROVE FALSE OBVIOUS
    <3>2. Count(Descriptors, f) <= 1 BY <1>1, <3>1 DEF FilesOK
    <3>3. /\ DOMAIN Descriptors = Procs \X Fds /\ <<p, d>> \in Procs \X Fds
          /\ <<q, b>> \in Procs \X Fds
          /\ Descriptors[<<p, d>>] = f /\ Descriptors[<<q, b>>] = f
      BY <1>4, <3>1 DEF Descriptors
    <3>4. <<p, d>> = <<q, b>> BY <3>2, <3>3, ProcsFinite, CountOne
    <3> QED BY <2>1, <3>4
  <2> QED BY <1>7, <1>15, <2>2, <2>3, <2>4, <2>5
<1>13. \A k \in Inums : InFile(k)' => InFile(k) BY <1>1, <1>3, <1>7 DEF InFile
<1> QED BY <1>5, <1>8, <1>9, <1>10, <1>11, <1>12, <1>13 DEF FilesOK, f, from

-----
\* Steps that write inodes.
\* p writes the inodes of `new', and with them the bitmap `used'.
Writes(p, new, used) ==
  /\ UpdatesWith(new, used) /\ used \in SUBSET Blocks
  /\ \A i \in DOMAIN new : /\ i \in Inums /\ IsInode(new[i]) /\ new[i].type # "free"
                           /\ lock[i] \in {p, Nobody}

\* p has nothing in memory that it has not written.
Idle(p) == \A i \in Inums : ~ Freeing(p, i) /\ ~ Truncates(p, i)

\* iupdate() leaves the bitmap.
LEMMA UpdatesAre ==
  ASSUME Typed, NEW new, Updates(new)
  PROVE  UpdatesWith(new, disk.used)
BY DEF Typed, DiskTyped, IsDisk, Updates, UpdatesWith

\* What log_write() puts in the buffer cache is what everybody sees.
LEMMA WrittenView ==
  ASSUME Typed, NEW p \in Procs, NEW new, NEW used, Writes(p, new, used)
  PROVE  /\ IsDisk(disk') /\ disk'.used = used /\ copy' = [i \in Inums |-> copy'[i]]
         /\ \A i \in Inums : copy'[i] # NotRead => IsInode(copy'[i])
         /\ \A i \in Inums : View'[i] = IF i \in DOMAIN new THEN new[i] ELSE View[i]
         /\ \A i \in Inums : IF i \in DOMAIN new
                               THEN copy'[i] = new[i] /\ copy'[i] # NotRead /\ disk'.ino[i] = new[i]
                               ELSE copy'[i] = copy[i] /\ disk'.ino[i] = disk.ino[i]
<1>1. /\ disk' = [ino  |-> [i \in Inums |-> IF i \in DOMAIN new THEN new[i] ELSE disk.ino[i]],
                  used |-> used]
      /\ copy' = [i \in Inums |-> IF i \in DOMAIN new THEN new[i] ELSE copy[i]]
  BY DEF Writes, UpdatesWith
<1>2. /\ disk'.ino = [i \in Inums |-> IF i \in DOMAIN new THEN new[i] ELSE disk.ino[i]]
      /\ disk'.used = used /\ disk' = [ino |-> disk'.ino, used |-> disk'.used]
  BY <1>1
<1>3. ASSUME NEW i \in Inums
      PROVE  IF i \in DOMAIN new
               THEN copy'[i] = new[i] /\ copy'[i] # NotRead /\ disk'.ino[i] = new[i]
                 /\ IsInode(new[i])
               ELSE copy'[i] = copy[i] /\ disk'.ino[i] = disk.ino[i]
  BY <1>1, <1>2, NotReadIs DEF Writes
<1>4. ASSUME NEW i \in Inums PROVE Inode(i)' = IF i \in DOMAIN new THEN new[i] ELSE Inode(i)
  BY <1>3 DEF Inode
<1>5. \A i \in Inums : IsInode(disk'.ino[i]) BY <1>3 DEF Typed, DiskTyped, IsDisk
<1>6. IsDisk(disk') BY <1>2, <1>5 DEF IsDisk, Writes
<1>7. \A i \in Inums : copy'[i] # NotRead => IsInode(copy'[i]) BY <1>3 DEF Typed, TableTyped
<1> QED BY <1>1, <1>2, <1>3, <1>4, <1>6, <1>7 DEF View

\* It is on disk, too.
LEMMA WritesCoherent ==
  ASSUME Typed, Locks, Coherent, NEW p \in Procs, Others(p), Idle(p), Idle(p)',
         NEW new, NEW used, Writes(p, new, used)
  PROVE  Coherent'
<1>1. ASSUME NEW i \in DOMAIN new PROVE ~ Busy(i)
  <2>1. ASSUME NEW q \in Procs, Freeing(q, i) \/ Truncates(q, i) PROVE FALSE
    <3>1. i \in Inums /\ lock[i] \in {p, Nobody} BY DEF Writes
    <3>2. lock[i] = q BY <2>1, <3>1 DEF Locks, HoldsLock, Truncates, LocksIp
    <3> QED BY <2>1, <3>1, <3>2, ProcsAssumption DEF Idle
  <2> QED BY <2>1 DEF Busy
<1>2. ASSUME NEW q \in Procs, NEW i \in Inums
      PROVE  (Freeing(q, i)' <=> Freeing(q, i)) /\ (Truncates(q, i)' <=> Truncates(q, i))
  BY DEF Others, Idle, Freeing, Truncates
<1>3. \A i \in Inums : /\ Busy(i)' <=> Busy(i)
                       /\ (\E q \in Procs : Freeing(q, i)') <=> \E q \in Procs : Freeing(q, i)
  BY <1>2 DEF Busy
<1>4. \A i \in Inums : (\E q \in Procs : Freeing(q, i)) => Busy(i) BY DEF Busy
<1>5. ASSUME NEW i \in Inums
      PROVE  /\ copy'[i] # NotRead =>
                  /\ copy'[i].type = disk'.ino[i].type /\ copy'[i].type # "free"
                  /\ copy'[i] = disk'.ino[i] \/ Busy(i)'
             /\ (\E q \in Procs : Freeing(q, i)') => copy'[i].addrs = <<>>
                  /\ copy'[i].ents = NoEntry
  <2>1. CASE i \in DOMAIN new
    <3>1. copy'[i] = new[i] /\ disk'.ino[i] = new[i] /\ new[i].type # "free"
      BY <2>1, WrittenView DEF Writes
    <3> QED BY <1>1, <1>3, <1>4, <2>1, <3>1
  <2>2. CASE i \notin DOMAIN new
    <3>1. copy'[i] = copy[i] /\ disk'.ino[i] = disk.ino[i] BY <2>2, WrittenView
    <3> QED BY <1>3, <3>1 DEF Coherent
  <2> QED BY <2>1, <2>2
<1> QED BY <1>5 DEF Coherent

\* A step of p that writes inodes.
LEMMA ChangeGood ==
  ASSUME Good, Typed', NEW p \in Procs, Others(p), NEW new, NEW used, Writes(p, new, used),
         durable' = durable, Shape(p)', OwnLocks(p)', Idle(p), Idle(p)',
         \A i \in Inums : \/ lock'[i] = lock[i]
                          \/ lock'[i] = p /\ i \in DOMAIN new
                          \/ lock'[i] = Nobody /\ lock[i] = p,
         UnlinksOwn(p)', RefsOK', FilesOK', BlocksOwned(View', used), strayed' = strayed,
         Sound => Goes(p) /\ Changes(p) /\ Counted' /\ Tree(View') /\ NewAlone(p)'
  PROVE  Good'
<1>1. Core /\ Typed /\ Shaped /\ Locks /\ Coherent /\ UnlinkOK BY DEF Good, Core
<1>2. Shaped' BY <1>1, ShapedKept
<1>3. /\ \A i \in Inums : View'[i] = IF i \in DOMAIN new THEN new[i] ELSE View[i]
      /\ \A i \in Inums : IF i \in DOMAIN new THEN copy'[i] # NotRead ELSE copy'[i] = copy[i]
      /\ disk'.used = used
  BY <1>1, WrittenView
<1>4. \A i \in DOMAIN new : i \in Inums /\ lock[i] \in {p, Nobody} BY DEF Writes
<1>5. LocksMove(p) BY <1>3, <1>4 DEF LocksMove
<1>6. Locks' BY <1>1, <1>5, LocksKept DEF OwnLocks, Idle
<1>7. Coherent' BY <1>1, WritesCoherent
<1>8. UnlinkOK'
  <2>1. \A i \in Inums : lock[i] \in Procs \ {p} => View'[i] = View[i]
    BY <1>3, <1>4, ProcsAssumption
  <2> QED BY <1>1, <2>1, UnlinkKept
<1>9. BlocksOwned(View, disk.used)' /\ BlocksOwned(durable.ino, durable.used)'
  BY <1>1, <1>3 DEF Core
<1>10. Core' BY <1>2, <1>6, <1>7, <1>8, <1>9 DEF Core
<1>11. ASSUME ~ strayed' PROVE Sound'
  <2>1. Sound BY <1>11 DEF Good
  <2>2. Tree(View)' BY <2>1
  <2> QED BY <1>1, <1>10, <2>1, <2>2, SoundKept
<1> QED BY <1>10, <1>11 DEF Good

\* InodeIs and LinksAre after a step.
LEMMA NextInodes ==
  ASSUME Typed'
  PROVE  /\ Inos(View') /\ \A i \in Inums : View'[i] = Inode(i)' /\ IsInode(View'[i])
         /\ \A i \in Inums : Links(i)' \in Nat
<1>1. Inos(View') /\ \A i \in Inums : View'[i] = Inode(i)' /\ IsInode(View'[i])
  BY NotReadIs DEF Typed, DiskTyped, TableTyped, IsDisk, Inos, View, Inode
<1>2. ASSUME NEW i \in Inums PROVE Links(i)' \in Nat
  <2>1. Cardinality(LinksTo(View', i)) \in Nat BY <1>1, LinksFinite
  <2> QED BY <2>1 DEF Links
<1> QED BY <1>1, <1>2

\* Counted after a step of p, inode by inode.
LEMMA CountedKept ==
  ASSUME Typed, Typed', Counted, NEW p \in Procs, Others(p),
         \A i \in Inums : View'[i].nlink - Links(i)' - (IF Pends(p, i)' THEN 1 ELSE 0)
                            >= View[i].nlink - Links(i) - (IF Pends(p, i) THEN 1 ELSE 0)
  PROVE  Counted'
<1>1. ASSUME NEW i \in Inums PROVE View'[i].nlink >= Links(i)' + Cardinality(Pending(i))'
  <2>1. View[i].nlink >= Links(i) + Cardinality(Pending(i)) BY DEF Counted
  <2>2. View[i].nlink \in Int /\ View'[i].nlink \in Int
    <3>1. IsInode(View[i]) BY InodeIs
    <3>2. IsInode(View'[i]) BY NextInodes
    <3> QED BY <3>1, <3>2 DEF IsInode
  <2>3. Links(i) \in Int /\ Links(i)' \in Int /\ Cardinality(Pending(i)) \in Int
    <3>1. Links(i) \in Nat /\ Cardinality(Pending(i)) \in Nat BY LinksAre
    <3>2. Links(i)' \in Nat BY NextInodes
    <3> QED BY <3>1, <3>2
  <2>4. Cardinality(Pending(i))' = Cardinality(Pending(i)) + (IF Pends(p, i)' THEN 1 ELSE 0)
                                     - (IF Pends(p, i) THEN 1 ELSE 0)
    BY PendingChanges
  <2> QED BY <2>1, <2>2, <2>3, <2>4
<1> QED BY <1>1 DEF Counted

\* A step that leaves types and entries leaves the tree and its links.
LEMMA SameTree ==
  ASSUME Typed, \A i \in Inums : View'[i].ents = View[i].ents /\ View'[i].type = View[i].type
  PROVE  /\ Tree(View) => Tree(View')
         /\ \A i \in Inums : /\ Links(i)' = Links(i) /\ (HasEntries(i) => HasEntries(i)')
                             /\ LinksTo(View, i)' = LinksTo(View, i)
<1>1. Inos(View) BY InodeIs
<1>2. /\ Tree(View) => Tree(View')
      /\ \A i \in Inums : LinksTo(View', i) = LinksTo(View, i)
  BY <1>1, TreeStays
<1> QED BY <1>2 DEF Links, HasEntries

\* ip->nlink++ and ip->nlink--.
LEMMA NlinkIs ==
  ASSUME NEW x, IsInode(x), x.type # "free", NEW n \in Int
  PROVE  \E y : /\ y = [x EXCEPT !.nlink = n] /\ IsInode(y) /\ y.type # "free" /\ y.type = x.type
                /\ y.nlink = n /\ y.addrs = x.addrs /\ y.ents = x.ents
<1>1. LET y == [x EXCEPT !.nlink = n] IN
      /\ IsInode(y) /\ y.type = x.type /\ y.nlink = n /\ y.addrs = x.addrs /\ y.ents = x.ents
  BY CountedIs
<1> DEFINE z == [x EXCEPT !.nlink = n]
<1> HIDE DEF z
<1>2. z = [x EXCEPT !.nlink = n] BY DEF z
<1>3. IsInode(z) /\ z.type = x.type /\ z.nlink = n /\ z.addrs = x.addrs /\ z.ents = x.ents
  BY <1>1, <1>2
<1> QED BY <1>2, <1>3

\* What writing one inode, and two, amounts to.
LEMMA WritesOne ==
  ASSUME Typed, NEW p \in Procs, NEW i \in Inums, NEW y, IsInode(y), y.type # "free",
         lock[i] \in {p, Nobody}, NEW used \in SUBSET Blocks, UpdatesWith(One(i, y), used)
  PROVE  /\ Writes(p, One(i, y), used)
         /\ DOMAIN One(i, y) = {i}
         /\ View'[i] = y
         /\ copy'[i] = y
         /\ \A k \in Inums \ {i} : View'[k] = View[k] /\ copy'[k] = copy[k]
         /\ IsDisk(disk')
         /\ copy' = [k \in Inums |-> copy'[k]]
         /\ \A k \in Inums : copy'[k] # NotRead => IsInode(copy'[k])
<1>1. DOMAIN One(i, y) = {i} /\ One(i, y)[i] = y BY DEF One
<1>2. Writes(p, One(i, y), used) BY <1>1 DEF Writes
<1> QED BY <1>1, <1>2, WrittenView

\* Two inodes.
LEMMA WritesTwo ==
  ASSUME Typed, NEW p \in Procs, NEW i \in Inums, NEW y, IsInode(y), y.type # "free",
         lock[i] \in {p, Nobody}, NEW j \in Inums, j # i, NEW z, IsInode(z), z.type # "free",
         lock[j] \in {p, Nobody}, NEW used \in SUBSET Blocks, UpdatesWith(Two(i, y, j, z), used)
  PROVE  /\ Writes(p, Two(i, y, j, z), used)
         /\ DOMAIN Two(i, y, j, z) = {i, j}
         /\ View'[i] = y
         /\ copy'[i] = y
         /\ View'[j] = z
         /\ copy'[j] = z
         /\ \A k \in Inums \ {i, j} : View'[k] = View[k] /\ copy'[k] = copy[k]
         /\ IsDisk(disk')
         /\ copy' = [k \in Inums |-> copy'[k]]
         /\ \A k \in Inums : copy'[k] # NotRead => IsInode(copy'[k])
<1>1. /\ DOMAIN Two(i, y, j, z) = {i, j} /\ Two(i, y, j, z)[i] = y
      /\ Two(i, y, j, z)[j] = z
  BY DEF Two
<1>2. Writes(p, Two(i, y, j, z), used) BY <1>1 DEF Writes
<1> QED BY <1>1, <1>2, WrittenView

\* p changes an inode that it may write, and makes no directory empty.
Mends(p, i) ==
  /\ Holds(p, i) \/ InFile(i)
  /\ lock[i] \in {p, Nobody}
  /\ View'[i].type = View[i].type
  /\ DOMAIN View[i].ents # {} => DOMAIN View'[i].ents # {}

\* A step that changes only such inodes keeps what Sound needs.
LEMMA ChangesAre ==
  ASSUME NEW p \in Procs, Idle(p)', \A i \in Inums : View'[i] = View[i] \/ Mends(p, i)
  PROVE  Changes(p)
<1>1. ASSUME NEW i \in Inums
      PROVE  /\ View'[i] = View[i] \/ Holds(p, i) \/ InFile(i)
             /\ lock[i] \in Procs \ {p} => View'[i] = View[i]
             /\ View'[i].type = View[i].type
             /\ (HasEntries(i) => HasEntries(i)')
             /\ ~ Freeing(p, i)'
  BY ProcsAssumption DEF Mends, HasEntries, Idle
<1> QED BY <1>1 DEF Changes

\* The links of an inode, and those that p still has to count.
Pend(p, i) == IF Pends(p, i) THEN 1 ELSE 0

\* Without a change of entries.
Touches(p, i) ==
  /\ Holds(p, i) \/ InFile(i)
  /\ lock[i] \in {p, Nobody}
  /\ View'[i].type = View[i].type
  /\ View'[i].ents = View[i].ents
  /\ \A k \in Inums \ {i} : View'[k] = View[k]
  /\ View'[i].nlink - Pend(p, i)' >= View[i].nlink - Pend(p, i)
  /\ \A k \in Inums \ {i} : Pends(p, k)' => Pends(p, k)

\* A step that changes a link count or the data of one inode.
LEMMA SameLinks ==
  ASSUME Typed, Typed', Sound, NEW p \in Procs, Others(p), Idle(p)', pc'[p] # "new",
         NEW i \in Inums, Touches(p, i)
  PROVE  Changes(p) /\ Counted' /\ Tree(View') /\ NewAlone(p)'
<1>1. \A k \in Inums : View'[k].ents = View[k].ents /\ View'[k].type = View[k].type
  BY DEF Touches
<1>2. Tree(View') /\ \A k \in Inums : Links(k)' = Links(k) BY <1>1, SameTree DEF Sound
<1>3. Changes(p) BY <1>1, ChangesAre DEF Mends, Touches
<1>4. ASSUME NEW k \in Inums
      PROVE  View'[k].nlink - Links(k)' - (IF Pends(p, k)' THEN 1 ELSE 0)
               >= View[k].nlink - Links(k) - (IF Pends(p, k) THEN 1 ELSE 0)
  <2>1. View[k].nlink \in Int /\ View'[k].nlink \in Int
    <3>1. IsInode(View[k]) /\ IsInode(View'[k]) BY InodeIs, NextInodes
    <3> QED BY <3>1 DEF IsInode
  <2>2. Links(k) \in Nat BY LinksAre
  <2>3. CASE k = i BY <1>2, <2>1, <2>2, <2>3 DEF Pend, Touches
  <2>4. CASE k # i BY <1>2, <2>1, <2>2, <2>4 DEF Pend, Touches
  <2> QED BY <2>3, <2>4
<1>5. Counted' BY <1>4, CountedKept DEF Sound
<1> QED BY <1>2, <1>3, <1>5 DEF NewAlone

\* What writei() does to an inode; the one that is written keeps the rest.
LEMMA WroteIs ==
  ASSUME NEW x, IsInode(x), x.type # "free", NEW s \in Nat, NEW a \in Seq(Blocks)
  PROVE  \E y : /\ y = [x EXCEPT !.addrs = a, !.size = s]
                /\ IsInode(y)
                /\ y.type # "free"
                /\ y.type = x.type
                /\ y.nlink = x.nlink
                /\ y.addrs = a
                /\ y.ents = x.ents
<1>1. LET y == [x EXCEPT !.addrs = a, !.size = s] IN
      /\ IsInode(y) /\ y.type = x.type /\ y.nlink = x.nlink /\ y.addrs = a /\ y.ents = x.ents
  BY WrittenIs
<1> DEFINE z == [x EXCEPT !.addrs = a, !.size = s]
<1> HIDE DEF z
<1>2. z = [x EXCEPT !.addrs = a, !.size = s] BY DEF z
<1>3. IsInode(z) /\ z.type = x.type /\ z.nlink = x.nlink /\ z.addrs = a /\ z.ents = x.ents
  BY <1>1, <1>2
<1>4. z.type # "free" BY <1>3
<1> QED BY <1>2, <1>3, <1>4

\* addrs[] and size change one after the other.
LEMMA MappedIs ==
  ASSUME NEW x, IsInode(x), NEW a, NEW s
  PROVE  /\ x = [x EXCEPT !.addrs = x.addrs, !.size = x.size]
         /\ [x EXCEPT !.addrs = a] = [x EXCEPT !.addrs = a, !.size = x.size]
         /\ [x EXCEPT !.size = s] = [x EXCEPT !.addrs = x.addrs, !.size = s]
         /\ [[x EXCEPT !.addrs = a] EXCEPT !.size = s] = [x EXCEPT !.addrs = a, !.size = s]
         /\ [x EXCEPT !.addrs = a].size = x.size
BY DEF IsInode

\* One more link is there, that was counted before.
LEMMA LinksGrow ==
  ASSUME Typed, Typed', NEW p \in Procs, NEW i \in Inums, NEW e,
         \A k \in Inums : View'[k].nlink = View[k].nlink,
         SameBut(View, View', {i}), OneMore(View, View', i, e),
         Pend(p, i) = 1, \A k \in Inums : Pend(p, k)' = 0 /\ Pend(p, k) \in {0, 1},
         NEW k \in Inums
  PROVE  View'[k].nlink - Links(k)' - Pend(p, k)' >= View[k].nlink - Links(k) - Pend(p, k)
<1>1. View[k].nlink \in Int /\ Links(k) \in Nat /\ Links(k)' \in Nat
  <2>1. IsInode(View[k]) BY InodeIs
  <2> QED BY <2>1, LinksAre, NextInodes DEF IsInode
<1>2. CASE k # i
  <2>1. Links(k)' = Links(k) BY <1>2 DEF Links, SameBut
  <2> QED BY <1>1, <2>1
<1>3. CASE k = i
  <2>1. IsFiniteSet(LinksTo(View, i)) /\ Cardinality(LinksTo(View, i)) \in Nat
    BY LinksAre DEF Links
  <2>4. \A S, x : IsFiniteSet(S) => Cardinality(S \cup {x}) <= Cardinality(S) + 1
    <3>1. SUFFICES ASSUME NEW S, NEW x, IsFiniteSet(S)
            PROVE Cardinality(S \cup {x}) <= Cardinality(S) + 1
      OBVIOUS
    <3>2. Cardinality(S) \in Nat BY <3>1, FS_CardinalityType
    <3>3. Cardinality(S \cup {x}) = IF x \in S THEN Cardinality(S) ELSE Cardinality(S) + 1
      BY <3>1, FS_AddElement
    <3> QED BY <3>2, <3>3
  <2>2. Cardinality(LinksTo(View', i)) <= Cardinality(LinksTo(View, i)) + 1
    BY <2>1, <2>4 DEF OneMore
  <2>3. Links(k)' <= Links(k) + 1 BY <1>3, <2>2 DEF Links
  <2> QED BY <1>1, <1>3, <2>3
<1> QED BY <1>2, <1>3

\* Fewer links are there: one to i that p is yet to count, and d may lose one with it.
LEMMA LinksShrink ==
  ASSUME Typed, Typed', NEW p \in Procs, NEW i \in Inums, NEW d \in Inums, i # d,
         NEW e \in LinksTo(View, i), NEW c, NoMore(View, View'), OneLess(View, View', i, e),
         \A k \in Inums \ {d} : View'[k].nlink = View[k].nlink,
         \/ View'[d].nlink = View[d].nlink
         \/ View'[d].nlink = View[d].nlink - 1 /\ c \in LinksTo(View, d)
              /\ c \notin LinksTo(View', d),
         \A k \in Inums : Pend(p, k) = 0 /\ Pend(p, k)' = IF k = i THEN 1 ELSE 0,
         NEW k \in Inums
  PROVE  View'[k].nlink - Links(k)' - Pend(p, k)' >= View[k].nlink - Links(k) - Pend(p, k)
<1>1. View[k].nlink \in Int /\ Links(k) \in Nat /\ Links(k)' \in Nat
  <2>1. IsInode(View[k]) BY InodeIs
  <2> QED BY <2>1, LinksAre, NextInodes DEF IsInode
<1>2. IsFiniteSet(LinksTo(View, k)) /\ LinksTo(View', k) \subseteq LinksTo(View, k)
  BY LinksAre DEF NoMore
<1>3. Links(k)' <= Links(k) /\ (Links(k)' = Links(k) => LinksTo(View', k) = LinksTo(View, k))
  <2>1. /\ Cardinality(LinksTo(View', k)) <= Cardinality(LinksTo(View, k))
        /\ Cardinality(LinksTo(View', k)) = Cardinality(LinksTo(View, k))
             => LinksTo(View', k) = LinksTo(View, k)
    BY <1>2, FS_Subset
  <2> QED BY <2>1 DEF Links
<1>4. k = i => Links(k)' # Links(k) BY <1>3 DEF OneLess
<1>5. k = d /\ View'[d].nlink # View[d].nlink => Links(k)' # Links(k) BY <1>3
<1>6. View'[k].nlink = View[k].nlink \/ View'[k].nlink = View[k].nlink - 1 OBVIOUS
<1> QED BY <1>1, <1>3, <1>4, <1>5, <1>6

\* writei() of a chunk leaves y and this bitmap, and moves on to o with n to be written.
ChunkWrites(p, y, used, n, o) ==
  LET i == ftable[call[p].f].ip IN
  /\ IsInode(y) /\ y.type # "free" /\ y.type = Inode(i).type /\ y.nlink = Inode(i).nlink
  /\ y.ents = Inode(i).ents /\ used \in SUBSET Blocks /\ UpdatesWith(One(i, y), used)
  /\ Takes(Inode(i).addrs, disk.used, y.addrs, used)
  /\ n \in Int /\ call' = [call EXCEPT ![p] = [call[p] EXCEPT !.left = n]]
  /\ o \in Nat /\ ftable' = [ftable EXCEPT ![call[p].f].off = o]

\* Two inodes one after the other.
LEMMA TakesOwned ==
  ASSUME NEW a, NEW b, NEW used, NEW more, NEW most, BlocksOwned(a, used),
         NEW i \in Inums, NEW j \in Inums, i # j,
         Takes(a[i].addrs, used, b[i].addrs, more), Takes(a[j].addrs, more, b[j].addrs, most),
         \A k \in Inums \ {i, j} : b[k].addrs = a[k].addrs
  PROVE  BlocksOwned(b, most)
<1>1. PICK N \in SUBSET (Blocks \ used) : more = used \cup N
        /\ Range(b[i].addrs) = Range(a[i].addrs) \cup N
  BY DEF Takes
<1>2. PICK M \in SUBSET (Blocks \ more) : most = more \cup M
        /\ Range(b[j].addrs) = Range(a[j].addrs) \cup M
  BY DEF Takes
<1>3. \A k \in Inums : Range(a[k].addrs) \subseteq used BY DEF BlocksOwned
<1>4. \A k, m \in Inums : k # m => Range(b[k].addrs) \cap Range(b[m].addrs) = {}
  <2>1. \A k, m \in Inums : k # m => Range(a[k].addrs) \cap Range(a[m].addrs) = {}
    BY DEF BlocksOwned
  <2>2. \A k \in Inums \ {i, j} : Range(b[k].addrs) = Range(a[k].addrs) OBVIOUS
  <2>3. ASSUME NEW k \in Inums, NEW m \in Inums, k # m, NEW x \in Range(b[k].addrs),
          x \in Range(b[m].addrs)
        PROVE  FALSE
    <3>1. CASE x \in used
      <4>1. x \in Range(a[k].addrs) /\ x \in Range(a[m].addrs) BY <1>1, <1>2, <2>2, <2>3, <3>1
      <4> QED BY <2>1, <2>3, <4>1
    <3>2. CASE x \in N
      <4>1. k = i /\ m = i BY <1>1, <1>2, <1>3, <2>2, <2>3, <3>2
      <4> QED BY <2>3, <4>1
    <3>3. CASE x \notin used /\ x \notin N
      <4>1. k = j /\ m = j BY <1>1, <1>2, <1>3, <2>2, <2>3, <3>3
      <4> QED BY <2>3, <4>1
    <3> QED BY <3>1, <3>2, <3>3
  <2> QED BY <2>3
<1>5. most = UNION {Range(b[k].addrs) : k \in Inums}
  <2>1. used = UNION {Range(a[k].addrs) : k \in Inums} BY DEF BlocksOwned
  <2>2. ASSUME NEW x \in most PROVE \E k \in Inums : x \in Range(b[k].addrs)
    <3>1. CASE x \in used
      <4>1. PICK k \in Inums : x \in Range(a[k].addrs) BY <2>1, <3>1
      <4> QED BY <1>1, <1>2, <4>1
    <3>2. CASE x \notin used BY <1>1, <1>2, <3>2
    <3> QED BY <3>1, <3>2
  <2>3. ASSUME NEW k \in Inums, NEW x \in Range(b[k].addrs) PROVE x \in most
    BY <1>1, <1>2, <1>3, <2>3
  <2> QED BY <2>2, <2>3
<1> QED BY <1>4, <1>5 DEF BlocksOwned

\* One inode.
LEMMA TakesOneOwned ==
  ASSUME NEW a, NEW b, NEW used, NEW more, BlocksOwned(a, used), NEW i \in Inums,
         Takes(a[i].addrs, used, b[i].addrs, more), \A k \in Inums \ {i} : b[k].addrs = a[k].addrs
  PROVE  BlocksOwned(b, more)
<1>1. PICK N \in SUBSET (Blocks \ used) : more = used \cup N
        /\ Range(b[i].addrs) = Range(a[i].addrs) \cup N
  BY DEF Takes
<1>2. \A k \in Inums : Range(a[k].addrs) \subseteq used BY DEF BlocksOwned
<1>3. \A k \in Inums \ {i} : Range(b[k].addrs) = Range(a[k].addrs) OBVIOUS
<1>4. \A k, m \in Inums : k # m => Range(b[k].addrs) \cap Range(b[m].addrs) = {}
  BY <1>1, <1>2, <1>3 DEF BlocksOwned
<1>5. used = UNION {Range(a[k].addrs) : k \in Inums} BY DEF BlocksOwned
<1>6. ASSUME NEW x \in more PROVE \E k \in Inums : x \in Range(b[k].addrs)
  <2>1. CASE x \in used
    <3>1. PICK k \in Inums : x \in Range(a[k].addrs) BY <1>5, <2>1
    <3> QED BY <1>1, <3>1
  <2>2. CASE x \notin used BY <1>1, <2>2
  <2> QED BY <2>1, <2>2
<1>7. \A k \in Inums : Range(b[k].addrs) \subseteq more BY <1>1, <1>2, <1>3
<1> QED BY <1>4, <1>6, <1>7, Z3 DEF BlocksOwned

\* No name but the dots is new.
OnlyDots(x, y) ==
  \A n \in DOMAIN y.ents \ Dots : n \in DOMAIN x.ents /\ y.ents[n] = x.ents[n]

\* create() turns the inode x into y and the bitmap into `used'.
IsNew(p, x, y, used) ==
  /\ NewInode(p) = [ok |-> NewInode(p).ok, inode |-> y, used |-> used]
  /\ NewInode(p).ok \in BOOLEAN /\ used \in SUBSET Blocks
  /\ IsInode(y) /\ y.type # "free" /\ y.type = x.type /\ y.nlink = 1
  /\ Takes(x.addrs, disk.used, y.addrs, used) /\ OnlyDots(x, y)
  /\ NewInode(p).ok => y.ents = IF Type(p) = "dir"
       THEN Entered(Entered(x.ents, ".", ip[p]), "..", dp[p])
                                                   ELSE x.ents
  /\ ~ NewInode(p).ok /\ x.addrs = <<>> /\ x.ents = NoEntry => y.ents = NoEntry

\* dirlink() makes no name but n.
LEMMA EntersOnly ==
  ASSUME NEW w, NEW n \in Dots, NEW i, NEW v, IsEntered(w, n, i, v)
  PROVE  OnlyDots(w.inode, v.inode)
BY DEF IsEntered, OnlyDots, Entered

\* What create() makes of the inode that ialloc() gave it.
LEMMA NewIs ==
  ASSUME disk.used \in SUBSET Blocks, NEW p, ip[p] \in Inums, dp[p] \in Inums,
         NEW x, x = Inode(ip[p]), IsInode(x), x.type # "free"
  PROVE  \E y, used : IsNew(p, x, y, used)
<1>0. 1 \in Int /\ "." \in STRING /\ ".." \in STRING /\ "." \in Dots /\ ".." \in Dots
  BY DotsAssumption DEF Dots
<1>1. PICK y : /\ y = [x EXCEPT !.nlink = 1] /\ IsInode(y) /\ y.type # "free" /\ y.type = x.type
               /\ y.nlink = 1 /\ y.addrs = x.addrs /\ y.ents = x.ents
  BY <1>0, NlinkIs
<1>2. PICK w : w = [ok |-> TRUE, inode |-> y, used |-> disk.used] OBVIOUS
<1>3. w.ok = TRUE /\ w.inode = y /\ w.used = disk.used
        /\ w = [ok |-> w.ok, inode |-> w.inode, used |-> w.used]
  BY <1>2
<1>4. CASE Type(p) # "dir"
  <2>1. NewInode(p) = w BY <1>1, <1>2, <1>4 DEF NewInode
  <2>2. IsNew(p, x, y, disk.used) BY <1>1, <1>2, <1>3, <1>4, <2>1, TakesAre DEF IsNew, OnlyDots
  <2> QED BY <2>2
<1>5. CASE Type(p) = "dir"
  <2>1. PICK v : IsEntered(w, ".", ip[p], v) BY <1>0, <1>1, <1>3, DirlinkIs
  <2>2. /\ v = Dirlink(w, ".", ip[p]) /\ v.ok \in BOOLEAN /\ v.used \in SUBSET Blocks
        /\ v = [ok |-> v.ok, inode |-> v.inode, used |-> v.used]
        /\ IsInode(v.inode) /\ v.inode.type # "free" /\ v.inode.type = x.type
        /\ v.inode.nlink = 1
        /\ v.inode.ents = (IF v.ok THEN Entered(x.ents, ".", ip[p]) ELSE x.ents)
        /\ Takes(x.addrs, disk.used, v.inode.addrs, v.used)
        /\ v.ok /\ x.addrs = <<>> /\ x.ents = NoEntry => Len(v.inode.addrs) = 1
    BY <1>1, <1>3, <2>1 DEF IsEntered
  <2>3. PICK u : IsEntered(v, "..", dp[p], u) BY <1>0, <2>2, DirlinkIs
  <2>4. /\ u = Dirlink(v, "..", dp[p]) /\ u.ok \in BOOLEAN /\ u.used \in SUBSET Blocks
        /\ u = [ok |-> u.ok, inode |-> u.inode, used |-> u.used]
        /\ IsInode(u.inode) /\ u.inode.type # "free" /\ u.inode.type = x.type
        /\ u.inode.nlink = 1
        /\ u.inode.ents = (IF u.ok THEN Entered(v.inode.ents, "..", dp[p]) ELSE v.inode.ents)
        /\ Takes(v.inode.addrs, v.used, u.inode.addrs, u.used)
        /\ u.ok => v.ok
        /\ v.ok /\ ".." \notin DOMAIN v.inode.ents /\ ~ Full(v.inode) => u.ok
    BY <2>2, <2>3 DEF IsEntered
  <2>5. NewInode(p) = u
    <3>1. w = [ok |-> TRUE, inode |-> [Inode(ip[p]) EXCEPT !.nlink = 1], used |-> disk.used]
      BY <1>1, <1>2
    <3> QED BY <1>5, <2>2, <2>4, <3>1 DEF NewInode
  <2>6. Takes(x.addrs, disk.used, u.inode.addrs, u.used) BY <2>2, <2>4, TakesAre
  <2>7. OnlyDots(x, u.inode)
    <3>1. OnlyDots(y, v.inode) /\ OnlyDots(v.inode, u.inode)
      BY <1>0, <1>3, <2>1, <2>3, EntersOnly
    <3> QED BY <1>1, <3>1 DEF OnlyDots
  <2>8. u.ok => u.inode.ents = Entered(Entered(x.ents, ".", ip[p]), "..", dp[p]) BY <2>2, <2>4
  <2>9. ASSUME ~ u.ok, x.addrs = <<>>, x.ents = NoEntry PROVE u.inode.ents = NoEntry
    <3>1. CASE ~ v.ok BY <2>2, <2>4, <2>9, <3>1
    <3>2. CASE v.ok
      <4>1. DOMAIN v.inode.ents = {"."} BY <2>2, <2>9, <3>2 DEF Entered, NoEntry
      <4>2. Len(v.inode.addrs) = 1 /\ Cardinality(DOMAIN v.inode.ents) = 1
        BY <2>2, <2>9, <3>2, <4>1, FS_Singleton
      <4>3. DataBlocks(v.inode.addrs) = 1 BY <4>2, SizesAssumption DEF DataBlocks
      <4>4. ~ Full(v.inode) BY <4>2, <4>3, SizesAssumption DEF Full
      <4> QED BY <2>4, <2>9, <3>2, <4>1, <4>4
    <3> QED BY <3>1, <3>2
  <2>10. NewInode(p) = [ok |-> NewInode(p).ok, inode |-> u.inode, used |-> u.used]
           /\ NewInode(p).ok = u.ok
    BY <2>4, <2>5
  <2>11. IsNew(p, x, u.inode, u.used) BY <1>5, <2>4, <2>6, <2>7, <2>8, <2>9, <2>10 DEF IsNew
  <2> QED BY <2>11
<1> QED BY <1>4, <1>5

\* The entry that create() makes in the parent, or does not.
LEMMA NewEntryIs ==
  ASSUME NEW p, NEW x, NEW z, NEW u, IsNew(p, x, z, u), NEW d, d = Inode(dp[p]), IsInode(d),
         d.type # "free", Name(p) \in STRING, ip[p] \in Inums
  PROVE  \E g, m : /\ g = NewEntry(p).inode /\ m = NewEntry(p).used
                   /\ NewEntry(p).ok \in BOOLEAN /\ (NewEntry(p).ok => NewInode(p).ok)
                   /\ m \in SUBSET Blocks /\ IsInode(g) /\ g.type # "free" /\ g.type = d.type
                   /\ g.nlink = d.nlink /\ Takes(d.addrs, u, g.addrs, m)
                   /\ g.ents = IF NewEntry(p).ok THEN Entered(d.ents, Name(p), ip[p]) ELSE d.ents
<1>1. PICK w : w = [NewInode(p) EXCEPT !.inode = d] OBVIOUS
<1>2. w = [ok |-> w.ok, inode |-> w.inode, used |-> w.used] /\ w.ok = NewInode(p).ok
        /\ w.ok \in BOOLEAN /\ w.inode = d /\ w.used = u /\ u \in SUBSET Blocks
  BY <1>1 DEF IsNew
<1>3. PICK v : IsEntered(w, Name(p), ip[p], v) BY <1>2, DirlinkIs
<1>4. v = NewEntry(p) BY <1>1, <1>3 DEF NewEntry, IsEntered
<1> QED BY <1>2, <1>3, <1>4 DEF IsEntered

\* One link more, counted at once.
MoreBy(a, b, k, e) == LinksTo(b, k) \subseteq LinksTo(a, k) \cup {e}

\* A link is made with its count.
LEMMA LinksRise ==
  ASSUME Typed, Typed', NEW p \in Procs, NEW k \in Inums, Pend(p, k) = 0, Pend(p, k)' = 0,
         \/ LinksTo(View', k) \subseteq LinksTo(View, k) /\ View'[k].nlink = View[k].nlink
         \/ \E e : MoreBy(View, View', k, e) /\ View'[k].nlink = View[k].nlink + 1
  PROVE  View'[k].nlink - Links(k)' - Pend(p, k)' >= View[k].nlink - Links(k) - Pend(p, k)
<1>1. View[k].nlink \in Int /\ Links(k) \in Nat /\ Links(k)' \in Nat
  <2>1. IsInode(View[k]) BY InodeIs
  <2> QED BY <2>1, LinksAre, NextInodes DEF IsInode
<1>2. IsFiniteSet(LinksTo(View, k)) /\ Cardinality(LinksTo(View, k)) = Links(k)
        /\ Cardinality(LinksTo(View', k)) = Links(k)'
  BY LinksAre DEF Links
<1>3. CASE LinksTo(View', k) \subseteq LinksTo(View, k) /\ View'[k].nlink = View[k].nlink
  <2>1. Links(k)' <= Links(k) BY <1>2, <1>3, FS_Subset
  <2> QED BY <1>1, <1>3, <2>1
<1>4. ASSUME NEW e, MoreBy(View, View', k, e), View'[k].nlink = View[k].nlink + 1
      PROVE  View'[k].nlink - Links(k)' - Pend(p, k)' >= View[k].nlink - Links(k) - Pend(p, k)
  <2> DEFINE S == LinksTo(View, k) \cup {e}
  <2>1. IsFiniteSet(S) /\ Cardinality(S) <= Links(k) + 1
    <3>1. IsFiniteSet(S) /\ Cardinality(S) = IF e \in LinksTo(View, k) THEN Links(k)
            ELSE Links(k) + 1
      BY <1>2, FS_AddElement
    <3> QED BY <1>1, <3>1
  <2>2. Links(k)' <= Cardinality(S) /\ Cardinality(S) \in Nat
    <3>1. LinksTo(View', k) \subseteq S BY <1>4 DEF MoreBy
    <3> HIDE DEF S
    <3> QED BY <1>2, <2>1, <3>1, FS_Subset, FS_CardinalityType
  <2> HIDE DEF S
  <2> QED BY <1>1, <1>4, <2>1, <2>2
<1> QED BY <1>3, <1>4

\* A step of p that may also begin or end to change an inode in memory only.
LEMMA MovesGood ==
  ASSUME Good, Typed', NEW p \in Procs, Others(p), durable' = durable, Shape(p)', LocksMove(p),
         OwnLocks(p)', \A i \in Inums : Apart(p, i)', Coherent',
         \A i \in Inums : lock[i] \in Procs \ {p} => View'[i] = View[i],
         UnlinksOwn(p)', RefsOK', FilesOK', BlocksOwned(View, disk.used)', strayed' = strayed,
         Sound => Goes(p) /\ Changes(p) /\ Counted' /\ Tree(View') /\ NewAlone(p)'
  PROVE  Good'
<1>1. Core /\ Typed /\ Shaped /\ Locks /\ UnlinkOK BY DEF Good, Core
<1>2. Shaped' BY <1>1, ShapedKept
<1>3. Locks' BY <1>1, LocksKept DEF OwnLocks, Apart
<1>4. UnlinkOK' BY <1>1, UnlinkKept
<1>5. Core' BY <1>1, <1>2, <1>3, <1>4 DEF Core
<1>6. ASSUME ~ strayed' PROVE Sound'
  <2>1. Sound BY <1>6 DEF Good
  <2>2. Tree(View)' BY <2>1
  <2> QED BY <1>1, <1>5, <2>1, <2>2, SoundKept
<1> QED BY <1>5, <1>6 DEF Good

\* Inode i becomes x on disk and y in memory.
SetsOne(i, x, y, used) ==
  /\ disk' = [ino |-> [k \in Inums |-> IF k = i THEN x ELSE disk.ino[k]], used |-> used]
  /\ copy' = [k \in Inums |-> IF k = i THEN y ELSE copy[k]]

\* The view of the calls after that.
LEMMA SetsOneIs ==
  ASSUME Typed, NEW i \in Inums, NEW x, NEW y, NEW used \in SUBSET Blocks, IsInode(x),
         y = NotRead \/ IsInode(y), SetsOne(i, x, y, used)
  PROVE  /\ IsDisk(disk') /\ copy' = [k \in Inums |-> copy'[k]] /\ disk'.used = used
         /\ \A k \in Inums : copy'[k] # NotRead => IsInode(copy'[k])
         /\ disk'.ino[i] = x /\ copy'[i] = y /\ View'[i] = IF y = NotRead THEN x ELSE y
         /\ \A k \in Inums \ {i} : /\ disk'.ino[k] = disk.ino[k] /\ copy'[k] = copy[k]
                                   /\ View'[k] = View[k]
<1>1. /\ disk'.ino = [k \in Inums |-> IF k = i THEN x ELSE disk.ino[k]]
      /\ disk'.used = used /\ disk' = [ino |-> disk'.ino, used |-> disk'.used]
      /\ copy' = [k \in Inums |-> IF k = i THEN y ELSE copy[k]]
  BY DEF SetsOne
<1>2. disk'.ino[i] = x /\ copy'[i] = y BY <1>1
<1>3. \A k \in Inums \ {i} : disk'.ino[k] = disk.ino[k] /\ copy'[k] = copy[k] BY <1>1
<1>4. \A k \in Inums : IsInode(disk'.ino[k]) BY <1>2, <1>3 DEF Typed, DiskTyped, IsDisk
<1>5. IsDisk(disk') BY <1>1, <1>4 DEF IsDisk
<1>6. \A k \in Inums : copy'[k] # NotRead => IsInode(copy'[k])
  BY <1>2, <1>3 DEF Typed, TableTyped
<1>7. \A k \in Inums : View'[k] = IF copy'[k] = NotRead THEN disk'.ino[k] ELSE copy'[k]
  BY DEF View, Inode
<1>8. \A k \in Inums : View[k] = IF copy[k] = NotRead THEN disk.ino[k] ELSE copy[k]
  BY DEF View, Inode
<1> QED BY <1>1, <1>2, <1>3, <1>5, <1>6, <1>7, <1>8

\* Memory and disk agree again, or p is still to make them.
LEMMA CoherentOne ==
  ASSUME Typed, Shaped, Locks, Coherent, NEW p \in Procs, Others(p), NEW i \in Inums,
         lock[i] \in {p, Nobody},
         \A k \in Inums \ {i} :
           /\ disk'.ino[k] = disk.ino[k]
           /\ copy'[k] = copy[k]
                \/ (copy'[k] = Inode(k) /\ lock[k] = Nobody /\ Inode(k).type # "free")
           /\ ~ Freeing(p, k) /\ ~ Freeing(p, k)' /\ ~ Truncates(p, k),
         copy'[i] # NotRead => /\ copy'[i].type = disk'.ino[i].type /\ copy'[i].type # "free"
                               /\ copy'[i] = disk'.ino[i] \/ Freeing(p, i)' \/ Truncates(p, i)',
         Freeing(p, i)' => copy'[i].addrs = <<>> /\ copy'[i].ents = NoEntry
  PROVE  Coherent'
<1>1. \A q \in Procs \ {p}, k \in Inums : /\ Freeing(q, k)' <=> Freeing(q, k)
                                          /\ Truncates(q, k)' <=> Truncates(q, k)
  BY DEF Others, Freeing, Truncates
<1>2. \A q \in Procs, k \in Inums : Freeing(q, k) => lock[k] = q BY DEF Locks, HoldsLock
<1>3. ASSUME NEW k \in Inums \ {i}
      PROVE  /\ copy'[k] # NotRead =>
                  /\ copy'[k].type = disk'.ino[k].type /\ copy'[k].type # "free"
                  /\ copy'[k] = disk'.ino[k] \/ Busy(k)'
             /\ (\E q \in Procs : Freeing(q, k)') => copy'[k].addrs = <<>>
                  /\ copy'[k].ents = NoEntry
  <2>1. Busy(k) => Busy(k)' BY <1>1, <1>3 DEF Busy
  <2>2. CASE copy'[k] = copy[k]
    <3>1. copy'[k] # NotRead => /\ copy'[k].type = disk'.ino[k].type /\ copy'[k].type # "free"
                                /\ copy'[k] = disk'.ino[k] \/ Busy(k)'
      BY <2>1, <2>2 DEF Coherent
    <3>2. (\E q \in Procs : Freeing(q, k)') => \E q \in Procs : Freeing(q, k) BY <1>1
    <3> QED BY <2>2, <3>1, <3>2 DEF Coherent
  <2>3. CASE copy'[k] # copy[k]
    <3>1. copy'[k] = Inode(k) /\ lock[k] = Nobody /\ Inode(k).type # "free" BY <2>3
    <3>2. ~ (\E q \in Procs : Freeing(q, k)') BY <1>1, <1>2, <3>1, ProcsAssumption
    <3>3. Inode(k) = disk.ino[k] BY <2>3, <3>1 DEF Inode
    <3> QED BY <3>1, <3>2, <3>3
  <2> QED BY <2>2, <2>3
<1>4. /\ copy'[i] # NotRead =>
           /\ copy'[i].type = disk'.ino[i].type /\ copy'[i].type # "free"
           /\ copy'[i] = disk'.ino[i] \/ Busy(i)'
      /\ (\E q \in Procs : Freeing(q, i)') => copy'[i].addrs = <<>> /\ copy'[i].ents = NoEntry
  <2>1. \A q \in Procs \ {p} : ~ Freeing(q, i)' BY <1>1, <1>2, ProcsAssumption
  <2> QED BY <2>1 DEF Busy
<1> QED BY <1>3, <1>4 DEF Coherent

\* Links go, counted or not.
LEMMA LinksFall ==
  ASSUME Typed, Typed', NEW p \in Procs, NEW k \in Inums, Pends(p, k)' <=> Pends(p, k),
         LinksTo(View', k) \subseteq LinksTo(View, k), View'[k].nlink = View[k].nlink
  PROVE  View'[k].nlink - Links(k)' - Pend(p, k)' >= View[k].nlink - Links(k) - Pend(p, k)
<1>1. View[k].nlink \in Int /\ Links(k) \in Nat /\ Links(k)' \in Nat
  <2>1. IsInode(View[k]) BY InodeIs
  <2> QED BY <2>1, LinksAre, NextInodes DEF IsInode
<1>2. IsFiniteSet(LinksTo(View, k)) /\ Cardinality(LinksTo(View, k)) = Links(k)
        /\ Cardinality(LinksTo(View', k)) = Links(k)'
  BY LinksAre DEF Links
<1>3. Links(k)' <= Links(k) BY <1>2, FS_Subset
<1>4. Pend(p, k)' = Pend(p, k) /\ Pend(p, k) \in Int BY DEF Pend
<1> QED BY <1>1, <1>3, <1>4

-----
\* The steps that look names up, and keep Good.
\* A call with a path begins.
LEMMA SysPathGood ==
  ASSUME Good, NEW p \in Procs, NEW c \in Calls, "path" \in DOMAIN c, SysPath(p, c)
  PROVE  Good'
<1>1. Typed /\ Shape(p) /\ Locks /\ Coherent /\ RefsOK /\ FilesOK /\ OwnLocks(p) /\ Shaped
        /\ UnlinkOK
  BY DEF Good, Core, Shaped, Locks, OwnLocks
<1>2. /\ pc[p] = "user" /\ puts[p] = <<>> /\ put[p] = "no" /\ cur[p] = None /\ dp[p] = None
      /\ ip[p] = None /\ p \notin active /\ cwd[p] \in Inums
  BY <1>1 DEF SysPath, At, Goto, Iputs, DropDp, Iget, Reads, Ilock, table, files, walk, locals,
    bounds, D!Begin, D!End, Shape, WithCur, WithDp, WithIp, NoPuts, Typed, ProcsTyped,
    FilesTyped
<1>3. Start(p, c.path) \in {ROOTINO, cwd[p]} /\ Start(p, c.path) \in Inums
  BY <1>2, RootIs DEF Start
<1>4. c.op \in WithPath /\ IsCall(c) /\ c.path.names \in Seq(STRING) BY CallIs
<1>5. UNCHANGED <<durable, disk, lock, ftable, ofile, cwd, ip, dp, puts, put, strayed>>
  BY DEF SysPath, At, Goto, Iputs, DropDp, Iget, Reads, Ilock, table, files, walk, locals,
    bounds, D!Begin, D!End
<1>6. /\ active' = active \cup {p} /\ ref' = [ref EXCEPT ![Start(p, c.path)] = @ + 1]
      /\ copy' = IgetCopy(Start(p, c.path)) /\ pc' = [pc EXCEPT ![p] = "walk"]
      /\ call' = [call EXCEPT ![p] = c] /\ cur' = [cur EXCEPT ![p] = Start(p, c.path)]
      /\ rest' = [rest EXCEPT ![p] = c.path.names]
  BY <1>1, <1>2, <1>3, <1>4 DEF SysPath, At, Goto, Iputs, DropDp, Iget, Reads, Ilock, table,
    files, walk, locals, bounds, D!Begin, D!End
<1>7. /\ pc'[p] = "walk" /\ cur'[p] = Start(p, c.path) /\ ip'[p] = ip[p] /\ dp'[p] = dp[p]
      /\ puts'[p] = puts[p] /\ put'[p] = put[p] /\ rest'[p] = c.path.names /\ call'[p] = c
      /\ cwd'[p] = cwd[p]
  BY <1>1, <1>5, <1>6 DEF Typed, ProcsTyped, FilesTyped
<1>8. Others(p) BY <1>1, <1>2, <1>5, <1>6 DEF Typed, ProcsTyped, FilesTyped, Others
<1>9. ProcsTyped'
  BY <1>1, <1>2, <1>3, <1>4, <1>5, <1>6, <1>7, SeqsAre DEF Typed, ProcsTyped, Labels
<1>10. Counters' BY <1>1, <1>2, <1>3, <1>4, <1>5, <1>6 DEF Counters, Typed, TableTyped
<1>11. Kept
  <2>1. /\ disk' = disk /\ Start(p, c.path) \in Inums /\ copy' = IgetCopy(Start(p, c.path))
    BY <1>1, <1>2, <1>3, <1>4, <1>5, <1>6
  <2>2. Typed BY <1>1
  <2> QED BY <2>1, <2>2, IgetKeeps
<1>12. Shape(p)'
  BY <1>2, <1>3, <1>4, <1>5, <1>7, <1>6, SeqsAre, NoneIs DEF Shape, WithCur, WithDp, WithIp,
    NoPuts, Creates
<1>13. LocksStep(p) BY <1>5, <1>6 DEF LocksStep
<1>14. OwnLocks(p)'
  BY <1>1, <1>2, <1>3, <1>4, <1>5, <1>6, <1>7, ProcsAssumption, SeqsAre DEF Typed, TableTyped,
    OwnLocks, HoldsLock, Freeing, LocksIp, LocksDp
<1>15. (\A i \in Inums : Apart(p, i)') /\ SameBusy(p)
  BY <1>1, <1>2, <1>3, <1>4, <1>5, <1>6, <1>7, SeqsAre DEF Apart, SameBusy, Freeing, Truncates
<1>16. UnlinksOwn(p)' /\ PendsLess(p)
  BY <1>1, <1>2, <1>3, <1>4, <1>5, <1>6, <1>7, NoneIs DEF UnlinksOwn, PendsLess, Pends
<1>17. strayed => strayed' BY <1>5, <1>6
<1>18. SameFiles(p) BY <1>1, <1>2, <1>3, <1>4, <1>5, <1>6, <1>7 DEF SameFiles, WithPath
<1>19. Sound => strayed' \/ OnPath(p)
  <2> SUFFICES ASSUME Sound, ~ strayed' PROVE OnPath(p)
    OBVIOUS
  <2>1. HasEntries(ROOTINO) /\ View[ROOTINO].nlink >= 1 BY <1>1, RootReached DEF Sound
  <2>2. \A i \in Inums : copy'[i] = copy[i] \/ copy'[i] = NotRead \/ i = None
    BY <1>1, <1>2, <1>3, <1>4, <1>5, <1>6, IgetIs DEF Typed, TableTyped
  <2>3. Gets(p) BY <1>2, <1>3, <1>4, <1>5, <1>7, <2>1, PutsAre, NoneIs DEF Gets, Holds
  <2>4. Comes(p) BY <1>2, <1>3, <1>4, <1>5, <1>7, <2>1 DEF Comes, Reached
  <2>5. Rereads(p) BY <1>2, <1>3, <1>4, <2>1, <2>2 DEF Rereads, Holds
  <2>6. Parents(p)
    BY <1>2, <1>3, <1>4, <1>5, <1>7, <2>1, <1>1, InodeIs DEF Parents, Sound, Reaching,
      LinkedFile
  <2> QED BY <2>3, <2>4, <2>5, <2>6 DEF OnPath
<1>20. ASSUME NEW k \in Inums PROVE ref'[k] + Mine(p, k) = ref[k] + Mine(p, k)'
  <2>1. ref'[k] = ref[k] + Is(Start(p, c.path), k) /\ ref[k] \in Int
    BY <1>1, <1>2, <1>3, <1>4, <1>5, <1>6 DEF Is, Typed, TableTyped
  <2>2. Mine(p, k) = Is(cwd[p], k)
    BY <1>1, <1>2, <1>3, <1>4, IsAre, PutsAre DEF Mine, CwdOf, IpOf
  <2>3. Mine(p, k)' = Is(cwd[p], k) + Is(Start(p, c.path), k)
    BY <1>2, <1>3, <1>4, <1>5, <1>7, IsAre, PutsAre, Z3 DEF Mine, CwdOf, IpOf
  <2>4. \A x : Is(x, k) \in Int BY IsAre
  <2> QED BY <2>1, <2>2, <2>3, <2>4
<1>21. FilesTyped' /\ active' \subseteq Procs
  BY <1>1, <1>5, <1>6 DEF Typed, FilesTyped, DiskTyped
<1> QED BY <1>5, <1>6, <1>8, <1>9, <1>10, <1>11, <1>12, <1>13, <1>14, <1>15, <1>16, <1>17,
  <1>18, <1>19, <1>20, <1>21, QuietStep

\* namex() looks a name up.
LEMMA WalkGood ==
  ASSUME Good, NEW p \in Procs, Walk(p)
  PROVE  Good'
<1>1. Typed /\ Shape(p) /\ Locks /\ Coherent /\ RefsOK /\ FilesOK /\ OwnLocks(p) /\ Shaped
        /\ UnlinkOK
  BY DEF Good, Core, Shaped, Locks, OwnLocks
<1>2. /\ pc[p] = "walk" /\ puts[p] = <<>> /\ put[p] = "no" /\ cur[p] \in Inums
      /\ dp[p] = None /\ ip[p] \in Inums \cup {None} /\ p \in active /\ cwd[p] \in Inums
      /\ rest[p] # <<>> /\ rest[p] \in Seq(STRING) /\ (ip[p] # None => call[p].op = "link")
      /\ call[p].op \in WithPath
  BY <1>1 DEF Walk, Failed, WantsParent, Looks, Creates, At, Shape, WithCur, WithDp, WithIp,
    NoPuts, Typed, ProcsTyped, FilesTyped
<1>3. IsInode(Inode(cur[p])) /\ \A n \in DOMAIN Inode(cur[p]).ents : Inode(cur[p]).ents[n] \in Inums
  BY <1>1, <1>2, InodeIs, EntsAre
<1>4. UNCHANGED <<durable, disk, active, lock, ftable, ofile, cwd, call, ip, put>>
  BY Zenon DEF Walk, Failed, files, walk
<1>5. \/ /\ lock[cur[p]] = Nobody /\ Inode(cur[p]).type # "free"
         /\ Inode(cur[p]).type = "dir" /\ (call[p].op = "link" => ip[p] # None)
         /\ ref' = ref /\ copy' = [copy EXCEPT ![cur[p]] = Inode(cur[p])]
         /\ pc' = [pc EXCEPT ![p] = "parent"] /\ cur' = [cur EXCEPT ![p] = None]
         /\ rest' = rest /\ dp' = [dp EXCEPT ![p] = cur[p]] /\ puts' = puts
         /\ strayed' = strayed
      \/ /\ lock[cur[p]] = Nobody /\ Inode(cur[p]).type # "free"
         /\ (ip[p] = None \/ call[p].op # "link") /\ ref' = ref
         /\ copy' = [copy EXCEPT ![cur[p]] = Inode(cur[p])]
         /\ pc' = [pc EXCEPT ![p] = "end"] /\ cur' = [cur EXCEPT ![p] = None]
         /\ rest' = rest /\ dp' = dp /\ puts' = [puts EXCEPT ![p] = <<cur[p]>>]
         /\ strayed' = strayed
      \/ /\ lock[cur[p]] = Nobody /\ Inode(cur[p]).type # "free" /\ ip[p] # None
         /\ call[p].op = "link" /\ ref' = ref
         /\ copy' = [copy EXCEPT ![cur[p]] = Inode(cur[p])]
         /\ pc' = [pc EXCEPT ![p] = "linkBad"] /\ cur' = [cur EXCEPT ![p] = None]
         /\ rest' = rest /\ dp' = dp /\ puts' = [puts EXCEPT ![p] = <<cur[p]>>]
         /\ strayed' = strayed
      \/ /\ lock[cur[p]] = Nobody /\ Inode(cur[p]).type # "free"
         /\ Head(rest[p]) \in DOMAIN Inode(cur[p]).ents
         /\ ref' = [ref EXCEPT ![Inode(cur[p]).ents[Head(rest[p])]] = @ + 1]
         /\ copy' = [IgetCopy(Inode(cur[p]).ents[Head(rest[p])]) EXCEPT ![cur[p]] = Inode(cur[p])]
         /\ pc' = pc /\ cur' = [cur EXCEPT ![p] = Inode(cur[p]).ents[Head(rest[p])]]
         /\ rest' = [rest EXCEPT ![p] = Tail(rest[p])] /\ dp' = dp
         /\ puts' = [puts EXCEPT ![p] = <<cur[p]>>]
         /\ strayed' = (strayed \/ (Head(rest[p]) = ".." /\ ~ Named(View, cur[p])))
  BY DEF Walk, Failed, WantsParent, Looks, Creates, At, Goto, Iputs, DropDp, Iget, Reads, Ilock
<1>6. CASE /\ lock[cur[p]] = Nobody /\ Inode(cur[p]).type # "free"
             /\ Inode(cur[p]).type = "dir" /\ (call[p].op = "link" => ip[p] # None)
             /\ ref' = ref /\ copy' = [copy EXCEPT ![cur[p]] = Inode(cur[p])]
             /\ pc' = [pc EXCEPT ![p] = "parent"] /\ cur' = [cur EXCEPT ![p] = None]
             /\ rest' = rest /\ dp' = [dp EXCEPT ![p] = cur[p]] /\ puts' = puts
             /\ strayed' = strayed
  <2>1. /\ pc'[p] = "parent" /\ cur'[p] = None /\ ip'[p] = ip[p] /\ dp'[p] = cur[p]
        /\ puts'[p] = puts[p] /\ put'[p] = put[p] /\ rest'[p] = rest[p]
        /\ call'[p] = call[p] /\ cwd'[p] = cwd[p] /\ lock[cur[p]] = Nobody
        /\ Inode(cur[p]).type # "free" /\ Inode(cur[p]).type = "dir"
        /\ (call[p].op = "link" => ip[p] # None)
    BY <1>1, <1>4, <1>6 DEF Typed, ProcsTyped
  <2>2. Others(p) BY <1>4, <1>6 DEF Others
  <2>3. ProcsTyped' BY <1>1, <1>4, <1>6 DEF Typed, ProcsTyped, Labels
  <2>4. Counters' BY <1>1, <1>4, <1>6 DEF Counters, Typed, TableTyped
  <2>5. Kept
    <3>1. /\ disk' = disk /\ cur[p] \in Inums /\ lock[cur[p]] = Nobody
        /\ Inode(cur[p]).type # "free" /\ copy' = [copy EXCEPT ![cur[p]] = Inode(cur[p])]
      BY <1>2, <1>4, <1>6
    <3>2. Typed BY <1>1
    <3> QED BY <3>1, <3>2, ReadsKeeps
  <2>6. Shape(p)' BY <1>2, <1>4, <2>1, NoneIs DEF Shape, WithCur, WithDp, WithIp
  <2>7. LocksStep(p) BY <1>4 DEF LocksStep
  <2>8. OwnLocks(p)'
    BY <1>1, <1>2, <1>4, <2>1 DEF OwnLocks, HoldsLock, Freeing, LocksIp, LocksDp
  <2>9. (\A i \in Inums : Apart(p, i)') /\ SameBusy(p)
    BY <1>2, <2>1 DEF Apart, SameBusy, Freeing, Truncates
  <2>10. UnlinksOwn(p)' /\ PendsLess(p) BY <1>2, <2>1 DEF UnlinksOwn, PendsLess, Pends
  <2>11. strayed => strayed' BY <1>6
  <2>12. SameFiles(p) BY <1>4, <2>1 DEF SameFiles
  <2>13. Sound => strayed' \/ OnPath(p)
    <3> SUFFICES ASSUME Sound, ~ strayed' PROVE OnPath(p)
      OBVIOUS
    <3>1. \A i \in Inums : copy'[i] = copy[i] \/ copy'[i] = NotRead \/ i = cur[p] BY <1>6
    <3>2. Gets(p) BY <1>2, <2>1 DEF Gets, Holds
    <3>3. Comes(p) BY <1>2, <2>1 DEF Comes, Reached
    <3>4. Rereads(p) BY <3>1 DEF Rereads, Holds
    <3>5. Parents(p) BY <1>2, <2>1, <1>1, InodeIs DEF Parents, Sound, Reaching, LinkedFile
    <3> QED BY <3>2, <3>3, <3>4, <3>5 DEF OnPath
  <2>14. ASSUME NEW k \in Inums PROVE ref'[k] + Mine(p, k) = ref[k] + Mine(p, k)'
    <3>1. ref'[k] = ref[k] /\ ref[k] \in Int BY <1>1, <1>6 DEF Typed, TableTyped
    <3>2. Mine(p, k) = Is(cwd[p], k) + Is(cur[p], k) + Is(ip[p], k)
      BY <1>2, IsAre, PutsAre DEF Mine, CwdOf, IpOf
    <3>3. Mine(p, k)' = Is(cwd[p], k) + Is(ip[p], k) + Is(cur[p], k)
      BY <1>2, <1>4, <2>1, IsAre, PutsAre DEF Mine, CwdOf, IpOf
    <3>4. \A x : Is(x, k) \in Int BY IsAre
    <3> QED BY <3>1, <3>2, <3>3, <3>4
  <2>15. FilesTyped' /\ active' \subseteq Procs BY <1>1, <1>4 DEF Typed, FilesTyped, DiskTyped
  <2> QED BY <1>4, <2>2, <2>3, <2>4, <2>5, <2>6, <2>7, <2>8, <2>9, <2>10, <2>11, <2>12, <2>13,
    <2>14, <2>15, QuietStep
<1>7. CASE /\ lock[cur[p]] = Nobody /\ Inode(cur[p]).type # "free"
             /\ (ip[p] = None \/ call[p].op # "link") /\ ref' = ref
             /\ copy' = [copy EXCEPT ![cur[p]] = Inode(cur[p])]
             /\ pc' = [pc EXCEPT ![p] = "end"] /\ cur' = [cur EXCEPT ![p] = None]
             /\ rest' = rest /\ dp' = dp /\ puts' = [puts EXCEPT ![p] = <<cur[p]>>]
             /\ strayed' = strayed
  <2>1. /\ pc'[p] = "end" /\ cur'[p] = None /\ ip'[p] = ip[p] /\ dp'[p] = dp[p]
        /\ puts'[p] = <<cur[p]>> /\ put'[p] = put[p] /\ rest'[p] = rest[p]
        /\ call'[p] = call[p] /\ cwd'[p] = cwd[p] /\ lock[cur[p]] = Nobody
        /\ Inode(cur[p]).type # "free" /\ (ip[p] = None \/ call[p].op # "link")
    BY <1>1, <1>4, <1>7 DEF Typed, ProcsTyped
  <2>2. Others(p) BY <1>4, <1>7 DEF Others
  <2>3. ProcsTyped' BY <1>1, <1>2, <1>3, <1>4, <1>7 DEF Typed, ProcsTyped, Labels
  <2>4. Counters' BY <1>1, <1>4, <1>7 DEF Counters, Typed, TableTyped
  <2>5. Kept
    <3>1. /\ disk' = disk /\ cur[p] \in Inums /\ lock[cur[p]] = Nobody
        /\ Inode(cur[p]).type # "free" /\ copy' = [copy EXCEPT ![cur[p]] = Inode(cur[p])]
      BY <1>2, <1>4, <1>7
    <3>2. Typed BY <1>1
    <3> QED BY <3>1, <3>2, ReadsKeeps
  <2>6. Shape(p)' BY <1>2, <1>4, <2>1 DEF Shape, WithCur, WithDp, WithIp, NoPuts
  <2>7. LocksStep(p) BY <1>4 DEF LocksStep
  <2>8. OwnLocks(p)'
    BY <1>1, <1>2, <1>4, <2>1 DEF OwnLocks, HoldsLock, Freeing, LocksIp, LocksDp
  <2>9. (\A i \in Inums : Apart(p, i)') /\ SameBusy(p)
    BY <1>2, <2>1 DEF Apart, SameBusy, Freeing, Truncates
  <2>10. UnlinksOwn(p)' /\ PendsLess(p) BY <2>1 DEF UnlinksOwn, PendsLess, Pends
  <2>11. strayed => strayed' BY <1>7
  <2>12. SameFiles(p) BY <1>4, <2>1 DEF SameFiles
  <2>13. Sound => strayed' \/ OnPath(p)
    <3> SUFFICES ASSUME Sound, ~ strayed' PROVE OnPath(p)
      OBVIOUS
    <3>1. \A i \in Inums : copy'[i] = copy[i] \/ copy'[i] = NotRead \/ i = cur[p] BY <1>7
    <3>2. Gets(p) BY <1>2, <2>1, PutsAre DEF Gets, Holds
    <3>3. Comes(p) BY <1>2, <2>1 DEF Comes, Reached
    <3>4. Rereads(p) BY <3>1 DEF Rereads, Holds
    <3>5. Parents(p) BY <1>2, <2>1 DEF Parents
    <3> QED BY <3>2, <3>3, <3>4, <3>5 DEF OnPath
  <2>14. ASSUME NEW k \in Inums PROVE ref'[k] + Mine(p, k) = ref[k] + Mine(p, k)'
    <3>1. ref'[k] = ref[k] /\ ref[k] \in Int BY <1>1, <1>7 DEF Typed, TableTyped
    <3>2. Mine(p, k) = Is(cwd[p], k) + Is(cur[p], k) + Is(ip[p], k)
      BY <1>2, IsAre, PutsAre DEF Mine, CwdOf, IpOf
    <3>3. Mine(p, k)' = Is(cwd[p], k) + Is(ip[p], k) + Is(cur[p], k)
      BY <1>2, <1>3, <1>4, <2>1, IsAre, PutsAre DEF Mine, CwdOf, IpOf
    <3>4. \A x : Is(x, k) \in Int BY IsAre
    <3> QED BY <3>1, <3>2, <3>3, <3>4
  <2>15. FilesTyped' /\ active' \subseteq Procs BY <1>1, <1>4 DEF Typed, FilesTyped, DiskTyped
  <2> QED BY <1>4, <2>2, <2>3, <2>4, <2>5, <2>6, <2>7, <2>8, <2>9, <2>10, <2>11, <2>12, <2>13,
    <2>14, <2>15, QuietStep
<1>8. CASE /\ lock[cur[p]] = Nobody /\ Inode(cur[p]).type # "free" /\ ip[p] # None
             /\ call[p].op = "link" /\ ref' = ref
             /\ copy' = [copy EXCEPT ![cur[p]] = Inode(cur[p])]
             /\ pc' = [pc EXCEPT ![p] = "linkBad"] /\ cur' = [cur EXCEPT ![p] = None]
             /\ rest' = rest /\ dp' = dp /\ puts' = [puts EXCEPT ![p] = <<cur[p]>>]
             /\ strayed' = strayed
  <2>1. /\ pc'[p] = "linkBad" /\ cur'[p] = None /\ ip'[p] = ip[p] /\ dp'[p] = dp[p]
        /\ puts'[p] = <<cur[p]>> /\ put'[p] = put[p] /\ rest'[p] = rest[p]
        /\ call'[p] = call[p] /\ cwd'[p] = cwd[p] /\ lock[cur[p]] = Nobody
        /\ Inode(cur[p]).type # "free" /\ ip[p] # None /\ call[p].op = "link"
    BY <1>1, <1>4, <1>8 DEF Typed, ProcsTyped
  <2>2. Others(p) BY <1>4, <1>8 DEF Others
  <2>3. ProcsTyped' BY <1>1, <1>2, <1>4, <1>8 DEF Typed, ProcsTyped, Labels
  <2>4. Counters' BY <1>1, <1>4, <1>8 DEF Counters, Typed, TableTyped
  <2>5. Kept
    <3>1. /\ disk' = disk /\ cur[p] \in Inums /\ lock[cur[p]] = Nobody
        /\ Inode(cur[p]).type # "free" /\ copy' = [copy EXCEPT ![cur[p]] = Inode(cur[p])]
      BY <1>2, <1>4, <1>8
    <3>2. Typed BY <1>1
    <3> QED BY <3>1, <3>2, ReadsKeeps
  <2>6. Shape(p)' BY <1>2, <1>4, <2>1 DEF Shape, WithCur, WithDp, WithIp, NoPuts
  <2>7. LocksStep(p) BY <1>4 DEF LocksStep
  <2>8. OwnLocks(p)'
    BY <1>1, <1>2, <1>4, <2>1 DEF OwnLocks, HoldsLock, Freeing, LocksIp, LocksDp
  <2>9. (\A i \in Inums : Apart(p, i)') /\ SameBusy(p)
    BY <1>2, <2>1 DEF Apart, SameBusy, Freeing, Truncates
  <2>10. UnlinksOwn(p)' /\ PendsLess(p) BY <1>2, <2>1 DEF UnlinksOwn, PendsLess, Pends
  <2>11. strayed => strayed' BY <1>8
  <2>12. SameFiles(p) BY <1>4, <2>1 DEF SameFiles
  <2>13. Sound => strayed' \/ OnPath(p)
    <3> SUFFICES ASSUME Sound, ~ strayed' PROVE OnPath(p)
      OBVIOUS
    <3>1. \A i \in Inums : copy'[i] = copy[i] \/ copy'[i] = NotRead \/ i = cur[p] BY <1>8
    <3>2. Gets(p) BY <1>2, <2>1, PutsAre DEF Gets, Holds
    <3>3. Comes(p) BY <1>2, <2>1 DEF Comes, Reached
    <3>4. Rereads(p) BY <3>1 DEF Rereads, Holds
    <3>5. Parents(p) BY <1>2, <2>1 DEF Parents, Sound, Reaching, LinkedFile
    <3> QED BY <3>2, <3>3, <3>4, <3>5 DEF OnPath
  <2>14. ASSUME NEW k \in Inums PROVE ref'[k] + Mine(p, k) = ref[k] + Mine(p, k)'
    <3>1. ref'[k] = ref[k] /\ ref[k] \in Int BY <1>1, <1>8 DEF Typed, TableTyped
    <3>2. Mine(p, k) = Is(cwd[p], k) + Is(cur[p], k) + Is(ip[p], k)
      BY <1>2, IsAre, PutsAre DEF Mine, CwdOf, IpOf
    <3>3. Mine(p, k)' = Is(cwd[p], k) + Is(ip[p], k) + Is(cur[p], k)
      BY <1>2, <1>3, <1>4, <2>1, IsAre, PutsAre DEF Mine, CwdOf, IpOf
    <3>4. \A x : Is(x, k) \in Int BY IsAre
    <3> QED BY <3>1, <3>2, <3>3, <3>4
  <2>15. FilesTyped' /\ active' \subseteq Procs BY <1>1, <1>4 DEF Typed, FilesTyped, DiskTyped
  <2> QED BY <1>4, <2>2, <2>3, <2>4, <2>5, <2>6, <2>7, <2>8, <2>9, <2>10, <2>11, <2>12, <2>13,
    <2>14, <2>15, QuietStep
<1>9. CASE /\ lock[cur[p]] = Nobody /\ Inode(cur[p]).type # "free"
             /\ Head(rest[p]) \in DOMAIN Inode(cur[p]).ents
             /\ ref' = [ref EXCEPT ![Inode(cur[p]).ents[Head(rest[p])]] = @ + 1]
             /\ copy' = [IgetCopy(Inode(cur[p]).ents[Head(rest[p])]) EXCEPT ![cur[p]] = Inode(cur[p])]
             /\ pc' = pc /\ cur' = [cur EXCEPT ![p] = Inode(cur[p]).ents[Head(rest[p])]]
             /\ rest' = [rest EXCEPT ![p] = Tail(rest[p])] /\ dp' = dp
             /\ puts' = [puts EXCEPT ![p] = <<cur[p]>>]
             /\ strayed' = (strayed \/ (Head(rest[p]) = ".." /\ ~ Named(View, cur[p])))
  <2>1. /\ pc'[p] = pc[p] /\ cur'[p] = Inode(cur[p]).ents[Head(rest[p])] /\ ip'[p] = ip[p]
        /\ dp'[p] = dp[p] /\ puts'[p] = <<cur[p]>> /\ put'[p] = put[p]
        /\ rest'[p] = Tail(rest[p]) /\ call'[p] = call[p] /\ cwd'[p] = cwd[p]
        /\ lock[cur[p]] = Nobody /\ Inode(cur[p]).type # "free"
        /\ Head(rest[p]) \in DOMAIN Inode(cur[p]).ents
    BY <1>1, <1>4, <1>9 DEF Typed, ProcsTyped
  <2>2. Others(p) BY <1>1, <1>4, <1>9 DEF Typed, ProcsTyped, Others
  <2>3. ProcsTyped' BY <1>1, <1>2, <1>3, <1>4, <1>9, SeqsAre DEF Typed, ProcsTyped
  <2>4. Counters' BY <1>1, <1>2, <1>3, <1>4, <1>9 DEF Counters, Typed, TableTyped
  <2>5. Kept
    <3>1. /\ disk' = disk /\ cur[p] \in Inums /\ lock[cur[p]] = Nobody
        /\ Inode(cur[p]).type # "free" /\ Inode(cur[p]).ents[Head(rest[p])] \in Inums
        /\ copy' = [IgetCopy(Inode(cur[p]).ents[Head(rest[p])]) EXCEPT ![cur[p]] = Inode(cur[p])]
      BY <1>2, <1>3, <1>4, <1>9
    <3>2. Typed BY <1>1
    <3> QED BY <3>1, <3>2, IgetReadsKeeps
  <2>6. Shape(p)' BY <1>2, <1>3, <1>4, <2>1, NoneIs DEF Shape, WithCur, WithDp, WithIp, NoPuts
  <2>7. LocksStep(p) BY <1>4 DEF LocksStep
  <2>8. OwnLocks(p)' BY <1>1, <1>2, <1>4, <2>1 DEF OwnLocks, HoldsLock, Freeing
  <2>9. (\A i \in Inums : Apart(p, i)') /\ SameBusy(p)
    BY <1>2, <2>1 DEF Apart, SameBusy, Freeing, Truncates
  <2>10. UnlinksOwn(p)' /\ PendsLess(p) BY <1>2, <2>1 DEF UnlinksOwn, PendsLess, Pends
  <2>11. strayed => strayed' BY <1>9
  <2>12. SameFiles(p) BY <1>4, <2>1 DEF SameFiles
  <2>13. Sound => strayed' \/ OnPath(p)
    <3> SUFFICES ASSUME Sound, ~ strayed' PROVE OnPath(p)
      OBVIOUS
    <3>1. Head(rest[p]) = ".." => Named(View, cur[p]) BY <1>9
    <3>2. LET i == Inode(cur[p]).ents[Head(rest[p])] IN HasEntries(i)
            /\ (i = cur[p] \/ View[i].nlink >= 1)
      BY <1>1, <1>2, <1>9, EntryLeads, InodeIs DEF Sound
    <3>3. \A i \in Inums : copy'[i] = copy[i] \/ copy'[i] = NotRead \/ i = cur[p]
      BY <1>1, <1>3, <1>9, IgetIs
    <3>4. Gets(p) BY <1>2, <1>3, <1>4, <2>1, <3>1, <3>2, PutsAre, NoneIs DEF Gets, Holds
    <3>5. Comes(p) BY <2>1, <3>2 DEF Comes, Reached
    <3>6. Rereads(p) BY <3>3 DEF Rereads, Holds
    <3>7. Parents(p) BY <1>2, <2>1 DEF Parents, Sound, Reaching, LinkedFile
    <3> QED BY <3>4, <3>5, <3>6, <3>7 DEF OnPath
  <2>14. ASSUME NEW k \in Inums PROVE ref'[k] + Mine(p, k) = ref[k] + Mine(p, k)'
    <3>1. ref'[k] = ref[k] + Is(Inode(cur[p]).ents[Head(rest[p])], k) /\ ref[k] \in Int
      BY <1>1, <1>2, <1>3, <1>4, <1>9 DEF Is, Typed, TableTyped
    <3>2. Mine(p, k) = Is(cwd[p], k) + Is(cur[p], k) + Is(ip[p], k)
      BY <1>2, IsAre, PutsAre DEF Mine, CwdOf, IpOf
    <3>3. Mine(p, k)' = Is(cwd[p], k) + Is(Inode(cur[p]).ents[Head(rest[p])], k) + Is(ip[p],
            k) + Is(cur[p], k)
      BY <1>2, <1>3, <1>4, <2>1, IsAre, PutsAre DEF Mine, CwdOf, IpOf
    <3>4. \A x : Is(x, k) \in Int BY IsAre
    <3> QED BY <3>1, <3>2, <3>3, <3>4
  <2>15. FilesTyped' /\ active' \subseteq Procs BY <1>1, <1>4 DEF Typed, FilesTyped, DiskTyped
  <2> QED BY <1>4, <2>2, <2>3, <2>4, <2>5, <2>6, <2>7, <2>8, <2>9, <2>10, <2>11, <2>12, <2>13,
    <2>14, <2>15, QuietStep
<1> QED BY <1>5, <1>6, <1>7, <1>8, <1>9

\* namex() has come to the end of the path.
LEMMA WalkEndGood ==
  ASSUME Good, NEW p \in Procs, WalkEnd(p)
  PROVE  Good'
<1>1. Typed /\ Shape(p) /\ Locks /\ Coherent /\ RefsOK /\ FilesOK /\ OwnLocks(p) /\ Shaped
        /\ UnlinkOK
  BY DEF Good, Core, Shaped, Locks, OwnLocks
<1>2. /\ pc[p] = "walk" /\ puts[p] = <<>> /\ put[p] = "no" /\ cur[p] \in Inums
      /\ dp[p] = None /\ ip[p] \in Inums \cup {None} /\ p \in active /\ cwd[p] \in Inums
      /\ (ip[p] # None => call[p].op = "link") /\ call[p].op \in WithPath
  BY <1>1 DEF WalkEnd, Failed, WantsParent, Creates, At, Goto, Shape, WithCur, WithDp, WithIp,
    NoPuts, Typed, ProcsTyped, FilesTyped
<1>3. UNCHANGED <<durable, disk, active, ref, copy, lock, ftable, ofile, cwd, call, rest, ip,
        dp, put, strayed>>
  BY DEF WalkEnd, Failed, Ilock, table, files, walk
<1>4. \/ /\ (ip[p] = None \/ call[p].op # "link") /\ pc' = [pc EXCEPT ![p] = "end"]
         /\ cur' = [cur EXCEPT ![p] = None] /\ puts' = [puts EXCEPT ![p] = <<cur[p]>>]
      \/ /\ ip[p] # None /\ call[p].op = "link" /\ pc' = [pc EXCEPT ![p] = "linkBad"]
         /\ cur' = [cur EXCEPT ![p] = None] /\ puts' = [puts EXCEPT ![p] = <<cur[p]>>]
      \/ /\ ip[p] = None /\ pc' = [pc EXCEPT ![p] = "found"] /\ cur' = cur /\ puts' = puts
  BY <1>2 DEF WalkEnd, Failed, WantsParent, Goto, Iputs, DropDp
<1>5. CASE /\ (ip[p] = None \/ call[p].op # "link") /\ pc' = [pc EXCEPT ![p] = "end"]
             /\ cur' = [cur EXCEPT ![p] = None] /\ puts' = [puts EXCEPT ![p] = <<cur[p]>>]
  <2>1. /\ pc'[p] = "end" /\ cur'[p] = None /\ ip'[p] = ip[p] /\ dp'[p] = dp[p]
        /\ puts'[p] = <<cur[p]>> /\ put'[p] = put[p] /\ rest'[p] = rest[p]
        /\ call'[p] = call[p] /\ cwd'[p] = cwd[p] /\ (ip[p] = None \/ call[p].op # "link")
    BY <1>1, <1>3, <1>5 DEF Typed, ProcsTyped
  <2>2. Others(p) BY <1>3, <1>5 DEF Others
  <2>3. ProcsTyped' BY <1>1, <1>2, <1>3, <1>5, SeqsAre DEF Typed, ProcsTyped, Labels
  <2>4. Counters' BY <1>1, <1>3 DEF Counters, Typed, TableTyped
  <2>5. Kept
    <3>1. /\ disk' = disk /\ copy' = copy BY <1>3
    <3>2. Typed BY <1>1
    <3> QED BY <3>1, <3>2, SameKeeps
  <2>6. Shape(p)' BY <1>2, <1>3, <2>1 DEF Shape, WithCur, WithDp, WithIp, NoPuts
  <2>7. LocksStep(p) BY <1>3 DEF LocksStep
  <2>8. OwnLocks(p)'
    BY <1>1, <1>2, <1>3, <1>5 DEF OwnLocks, HoldsLock, Freeing, LocksIp, LocksDp
  <2>9. (\A i \in Inums : Apart(p, i)') /\ SameBusy(p)
    BY <1>2, <2>1 DEF Apart, SameBusy, Freeing, Truncates
  <2>10. UnlinksOwn(p)' /\ PendsLess(p) BY <2>1 DEF UnlinksOwn, PendsLess, Pends
  <2>11. strayed => strayed' BY <1>3
  <2>12. SameFiles(p) BY <1>3, <2>1 DEF SameFiles
  <2>13. Sound => strayed' \/ OnPath(p)
    <3> SUFFICES ASSUME Sound, ~ strayed' PROVE OnPath(p)
      OBVIOUS
    <3>1. \A i \in Inums : copy'[i] = copy[i] \/ copy'[i] = NotRead \/ i = cur[p] BY <1>3
    <3>2. Gets(p) BY <1>2, <2>1, PutsAre DEF Gets, Holds
    <3>3. Comes(p) BY <1>2, <2>1 DEF Comes, Reached
    <3>4. Rereads(p) BY <3>1 DEF Rereads, Holds
    <3>5. Parents(p) BY <1>2, <2>1 DEF Parents
    <3> QED BY <3>2, <3>3, <3>4, <3>5 DEF OnPath
  <2>14. ASSUME NEW k \in Inums PROVE ref'[k] + Mine(p, k) = ref[k] + Mine(p, k)'
    <3>1. ref'[k] = ref[k] /\ ref[k] \in Int BY <1>1, <1>3 DEF Typed, TableTyped
    <3>2. Mine(p, k) = Is(cwd[p], k) + Is(cur[p], k) + Is(ip[p], k)
      BY <1>2, IsAre, PutsAre DEF Mine, CwdOf, IpOf
    <3>3. Mine(p, k)' = Is(cwd[p], k) + Is(ip[p], k) + Is(cur[p], k)
      BY <1>2, <2>1, IsAre, PutsAre DEF Mine, CwdOf, IpOf
    <3>4. \A x : Is(x, k) \in Int BY IsAre
    <3> QED BY <3>1, <3>2, <3>3, <3>4
  <2>15. FilesTyped' /\ active' \subseteq Procs BY <1>1, <1>3 DEF Typed, FilesTyped, DiskTyped
  <2> QED BY <1>3, <2>2, <2>3, <2>4, <2>5, <2>6, <2>7, <2>8, <2>9, <2>10, <2>11, <2>12, <2>13,
    <2>14, <2>15, QuietStep
<1>6. CASE /\ ip[p] # None /\ call[p].op = "link" /\ pc' = [pc EXCEPT ![p] = "linkBad"]
             /\ cur' = [cur EXCEPT ![p] = None] /\ puts' = [puts EXCEPT ![p] = <<cur[p]>>]
  <2>1. /\ pc'[p] = "linkBad" /\ cur'[p] = None /\ ip'[p] = ip[p] /\ dp'[p] = dp[p]
        /\ puts'[p] = <<cur[p]>> /\ put'[p] = put[p] /\ rest'[p] = rest[p]
        /\ call'[p] = call[p] /\ cwd'[p] = cwd[p] /\ ip[p] # None /\ call[p].op = "link"
    BY <1>1, <1>3, <1>6 DEF Typed, ProcsTyped
  <2>2. Others(p) BY <1>3, <1>6 DEF Others
  <2>3. ProcsTyped' BY <1>1, <1>2, <1>3, <1>6 DEF Typed, ProcsTyped, Labels
  <2>4. Counters' BY <1>1, <1>2, <1>3 DEF Counters, Typed, TableTyped
  <2>5. Kept
    <3>1. /\ disk' = disk /\ copy' = copy BY <1>3
    <3>2. Typed BY <1>1
    <3> QED BY <3>1, <3>2, SameKeeps
  <2>6. Shape(p)' BY <1>2, <1>3, <2>1 DEF Shape, WithCur, WithDp, WithIp, NoPuts
  <2>7. LocksStep(p) BY <1>3 DEF LocksStep
  <2>8. OwnLocks(p)'
    BY <1>1, <1>2, <1>3, <1>6 DEF OwnLocks, HoldsLock, Freeing, LocksIp, LocksDp
  <2>9. (\A i \in Inums : Apart(p, i)') /\ SameBusy(p)
    BY <1>2, <2>1 DEF Apart, SameBusy, Freeing, Truncates
  <2>10. UnlinksOwn(p)' /\ PendsLess(p) BY <1>2, <2>1 DEF UnlinksOwn, PendsLess, Pends
  <2>11. strayed => strayed' BY <1>3
  <2>12. SameFiles(p) BY <1>2, <1>3, <2>1 DEF SameFiles
  <2>13. Sound => strayed' \/ OnPath(p)
    <3> SUFFICES ASSUME Sound, ~ strayed' PROVE OnPath(p)
      OBVIOUS
    <3>1. \A i \in Inums : copy'[i] = copy[i] \/ copy'[i] = NotRead \/ i = cur[p] BY <1>3
    <3>2. Gets(p) BY <1>2, <1>3, <2>1, PutsAre DEF Gets, Holds
    <3>3. Comes(p) BY <1>2, <2>1 DEF Comes, Reached
    <3>4. Rereads(p) BY <3>1 DEF Rereads, Holds
    <3>5. Parents(p) BY <1>2, <2>1 DEF Parents, Sound, Reaching, LinkedFile
    <3> QED BY <3>2, <3>3, <3>4, <3>5 DEF OnPath
  <2>14. ASSUME NEW k \in Inums PROVE ref'[k] + Mine(p, k) = ref[k] + Mine(p, k)'
    <3>1. ref'[k] = ref[k] /\ ref[k] \in Int BY <1>1, <1>3 DEF Typed, TableTyped
    <3>2. Mine(p, k) = Is(cwd[p], k) + Is(cur[p], k) + Is(ip[p], k)
      BY <1>2, IsAre, PutsAre DEF Mine, CwdOf, IpOf
    <3>3. Mine(p, k)' = Is(cwd[p], k) + Is(ip[p], k) + Is(cur[p], k)
      BY <1>2, <1>3, <2>1, IsAre, PutsAre DEF Mine, CwdOf, IpOf
    <3>4. \A x : Is(x, k) \in Int BY IsAre
    <3> QED BY <3>1, <3>2, <3>3, <3>4
  <2>15. FilesTyped' /\ active' \subseteq Procs BY <1>1, <1>3 DEF Typed, FilesTyped, DiskTyped
  <2> QED BY <1>3, <2>2, <2>3, <2>4, <2>5, <2>6, <2>7, <2>8, <2>9, <2>10, <2>11, <2>12, <2>13,
    <2>14, <2>15, QuietStep
<1>7. CASE /\ ip[p] = None /\ pc' = [pc EXCEPT ![p] = "found"] /\ cur' = cur
             /\ puts' = puts
  <2>1. /\ pc'[p] = "found" /\ cur'[p] = cur[p] /\ ip'[p] = ip[p] /\ dp'[p] = dp[p]
        /\ puts'[p] = puts[p] /\ put'[p] = put[p] /\ rest'[p] = rest[p]
        /\ call'[p] = call[p] /\ cwd'[p] = cwd[p] /\ ip[p] = None
    BY <1>1, <1>3, <1>7 DEF Typed, ProcsTyped
  <2>2. Others(p) BY <1>3, <1>7 DEF Others
  <2>3. ProcsTyped' BY <1>1, <1>3, <1>7 DEF Typed, ProcsTyped, Labels
  <2>4. Counters' BY <1>1, <1>3 DEF Counters, Typed, TableTyped
  <2>5. Kept
    <3>1. /\ disk' = disk /\ copy' = copy BY <1>3
    <3>2. Typed BY <1>1
    <3> QED BY <3>1, <3>2, SameKeeps
  <2>6. Shape(p)' BY <1>2, <1>3, <2>1, NoneIs DEF Shape, WithCur, WithDp, WithIp
  <2>7. LocksStep(p) BY <1>3 DEF LocksStep
  <2>8. OwnLocks(p)'
    BY <1>1, <1>2, <1>3, <1>7 DEF OwnLocks, HoldsLock, Freeing, LocksIp, LocksDp
  <2>9. (\A i \in Inums : Apart(p, i)') /\ SameBusy(p)
    BY <1>2, <2>1 DEF Apart, SameBusy, Freeing, Truncates
  <2>10. UnlinksOwn(p)' /\ PendsLess(p) BY <2>1 DEF UnlinksOwn, PendsLess, Pends
  <2>11. strayed => strayed' BY <1>3
  <2>12. SameFiles(p) BY <1>3, <2>1 DEF SameFiles
  <2>13. Sound => strayed' \/ OnPath(p)
    <3> SUFFICES ASSUME Sound, ~ strayed' PROVE OnPath(p)
      OBVIOUS
    <3>1. \A i \in Inums : copy'[i] = copy[i] \/ copy'[i] = NotRead \/ i = cur[p] BY <1>3
    <3>2. Gets(p) BY <1>2, <2>1 DEF Gets, Holds
    <3>3. Comes(p) BY <1>2, <2>1 DEF Comes, Reached
    <3>4. Rereads(p) BY <3>1 DEF Rereads, Holds
    <3>5. Parents(p) BY <1>2, <2>1 DEF Parents
    <3> QED BY <3>2, <3>3, <3>4, <3>5 DEF OnPath
  <2>14. ASSUME NEW k \in Inums PROVE ref'[k] + Mine(p, k) = ref[k] + Mine(p, k)'
    <3>1. ref'[k] = ref[k] /\ ref[k] \in Int BY <1>1, <1>3 DEF Typed, TableTyped
    <3>2. Mine(p, k) = Is(cwd[p], k) + Is(cur[p], k) + Is(ip[p], k)
      BY <1>2, IsAre, PutsAre DEF Mine, CwdOf, IpOf
    <3>3. Mine(p, k)' = Is(cwd[p], k) + Is(cur[p], k) + Is(ip[p], k)
      BY <1>2, <1>3, <2>1, IsAre, PutsAre DEF Mine, CwdOf, IpOf
    <3>4. \A x : Is(x, k) \in Int BY IsAre
    <3> QED BY <3>1, <3>2, <3>3
  <2>15. FilesTyped' /\ active' \subseteq Procs BY <1>1, <1>3 DEF Typed, FilesTyped, DiskTyped
  <2> QED BY <1>3, <2>2, <2>3, <2>4, <2>5, <2>6, <2>7, <2>8, <2>9, <2>10, <2>11, <2>12, <2>13,
    <2>14, <2>15, QuietStep
<1> QED BY <1>4, <1>5, <1>6, <1>7

\* A call gives up, and puts what it has.
LEMMA GiveUpGood ==
  ASSUME Good, NEW p \in Procs, GiveUp(p)
  PROVE  Good'
<1>1. Typed /\ Shape(p) /\ Locks /\ Coherent /\ RefsOK /\ FilesOK /\ OwnLocks(p) /\ Shaped
        /\ UnlinkOK
  BY DEF Good, Core, Shaped, Locks, OwnLocks
<1>2. /\ pc[p] = "giveUp" /\ puts[p] = <<>> /\ put[p] = "no" /\ cur[p] = None
      /\ dp[p] \in Inums /\ ip[p] \in Inums \cup {None} /\ p \in active /\ cwd[p] \in Inums
      /\ (ip[p] # None <=> call[p].op = "link")
  BY <1>1 DEF GiveUp, Failed, At, Goto, Iputs, DropDp, Iget, Reads, Ilock, table, files, walk,
    locals, bounds, D!Begin, D!End, Shape, WithCur, WithDp, WithIp, NoPuts, Typed, ProcsTyped,
    FilesTyped
<1>3. UNCHANGED <<durable, disk, active, ref, copy, ftable, ofile, cwd, call, cur, rest, ip,
        put, strayed>>
  BY DEF GiveUp, Failed, At, Goto, Iputs, DropDp, Iget, Reads, Ilock, table, files, walk,
    locals, bounds, D!Begin, D!End
<1>4. \/ /\ (ip[p] = None \/ call[p].op # "link") /\ lock' = [lock EXCEPT ![dp[p]] = Nobody]
         /\ pc' = [pc EXCEPT ![p] = "end"] /\ dp' = [dp EXCEPT ![p] = None]
         /\ puts' = [puts EXCEPT ![p] = <<dp[p]>>]
      \/ /\ ip[p] # None /\ call[p].op = "link" /\ lock' = [lock EXCEPT ![dp[p]] = Nobody]
         /\ pc' = [pc EXCEPT ![p] = "linkBad"] /\ dp' = [dp EXCEPT ![p] = None]
         /\ puts' = [puts EXCEPT ![p] = <<dp[p]>>]
  BY <1>1, <1>2 DEF GiveUp, Failed, At, Goto, Iputs, DropDp, Iget, Reads, Ilock, table, files,
    walk, locals, bounds, D!Begin, D!End
<1>5. CASE /\ (ip[p] = None \/ call[p].op # "link")
             /\ lock' = [lock EXCEPT ![dp[p]] = Nobody] /\ pc' = [pc EXCEPT ![p] = "end"]
             /\ dp' = [dp EXCEPT ![p] = None] /\ puts' = [puts EXCEPT ![p] = <<dp[p]>>]
  <2>1. /\ pc'[p] = "end" /\ cur'[p] = cur[p] /\ ip'[p] = ip[p] /\ dp'[p] = None
        /\ puts'[p] = <<dp[p]>> /\ put'[p] = put[p] /\ rest'[p] = rest[p]
        /\ call'[p] = call[p] /\ cwd'[p] = cwd[p] /\ (ip[p] = None \/ call[p].op # "link")
    BY <1>1, <1>3, <1>5 DEF Typed, ProcsTyped, FilesTyped
  <2>2. Others(p) BY <1>1, <1>2, <1>3, <1>5 DEF Typed, ProcsTyped, FilesTyped, Others
  <2>3. ProcsTyped' BY <1>1, <1>2, <1>3, <1>5, <2>1, SeqsAre DEF Typed, ProcsTyped, Labels
  <2>4. Counters' BY <1>1, <1>2, <1>3, <1>5 DEF Counters, Typed, TableTyped
  <2>5. Kept
    <3>1. /\ disk' = disk /\ copy' = copy BY <1>1, <1>2, <1>3, <1>5
    <3>2. Typed BY <1>1
    <3> QED BY <3>1, <3>2, SameKeeps
  <2>6. Shape(p)'
    BY <1>2, <1>3, <2>1, SeqsAre, NoneIs DEF Shape, WithCur, WithDp, WithIp, NoPuts, Creates
  <2>7. LocksStep(p)
    BY <1>1, <1>2, <1>3, <1>5, InodeIs DEF LocksStep, Typed, TableTyped, OwnLocks, HoldsLock,
      LocksIp, LocksDp
  <2>8. OwnLocks(p)'
    BY <1>1, <1>2, <1>3, <1>5, <2>1, ProcsAssumption, SeqsAre DEF Typed, TableTyped, OwnLocks,
      HoldsLock, Freeing, LocksIp, LocksDp
  <2>9. (\A i \in Inums : Apart(p, i)') /\ SameBusy(p)
    BY <1>1, <1>2, <1>3, <1>5, <2>1, SeqsAre DEF Apart, SameBusy, Freeing, Truncates
  <2>10. UnlinksOwn(p)' /\ PendsLess(p)
    BY <1>1, <1>2, <1>3, <1>5, <2>1, NoneIs DEF UnlinksOwn, PendsLess, Pends
  <2>11. strayed => strayed' BY <1>3, <1>5
  <2>12. SameFiles(p) BY <1>1, <1>2, <1>3, <1>5, <2>1 DEF SameFiles
  <2>13. Sound => strayed' \/ OnPath(p)
    <3> SUFFICES ASSUME Sound, ~ strayed' PROVE OnPath(p)
      OBVIOUS
    <3>1. \A i \in Inums : copy'[i] = copy[i] \/ copy'[i] = NotRead \/ i = cur[p]
      BY <1>1, <1>2, <1>3, <1>5, IgetIs DEF Typed, TableTyped
    <3>2. Gets(p) BY <1>2, <1>3, <2>1, PutsAre, NoneIs DEF Gets, Holds
    <3>3. Comes(p) BY <1>2, <1>3, <2>1 DEF Comes, Reached
    <3>4. Rereads(p) BY <1>2, <3>1 DEF Rereads, Holds
    <3>5. Parents(p) BY <1>2, <1>3, <2>1, <1>1, InodeIs DEF Parents, Sound, Reaching, LinkedFile
    <3> QED BY <3>2, <3>3, <3>4, <3>5 DEF OnPath
  <2>14. ASSUME NEW k \in Inums PROVE ref'[k] + Mine(p, k) = ref[k] + Mine(p, k)'
    <3>1. ref'[k] = ref[k] /\ ref[k] \in Int BY <1>1, <1>2, <1>3, <1>5 DEF Is, Typed, TableTyped
    <3>2. Mine(p, k) = Is(cwd[p], k) + Is(ip[p], k) + Is(dp[p], k)
      BY <1>1, <1>2, IsAre, PutsAre DEF Mine, CwdOf, IpOf
    <3>3. Mine(p, k)' = Is(cwd[p], k) + Is(ip[p], k) + Is(dp[p], k)
      BY <1>2, <1>3, <2>1, IsAre, PutsAre DEF Mine, CwdOf, IpOf
    <3>4. \A x : Is(x, k) \in Int BY IsAre
    <3> QED BY <3>1, <3>2, <3>3, <3>4
  <2>15. FilesTyped' /\ active' \subseteq Procs
    BY <1>1, <1>3, <1>5 DEF Typed, FilesTyped, DiskTyped
  <2> QED BY <1>3, <1>5, <2>2, <2>3, <2>4, <2>5, <2>6, <2>7, <2>8, <2>9, <2>10, <2>11, <2>12,
    <2>13, <2>14, <2>15, QuietStep
<1>6. CASE /\ ip[p] # None /\ call[p].op = "link"
             /\ lock' = [lock EXCEPT ![dp[p]] = Nobody]
             /\ pc' = [pc EXCEPT ![p] = "linkBad"] /\ dp' = [dp EXCEPT ![p] = None]
             /\ puts' = [puts EXCEPT ![p] = <<dp[p]>>]
  <2>1. /\ pc'[p] = "linkBad" /\ cur'[p] = cur[p] /\ ip'[p] = ip[p] /\ dp'[p] = None
        /\ puts'[p] = <<dp[p]>> /\ put'[p] = put[p] /\ rest'[p] = rest[p]
        /\ call'[p] = call[p] /\ cwd'[p] = cwd[p] /\ ip[p] # None /\ call[p].op = "link"
    BY <1>1, <1>3, <1>6 DEF Typed, ProcsTyped, FilesTyped
  <2>2. Others(p) BY <1>1, <1>2, <1>3, <1>6 DEF Typed, ProcsTyped, FilesTyped, Others
  <2>3. ProcsTyped' BY <1>1, <1>2, <1>3, <1>6, <2>1, SeqsAre DEF Typed, ProcsTyped, Labels
  <2>4. Counters' BY <1>1, <1>2, <1>3, <1>6 DEF Counters, Typed, TableTyped
  <2>5. Kept
    <3>1. /\ disk' = disk /\ copy' = copy BY <1>1, <1>2, <1>3, <1>6
    <3>2. Typed BY <1>1
    <3> QED BY <3>1, <3>2, SameKeeps
  <2>6. Shape(p)'
    BY <1>2, <1>3, <2>1, SeqsAre, NoneIs DEF Shape, WithCur, WithDp, WithIp, NoPuts, Creates
  <2>7. LocksStep(p)
    BY <1>1, <1>2, <1>3, <1>6, InodeIs DEF LocksStep, Typed, TableTyped, OwnLocks, HoldsLock,
      LocksIp, LocksDp
  <2>8. OwnLocks(p)'
    BY <1>1, <1>2, <1>3, <1>6, <2>1, ProcsAssumption, SeqsAre DEF Typed, TableTyped, OwnLocks,
      HoldsLock, Freeing, LocksIp, LocksDp
  <2>9. (\A i \in Inums : Apart(p, i)') /\ SameBusy(p)
    BY <1>1, <1>2, <1>3, <1>6, <2>1, SeqsAre DEF Apart, SameBusy, Freeing, Truncates
  <2>10. UnlinksOwn(p)' /\ PendsLess(p)
    BY <1>1, <1>2, <1>3, <1>6, <2>1, NoneIs DEF UnlinksOwn, PendsLess, Pends
  <2>11. strayed => strayed' BY <1>3, <1>6
  <2>12. SameFiles(p) BY <1>1, <1>2, <1>3, <1>6, <2>1 DEF SameFiles
  <2>13. Sound => strayed' \/ OnPath(p)
    <3> SUFFICES ASSUME Sound, ~ strayed' PROVE OnPath(p)
      OBVIOUS
    <3>1. \A i \in Inums : copy'[i] = copy[i] \/ copy'[i] = NotRead \/ i = cur[p]
      BY <1>1, <1>2, <1>3, <1>6, IgetIs DEF Typed, TableTyped
    <3>2. Gets(p) BY <1>2, <1>3, <2>1, PutsAre, NoneIs DEF Gets, Holds
    <3>3. Comes(p) BY <1>2, <1>3, <2>1 DEF Comes, Reached
    <3>4. Rereads(p) BY <1>2, <3>1 DEF Rereads, Holds
    <3>5. Parents(p) BY <1>2, <1>3, <2>1, <1>1, InodeIs DEF Parents, Sound, Reaching, LinkedFile
    <3> QED BY <3>2, <3>3, <3>4, <3>5 DEF OnPath
  <2>14. ASSUME NEW k \in Inums PROVE ref'[k] + Mine(p, k) = ref[k] + Mine(p, k)'
    <3>1. ref'[k] = ref[k] /\ ref[k] \in Int BY <1>1, <1>2, <1>3, <1>6 DEF Is, Typed, TableTyped
    <3>2. Mine(p, k) = Is(cwd[p], k) + Is(ip[p], k) + Is(dp[p], k)
      BY <1>1, <1>2, IsAre, PutsAre DEF Mine, CwdOf, IpOf
    <3>3. Mine(p, k)' = Is(cwd[p], k) + Is(ip[p], k) + Is(dp[p], k)
      BY <1>2, <1>3, <2>1, IsAre, PutsAre DEF Mine, CwdOf, IpOf
    <3>4. \A x : Is(x, k) \in Int BY IsAre
    <3> QED BY <3>1, <3>2, <3>3, <3>4
  <2>15. FilesTyped' /\ active' \subseteq Procs
    BY <1>1, <1>3, <1>6 DEF Typed, FilesTyped, DiskTyped
  <2> QED BY <1>3, <1>6, <2>2, <2>3, <2>4, <2>5, <2>6, <2>7, <2>8, <2>9, <2>10, <2>11, <2>12,
    <2>13, <2>14, <2>15, QuietStep
<1> QED BY <1>4, <1>5, <1>6

-----
\* Those of create() and open() that write no inode.
\* create() looks the name up and takes a free inode.
LEMMA CreateQuiet ==
  ASSUME Good, NEW p \in Procs, Create(p), pc'[p] # "new"
  PROVE  Good'
<1>1. Typed /\ Shape(p) /\ Locks /\ Coherent /\ RefsOK /\ FilesOK /\ OwnLocks(p) /\ Shaped
        /\ UnlinkOK
  BY DEF Good, Core, Shaped, Locks, OwnLocks
<1>2. /\ pc[p] = "parent" /\ puts[p] = <<>> /\ put[p] = "no" /\ cur[p] = None
      /\ dp[p] \in Inums /\ ip[p] = None /\ p \in active /\ cwd[p] \in Inums
      /\ rest[p] # <<>> /\ Creates(p) /\ call[p].op # "link"
  BY <1>1 DEF Create, Creates, Looks, WithIp, At, Goto, Iputs, DropDp, Iget, Reads, Ilock,
    table, files, walk, locals, bounds, D!Begin, D!End, Typed, ProcsTyped, Shape, WithCur,
    WithDp, WithIp, NoPuts, Typed, ProcsTyped, FilesTyped
<1>3. IsInode(Inode(dp[p])) /\ \A n \in DOMAIN Inode(dp[p]).ents : Inode(dp[p]).ents[n] \in Inums
  BY <1>1, <1>2, InodeIs, EntsAre
<1>4. UNCHANGED <<durable, disk, active, lock, ftable, ofile, cwd, call, cur, rest, put>>
  BY <1>1, <1>2 DEF Create, Creates, Looks, WithIp, At, Goto, Iputs, DropDp, Iget, Reads, Ilock,
    table, files, walk, locals, bounds, D!Begin, D!End, Typed, ProcsTyped
<1>5. \/ /\ lock[dp[p]] = Nobody /\ Inode(dp[p]).type # "free"
         /\ Name(p) \in DOMAIN Inode(dp[p]).ents
         /\ ref' = [ref EXCEPT ![Inode(dp[p]).ents[Name(p)]] = @ + 1]
         /\ copy' = [IgetCopy(Inode(dp[p]).ents[Name(p)]) EXCEPT ![dp[p]] = Inode(dp[p])]
         /\ pc' = [pc EXCEPT ![p] = "exists"]
         /\ ip' = [ip EXCEPT ![p] = Inode(dp[p]).ents[Name(p)]]
         /\ dp' = [dp EXCEPT ![p] = None] /\ puts' = [puts EXCEPT ![p] = <<dp[p]>>]
         /\ strayed' = (strayed \/ (Name(p) = ".." /\ ~ Named(View, dp[p])))
      \/ /\ lock[dp[p]] = Nobody /\ Inode(dp[p]).type # "free" /\ ref' = ref
         /\ copy' = [copy EXCEPT ![dp[p]] = Inode(dp[p])] /\ pc' = [pc EXCEPT ![p] = "end"]
         /\ ip' = ip /\ dp' = [dp EXCEPT ![p] = None]
         /\ puts' = [puts EXCEPT ![p] = <<dp[p]>>] /\ strayed' = strayed
  BY <1>1, <1>2, <1>3 DEF Create, Creates, Looks, WithIp, At, Goto, Iputs, DropDp, Iget, Reads,
    Ilock, table, files, walk, locals, bounds, D!Begin, D!End, Typed, ProcsTyped
<1>6. CASE /\ lock[dp[p]] = Nobody /\ Inode(dp[p]).type # "free"
             /\ Name(p) \in DOMAIN Inode(dp[p]).ents
             /\ ref' = [ref EXCEPT ![Inode(dp[p]).ents[Name(p)]] = @ + 1]
             /\ copy' = [IgetCopy(Inode(dp[p]).ents[Name(p)]) EXCEPT ![dp[p]] = Inode(dp[p])]
             /\ pc' = [pc EXCEPT ![p] = "exists"]
             /\ ip' = [ip EXCEPT ![p] = Inode(dp[p]).ents[Name(p)]]
             /\ dp' = [dp EXCEPT ![p] = None] /\ puts' = [puts EXCEPT ![p] = <<dp[p]>>]
             /\ strayed' = (strayed \/ (Name(p) = ".." /\ ~ Named(View, dp[p])))
  <2>1. /\ pc'[p] = "exists" /\ cur'[p] = cur[p] /\ ip'[p] = Inode(dp[p]).ents[Name(p)]
        /\ dp'[p] = None /\ puts'[p] = <<dp[p]>> /\ put'[p] = put[p] /\ rest'[p] = rest[p]
        /\ call'[p] = call[p] /\ cwd'[p] = cwd[p] /\ lock[dp[p]] = Nobody
        /\ Inode(dp[p]).type # "free" /\ Name(p) \in DOMAIN Inode(dp[p]).ents
    BY <1>1, <1>4, <1>6 DEF Typed, ProcsTyped, FilesTyped
  <2>2. Others(p) BY <1>1, <1>2, <1>4, <1>6 DEF Typed, ProcsTyped, FilesTyped, Others
  <2>3. ProcsTyped' BY <1>1, <1>2, <1>3, <1>4, <1>6, <2>1, SeqsAre DEF Typed, ProcsTyped, Labels
  <2>4. Counters' BY <1>1, <1>2, <1>3, <1>4, <1>6 DEF Counters, Typed, TableTyped
  <2>5. Kept
    <3>1. /\ disk' = disk /\ dp[p] \in Inums /\ lock[dp[p]] = Nobody
        /\ Inode(dp[p]).type # "free" /\ Inode(dp[p]).ents[Name(p)] \in Inums
        /\ copy' = [IgetCopy(Inode(dp[p]).ents[Name(p)]) EXCEPT ![dp[p]] = Inode(dp[p])]
      BY <1>1, <1>2, <1>3, <1>4, <1>6
    <3>2. Typed BY <1>1
    <3> QED BY <3>1, <3>2, IgetReadsKeeps
  <2>6. Shape(p)'
    BY <1>2, <1>3, <1>4, <2>1, SeqsAre, NoneIs DEF Shape, WithCur, WithDp, WithIp, NoPuts,
      Creates
  <2>7. LocksStep(p) BY <1>4, <1>6 DEF LocksStep
  <2>8. OwnLocks(p)'
    BY <1>1, <1>2, <1>3, <1>4, <1>6, <2>1, ProcsAssumption, SeqsAre DEF Typed, TableTyped,
      OwnLocks, HoldsLock, Freeing, LocksIp, LocksDp
  <2>9. (\A i \in Inums : Apart(p, i)') /\ SameBusy(p)
    BY <1>1, <1>2, <1>3, <1>4, <1>6, <2>1, SeqsAre DEF Apart, SameBusy, Freeing, Truncates
  <2>10. UnlinksOwn(p)' /\ PendsLess(p)
    BY <1>1, <1>2, <1>3, <1>4, <1>6, <2>1, NoneIs DEF UnlinksOwn, PendsLess, Pends
  <2>11. strayed => strayed' BY <1>4, <1>6, <1>1
  <2>12. SameFiles(p) BY <1>1, <1>2, <1>3, <1>4, <1>6, <2>1 DEF SameFiles
  <2>13. Sound => strayed' \/ OnPath(p)
    <3> SUFFICES ASSUME Sound, ~ strayed' PROVE OnPath(p)
      OBVIOUS
    <3>1. Name(p) = ".." => Named(View, dp[p]) BY <1>6
    <3>2. LET i == Inode(dp[p]).ents[Name(p)] IN HasEntries(i) /\ (i = dp[p] \/ View[i].nlink >= 1)
      BY <3>1, <1>1, <1>2, <1>6, EntryLeads, InodeIs DEF Sound
    <3>3. \A i \in Inums : copy'[i] = copy[i] \/ copy'[i] = NotRead \/ i = dp[p]
      BY <1>1, <1>2, <1>3, <1>4, <1>6, IgetIs DEF Typed, TableTyped
    <3>4. Gets(p) BY <1>2, <1>3, <1>4, <2>1, <3>1, <3>2, PutsAre, NoneIs DEF Gets, Holds
    <3>5. Comes(p) BY <1>2, <1>3, <1>4, <2>1, <3>1, <3>2 DEF Comes, Reached
    <3>6. Rereads(p) BY <1>2, <1>3, <3>1, <3>2, <3>3 DEF Rereads, Holds
    <3>7. Parents(p)
      BY <1>2, <1>3, <1>4, <2>1, <3>1, <3>2, <1>1, InodeIs DEF Parents, Sound, Reaching,
        LinkedFile
    <3> QED BY <3>4, <3>5, <3>6, <3>7 DEF OnPath
  <2>14. ASSUME NEW k \in Inums PROVE ref'[k] + Mine(p, k) = ref[k] + Mine(p, k)'
    <3>1. ref'[k] = ref[k] + Is(Inode(dp[p]).ents[Name(p)], k) /\ ref[k] \in Int
      BY <1>1, <1>2, <1>3, <1>4, <1>6 DEF Is, Typed, TableTyped
    <3>2. Mine(p, k) = Is(cwd[p], k) + Is(dp[p], k)
      BY <1>1, <1>2, <1>3, IsAre, PutsAre DEF Mine, CwdOf, IpOf
    <3>5. Put1(puts'[p]) = dp[p] /\ Put2(puts'[p]) = None BY <2>1, <1>3, PutsAre
    <3>3. Mine(p, k)' = Is(cwd[p], k) + Is(Inode(dp[p]).ents[Name(p)], k) + Is(dp[p], k)
      BY <1>2, <1>3, <1>4, <2>1, <3>5, IsAre, PutsAre DEF Mine, CwdOf, IpOf
    <3>4. \A x : Is(x, k) \in Int BY IsAre
    <3> QED BY <3>1, <3>2, <3>3, <3>4
  <2>15. FilesTyped' /\ active' \subseteq Procs
    BY <1>1, <1>2, <1>4, <1>6 DEF Typed, FilesTyped, DiskTyped
  <2> QED BY <1>4, <1>6, <2>2, <2>3, <2>4, <2>5, <2>6, <2>7, <2>8, <2>9, <2>10, <2>11, <2>12,
    <2>13, <2>14, <2>15, QuietStep
<1>7. CASE /\ lock[dp[p]] = Nobody /\ Inode(dp[p]).type # "free" /\ ref' = ref
             /\ copy' = [copy EXCEPT ![dp[p]] = Inode(dp[p])]
             /\ pc' = [pc EXCEPT ![p] = "end"] /\ ip' = ip /\ dp' = [dp EXCEPT ![p] = None]
             /\ puts' = [puts EXCEPT ![p] = <<dp[p]>>] /\ strayed' = strayed
  <2>1. /\ pc'[p] = "end" /\ cur'[p] = cur[p] /\ ip'[p] = ip[p] /\ dp'[p] = None
        /\ puts'[p] = <<dp[p]>> /\ put'[p] = put[p] /\ rest'[p] = rest[p]
        /\ call'[p] = call[p] /\ cwd'[p] = cwd[p] /\ lock[dp[p]] = Nobody
        /\ Inode(dp[p]).type # "free"
    BY <1>1, <1>4, <1>7 DEF Typed, ProcsTyped, FilesTyped
  <2>2. Others(p) BY <1>1, <1>2, <1>4, <1>7 DEF Typed, ProcsTyped, FilesTyped, Others
  <2>3. ProcsTyped' BY <1>1, <1>2, <1>3, <1>4, <1>7, <2>1, SeqsAre DEF Typed, ProcsTyped, Labels
  <2>4. Counters' BY <1>1, <1>2, <1>3, <1>4, <1>7 DEF Counters, Typed, TableTyped
  <2>5. Kept
    <3>1. /\ disk' = disk /\ dp[p] \in Inums /\ lock[dp[p]] = Nobody
        /\ Inode(dp[p]).type # "free" /\ copy' = [copy EXCEPT ![dp[p]] = Inode(dp[p])]
      BY <1>1, <1>2, <1>3, <1>4, <1>7
    <3>2. Typed BY <1>1
    <3> QED BY <3>1, <3>2, ReadsKeeps
  <2>6. Shape(p)'
    BY <1>2, <1>3, <1>4, <2>1, SeqsAre, NoneIs DEF Shape, WithCur, WithDp, WithIp, NoPuts,
      Creates
  <2>7. LocksStep(p) BY <1>4, <1>7 DEF LocksStep
  <2>8. OwnLocks(p)'
    BY <1>1, <1>2, <1>3, <1>4, <1>7, <2>1, ProcsAssumption, SeqsAre DEF Typed, TableTyped,
      OwnLocks, HoldsLock, Freeing, LocksIp, LocksDp
  <2>9. (\A i \in Inums : Apart(p, i)') /\ SameBusy(p)
    BY <1>1, <1>2, <1>3, <1>4, <1>7, <2>1, SeqsAre DEF Apart, SameBusy, Freeing, Truncates
  <2>10. UnlinksOwn(p)' /\ PendsLess(p)
    BY <1>1, <1>2, <1>3, <1>4, <1>7, <2>1, NoneIs DEF UnlinksOwn, PendsLess, Pends
  <2>11. strayed => strayed' BY <1>4, <1>7, <1>1
  <2>12. SameFiles(p) BY <1>1, <1>2, <1>3, <1>4, <1>7, <2>1 DEF SameFiles
  <2>13. Sound => strayed' \/ OnPath(p)
    <3> SUFFICES ASSUME Sound, ~ strayed' PROVE OnPath(p)
      OBVIOUS
    <3>1. \A i \in Inums : copy'[i] = copy[i] \/ copy'[i] = NotRead \/ i = dp[p]
      BY <1>1, <1>2, <1>3, <1>4, <1>7, IgetIs DEF Typed, TableTyped
    <3>2. Gets(p) BY <1>2, <1>3, <1>4, <2>1, PutsAre, NoneIs DEF Gets, Holds
    <3>3. Comes(p) BY <1>2, <1>3, <1>4, <2>1 DEF Comes, Reached
    <3>4. Rereads(p) BY <1>2, <1>3, <3>1 DEF Rereads, Holds
    <3>5. Parents(p)
      BY <1>2, <1>3, <1>4, <2>1, <1>1, InodeIs DEF Parents, Sound, Reaching, LinkedFile
    <3> QED BY <3>2, <3>3, <3>4, <3>5 DEF OnPath
  <2>14. ASSUME NEW k \in Inums PROVE ref'[k] + Mine(p, k) = ref[k] + Mine(p, k)'
    <3>1. ref'[k] = ref[k] /\ ref[k] \in Int
      BY <1>1, <1>2, <1>3, <1>4, <1>7 DEF Is, Typed, TableTyped
    <3>2. Mine(p, k) = Is(cwd[p], k) + Is(dp[p], k)
      BY <1>1, <1>2, <1>3, IsAre, PutsAre DEF Mine, CwdOf, IpOf
    <3>5. Put1(puts'[p]) = dp[p] /\ Put2(puts'[p]) = None BY <2>1, <1>3, PutsAre
    <3>3. Mine(p, k)' = Is(cwd[p], k) + Is(dp[p], k)
      BY <1>2, <1>3, <1>4, <2>1, <3>5, IsAre, PutsAre DEF Mine, CwdOf, IpOf
    <3>4. \A x : Is(x, k) \in Int BY IsAre
    <3> QED BY <3>1, <3>2, <3>3, <3>4
  <2>15. FilesTyped' /\ active' \subseteq Procs
    BY <1>1, <1>2, <1>4, <1>7 DEF Typed, FilesTyped, DiskTyped
  <2> QED BY <1>4, <1>7, <2>2, <2>3, <2>4, <2>5, <2>6, <2>7, <2>8, <2>9, <2>10, <2>11, <2>12,
    <2>13, <2>14, <2>15, QuietStep
<1> QED BY <1>5, <1>6, <1>7

\* create() finds the name.
LEMMA CreateExistsGood ==
  ASSUME Good, NEW p \in Procs, CreateExists(p)
  PROVE  Good'
<1>1. Typed /\ Shape(p) /\ Locks /\ Coherent /\ RefsOK /\ FilesOK /\ OwnLocks(p) /\ Shaped
        /\ UnlinkOK
  BY DEF Good, Core, Shaped, Locks, OwnLocks
<1>2. /\ pc[p] = "exists" /\ puts[p] = <<>> /\ put[p] = "no" /\ cur[p] = None
      /\ dp[p] = None /\ ip[p] \in Inums /\ p \in active /\ cwd[p] \in Inums
  BY <1>1 DEF CreateExists, At, Goto, Iputs, DropDp, Iget, Reads, Ilock, table, files, walk,
    locals, bounds, D!Begin, D!End, Shape, WithCur, WithDp, WithIp, NoPuts, Typed, ProcsTyped,
    FilesTyped
<1>3. IsInode(Inode(ip[p])) /\ \A n \in DOMAIN Inode(ip[p]).ents : Inode(ip[p]).ents[n] \in Inums
  BY <1>1, <1>2, InodeIs, EntsAre
<1>4. UNCHANGED <<durable, disk, active, ref, ftable, ofile, cwd, call, cur, rest, dp, put,
        strayed>>
  BY DEF CreateExists, At, Goto, Iputs, DropDp, Iget, Reads, Ilock, table, files, walk, locals,
    bounds, D!Begin, D!End
<1>5. \/ /\ lock[ip[p]] = Nobody /\ Inode(ip[p]).type # "free"
         /\ copy' = [copy EXCEPT ![ip[p]] = Inode(ip[p])]
         /\ lock' = [lock EXCEPT ![ip[p]] = p] /\ pc' = [pc EXCEPT ![p] = "opening"]
         /\ ip' = ip /\ puts' = puts
      \/ /\ lock[ip[p]] = Nobody /\ Inode(ip[p]).type # "free"
         /\ copy' = [copy EXCEPT ![ip[p]] = Inode(ip[p])] /\ lock' = lock
         /\ pc' = [pc EXCEPT ![p] = "end"] /\ ip' = [ip EXCEPT ![p] = None]
         /\ puts' = [puts EXCEPT ![p] = <<ip[p]>>]
  BY <1>1, <1>2, <1>3 DEF CreateExists, At, Goto, Iputs, DropDp, Iget, Reads, Ilock, table,
    files, walk, locals, bounds, D!Begin, D!End
<1>6. CASE /\ lock[ip[p]] = Nobody /\ Inode(ip[p]).type # "free"
             /\ copy' = [copy EXCEPT ![ip[p]] = Inode(ip[p])]
             /\ lock' = [lock EXCEPT ![ip[p]] = p] /\ pc' = [pc EXCEPT ![p] = "opening"]
             /\ ip' = ip /\ puts' = puts
  <2>1. /\ pc'[p] = "opening" /\ cur'[p] = cur[p] /\ ip'[p] = ip[p] /\ dp'[p] = dp[p]
        /\ puts'[p] = puts[p] /\ put'[p] = put[p] /\ rest'[p] = rest[p]
        /\ call'[p] = call[p] /\ cwd'[p] = cwd[p] /\ lock[ip[p]] = Nobody
        /\ Inode(ip[p]).type # "free"
    BY <1>1, <1>4, <1>6 DEF Typed, ProcsTyped, FilesTyped
  <2>2. Others(p) BY <1>1, <1>2, <1>4, <1>6 DEF Typed, ProcsTyped, FilesTyped, Others
  <2>3. ProcsTyped' BY <1>1, <1>2, <1>3, <1>4, <1>6, <2>1, SeqsAre DEF Typed, ProcsTyped, Labels
  <2>4. Counters' BY <1>1, <1>2, <1>3, <1>4, <1>6 DEF Counters, Typed, TableTyped
  <2>5. Kept
    <3>1. /\ disk' = disk /\ ip[p] \in Inums /\ lock[ip[p]] = Nobody
        /\ Inode(ip[p]).type # "free" /\ copy' = [copy EXCEPT ![ip[p]] = Inode(ip[p])]
      BY <1>1, <1>2, <1>3, <1>4, <1>6
    <3>2. Typed BY <1>1
    <3> QED BY <3>1, <3>2, ReadsKeeps
  <2>6. Shape(p)'
    BY <1>2, <1>3, <1>4, <2>1, SeqsAre, NoneIs DEF Shape, WithCur, WithDp, WithIp, NoPuts,
      Creates
  <2>7. LocksStep(p)
    BY <1>1, <1>2, <1>3, <1>4, <1>6, InodeIs DEF LocksStep, Typed, TableTyped, OwnLocks,
      HoldsLock, LocksIp, LocksDp
  <2>8. OwnLocks(p)'
    BY <1>1, <1>2, <1>3, <1>4, <1>6, <2>1, ProcsAssumption, SeqsAre DEF Typed, TableTyped,
      OwnLocks, HoldsLock, Freeing, LocksIp, LocksDp
  <2>9. (\A i \in Inums : Apart(p, i)') /\ SameBusy(p)
    BY <1>1, <1>2, <1>3, <1>4, <1>6, <2>1, SeqsAre DEF Apart, SameBusy, Freeing, Truncates
  <2>10. UnlinksOwn(p)' /\ PendsLess(p)
    BY <1>1, <1>2, <1>3, <1>4, <1>6, <2>1, NoneIs DEF UnlinksOwn, PendsLess, Pends
  <2>11. strayed => strayed' BY <1>4, <1>6
  <2>12. SameFiles(p) BY <1>1, <1>2, <1>3, <1>4, <1>6, <2>1 DEF SameFiles
  <2>13. Sound => strayed' \/ OnPath(p)
    <3> SUFFICES ASSUME Sound, ~ strayed' PROVE OnPath(p)
      OBVIOUS
    <3>1. \A i \in Inums : copy'[i] = copy[i] \/ copy'[i] = NotRead \/ i = ip[p]
      BY <1>1, <1>2, <1>3, <1>4, <1>6, IgetIs DEF Typed, TableTyped
    <3>2. Gets(p) BY <1>2, <1>3, <1>4, <2>1, PutsAre, NoneIs DEF Gets, Holds
    <3>3. Comes(p) BY <1>2, <1>3, <1>4, <2>1 DEF Comes, Reached
    <3>4. Rereads(p) BY <1>2, <1>3, <3>1 DEF Rereads, Holds
    <3>5. Parents(p)
      BY <1>2, <1>3, <1>4, <2>1, <1>1, InodeIs DEF Parents, Sound, Reaching, LinkedFile
    <3> QED BY <3>2, <3>3, <3>4, <3>5 DEF OnPath
  <2>14. ASSUME NEW k \in Inums PROVE ref'[k] + Mine(p, k) = ref[k] + Mine(p, k)'
    <3>1. ref'[k] = ref[k] /\ ref[k] \in Int
      BY <1>1, <1>2, <1>3, <1>4, <1>6 DEF Is, Typed, TableTyped
    <3>2. Mine(p, k) = Is(cwd[p], k) + Is(ip[p], k)
      BY <1>1, <1>2, <1>3, IsAre, PutsAre DEF Mine, CwdOf, IpOf
    <3>3. Mine(p, k)' = Is(cwd[p], k) + Is(ip[p], k)
      BY <1>2, <1>3, <1>4, <2>1, IsAre, PutsAre DEF Mine, CwdOf, IpOf
    <3>4. \A x : Is(x, k) \in Int BY IsAre
    <3> QED BY <3>1, <3>2, <3>3, <3>4
  <2>15. FilesTyped' /\ active' \subseteq Procs
    BY <1>1, <1>4, <1>6 DEF Typed, FilesTyped, DiskTyped
  <2> QED BY <1>4, <1>6, <2>2, <2>3, <2>4, <2>5, <2>6, <2>7, <2>8, <2>9, <2>10, <2>11, <2>12,
    <2>13, <2>14, <2>15, QuietStep
<1>7. CASE /\ lock[ip[p]] = Nobody /\ Inode(ip[p]).type # "free"
             /\ copy' = [copy EXCEPT ![ip[p]] = Inode(ip[p])] /\ lock' = lock
             /\ pc' = [pc EXCEPT ![p] = "end"] /\ ip' = [ip EXCEPT ![p] = None]
             /\ puts' = [puts EXCEPT ![p] = <<ip[p]>>]
  <2>1. /\ pc'[p] = "end" /\ cur'[p] = cur[p] /\ ip'[p] = None /\ dp'[p] = dp[p]
        /\ puts'[p] = <<ip[p]>> /\ put'[p] = put[p] /\ rest'[p] = rest[p]
        /\ call'[p] = call[p] /\ cwd'[p] = cwd[p] /\ lock[ip[p]] = Nobody
        /\ Inode(ip[p]).type # "free"
    BY <1>1, <1>4, <1>7 DEF Typed, ProcsTyped, FilesTyped
  <2>2. Others(p) BY <1>1, <1>2, <1>4, <1>7 DEF Typed, ProcsTyped, FilesTyped, Others
  <2>3. ProcsTyped' BY <1>1, <1>2, <1>3, <1>4, <1>7, <2>1, SeqsAre DEF Typed, ProcsTyped, Labels
  <2>4. Counters' BY <1>1, <1>2, <1>3, <1>4, <1>7 DEF Counters, Typed, TableTyped
  <2>5. Kept
    <3>1. /\ disk' = disk /\ ip[p] \in Inums /\ lock[ip[p]] = Nobody
        /\ Inode(ip[p]).type # "free" /\ copy' = [copy EXCEPT ![ip[p]] = Inode(ip[p])]
      BY <1>1, <1>2, <1>3, <1>4, <1>7
    <3>2. Typed BY <1>1
    <3> QED BY <3>1, <3>2, ReadsKeeps
  <2>6. Shape(p)'
    BY <1>2, <1>3, <1>4, <2>1, SeqsAre, NoneIs DEF Shape, WithCur, WithDp, WithIp, NoPuts,
      Creates
  <2>7. LocksStep(p) BY <1>4, <1>7 DEF LocksStep
  <2>8. OwnLocks(p)'
    BY <1>1, <1>2, <1>3, <1>4, <1>7, <2>1, ProcsAssumption, SeqsAre DEF Typed, TableTyped,
      OwnLocks, HoldsLock, Freeing, LocksIp, LocksDp
  <2>9. (\A i \in Inums : Apart(p, i)') /\ SameBusy(p)
    BY <1>1, <1>2, <1>3, <1>4, <1>7, <2>1, SeqsAre DEF Apart, SameBusy, Freeing, Truncates
  <2>10. UnlinksOwn(p)' /\ PendsLess(p)
    BY <1>1, <1>2, <1>3, <1>4, <1>7, <2>1, NoneIs DEF UnlinksOwn, PendsLess, Pends
  <2>11. strayed => strayed' BY <1>4, <1>7
  <2>12. SameFiles(p) BY <1>1, <1>2, <1>3, <1>4, <1>7, <2>1 DEF SameFiles
  <2>13. Sound => strayed' \/ OnPath(p)
    <3> SUFFICES ASSUME Sound, ~ strayed' PROVE OnPath(p)
      OBVIOUS
    <3>1. \A i \in Inums : copy'[i] = copy[i] \/ copy'[i] = NotRead \/ i = ip[p]
      BY <1>1, <1>2, <1>3, <1>4, <1>7, IgetIs DEF Typed, TableTyped
    <3>2. Gets(p) BY <1>2, <1>3, <1>4, <2>1, PutsAre, NoneIs DEF Gets, Holds
    <3>3. Comes(p) BY <1>2, <1>3, <1>4, <2>1 DEF Comes, Reached
    <3>4. Rereads(p) BY <1>2, <1>3, <3>1 DEF Rereads, Holds
    <3>5. Parents(p)
      BY <1>2, <1>3, <1>4, <2>1, <1>1, InodeIs DEF Parents, Sound, Reaching, LinkedFile
    <3> QED BY <3>2, <3>3, <3>4, <3>5 DEF OnPath
  <2>14. ASSUME NEW k \in Inums PROVE ref'[k] + Mine(p, k) = ref[k] + Mine(p, k)'
    <3>1. ref'[k] = ref[k] /\ ref[k] \in Int
      BY <1>1, <1>2, <1>3, <1>4, <1>7 DEF Is, Typed, TableTyped
    <3>2. Mine(p, k) = Is(cwd[p], k) + Is(ip[p], k)
      BY <1>1, <1>2, <1>3, IsAre, PutsAre DEF Mine, CwdOf, IpOf
    <3>3. Mine(p, k)' = Is(cwd[p], k) + Is(ip[p], k)
      BY <1>2, <1>3, <1>4, <2>1, IsAre, PutsAre DEF Mine, CwdOf, IpOf
    <3>4. \A x : Is(x, k) \in Int BY IsAre
    <3> QED BY <3>1, <3>2, <3>3, <3>4
  <2>15. FilesTyped' /\ active' \subseteq Procs
    BY <1>1, <1>4, <1>7 DEF Typed, FilesTyped, DiskTyped
  <2> QED BY <1>4, <1>7, <2>2, <2>3, <2>4, <2>5, <2>6, <2>7, <2>8, <2>9, <2>10, <2>11, <2>12,
    <2>13, <2>14, <2>15, QuietStep
<1> QED BY <1>5, <1>6, <1>7

\* mkdir() and mknod() are done with the inode.
LEMMA MadeGood ==
  ASSUME Good, NEW p \in Procs, Made(p)
  PROVE  Good'
<1>1. Typed /\ Shape(p) /\ Locks /\ Coherent /\ RefsOK /\ FilesOK /\ OwnLocks(p) /\ Shaped
        /\ UnlinkOK
  BY DEF Good, Core, Shaped, Locks, OwnLocks
<1>2. /\ pc[p] = "made" /\ puts[p] = <<>> /\ put[p] = "no" /\ cur[p] = None /\ dp[p] = None
      /\ ip[p] \in Inums /\ p \in active /\ cwd[p] \in Inums
  BY <1>1 DEF Made, At, Shape, WithCur, WithDp, WithIp, Typed, ProcsTyped, FilesTyped
<1>3. UNCHANGED <<durable, disk, active, ref, copy, ftable, ofile, cwd, call, cur, rest, dp,
        put, strayed>>
  BY DEF Made, files, walk
<1>4. /\ lock' = [lock EXCEPT ![ip[p]] = Nobody] /\ pc' = [pc EXCEPT ![p] = "end"]
      /\ ip' = [ip EXCEPT ![p] = None] /\ puts' = [puts EXCEPT ![p] = <<ip[p]>>]
  BY DEF Made, Goto, Iputs
<1>5. /\ pc'[p] = "end" /\ cur'[p] = cur[p] /\ ip'[p] = None /\ dp'[p] = dp[p]
      /\ puts'[p] = <<ip[p]>> /\ put'[p] = put[p] /\ rest'[p] = rest[p]
      /\ call'[p] = call[p] /\ cwd'[p] = cwd[p]
  BY <1>1, <1>3, <1>4 DEF Typed, ProcsTyped
<1>6. Others(p) BY <1>3, <1>4 DEF Others
<1>7. ProcsTyped' BY <1>1, <1>2, <1>3, <1>4 DEF Typed, ProcsTyped, Labels
<1>8. Counters' BY <1>1, <1>3, <1>4 DEF Counters, Typed, TableTyped
<1>9. Kept
  <2>1. /\ disk' = disk /\ copy' = copy BY <1>3
  <2>2. Typed BY <1>1
  <2> QED BY <2>1, <2>2, SameKeeps
<1>10. Shape(p)' BY <1>2, <1>3, <1>5 DEF Shape, WithCur, WithDp, WithIp, NoPuts
<1>11. LocksStep(p) BY <1>1, <1>2, <1>4 DEF LocksStep, OwnLocks, HoldsLock, LocksIp
<1>12. OwnLocks(p)'
  BY <1>1, <1>2, <1>4, <1>5, ProcsAssumption DEF Typed, TableTyped, OwnLocks, HoldsLock,
    Freeing, LocksIp, LocksDp
<1>13. (\A i \in Inums : Apart(p, i)') /\ SameBusy(p)
  BY <1>2, <1>5 DEF Apart, SameBusy, Freeing, Truncates
<1>14. UnlinksOwn(p)' /\ PendsLess(p) BY <1>5 DEF UnlinksOwn, PendsLess, Pends
<1>15. strayed => strayed' BY <1>3
<1>16. SameFiles(p) BY <1>3, <1>5 DEF SameFiles
<1>17. Sound => strayed' \/ OnPath(p)
  <2> SUFFICES ASSUME Sound, ~ strayed' PROVE OnPath(p)
    OBVIOUS
  <2>1. \A i \in Inums : copy'[i] = copy[i] \/ copy'[i] = NotRead \/ i = cur[p] BY <1>3
  <2>2. Gets(p) BY <1>2, <1>5, PutsAre DEF Gets, Holds
  <2>3. Comes(p) BY <1>2, <1>5 DEF Comes, Reached
  <2>4. Rereads(p) BY <2>1 DEF Rereads, Holds
  <2>5. Parents(p) BY <1>2, <1>5 DEF Parents
  <2> QED BY <2>2, <2>3, <2>4, <2>5 DEF OnPath
<1>18. ASSUME NEW k \in Inums PROVE ref'[k] + Mine(p, k) = ref[k] + Mine(p, k)'
  <2>1. ref'[k] = ref[k] /\ ref[k] \in Int BY <1>1, <1>3 DEF Typed, TableTyped
  <2>2. Mine(p, k) = Is(cwd[p], k) + Is(ip[p], k) BY <1>2, IsAre, PutsAre DEF Mine, CwdOf, IpOf
  <2>3. Mine(p, k)' = Is(cwd[p], k) + Is(ip[p], k)
    BY <1>2, <1>5, IsAre, PutsAre DEF Mine, CwdOf, IpOf
  <2>4. \A x : Is(x, k) \in Int BY IsAre
  <2> QED BY <2>1, <2>2, <2>3
<1>19. FilesTyped' /\ active' \subseteq Procs
  BY <1>1, <1>3, <1>4 DEF Typed, FilesTyped, DiskTyped
<1> QED BY <1>3, <1>6, <1>7, <1>8, <1>9, <1>10, <1>11, <1>12, <1>13, <1>14, <1>15, <1>16, <1>17,
  <1>18, <1>19, QuietStep

\* open() has found its inode and locks it.
LEMMA OpenFoundGood ==
  ASSUME Good, NEW p \in Procs, OpenFound(p)
  PROVE  Good'
<1>1. Typed /\ Shape(p) /\ Locks /\ Coherent /\ RefsOK /\ FilesOK /\ OwnLocks(p) /\ Shaped
        /\ UnlinkOK
  BY DEF Good, Core, Shaped, Locks, OwnLocks
<1>2. /\ pc[p] = "found" /\ puts[p] = <<>> /\ put[p] = "no" /\ cur[p] \in Inums
      /\ dp[p] = None /\ ip[p] = None /\ p \in active /\ cwd[p] \in Inums
  BY <1>1 DEF OpenFound, At, Goto, Iputs, DropDp, Iget, Reads, Ilock, table, files, walk,
    locals, bounds, D!Begin, D!End, Shape, WithCur, WithDp, WithIp, NoPuts, Typed, ProcsTyped,
    FilesTyped
<1>3. IsInode(Inode(cur[p])) /\ \A n \in DOMAIN Inode(cur[p]).ents : Inode(cur[p]).ents[n] \in Inums
  BY <1>1, <1>2, InodeIs, EntsAre
<1>4. UNCHANGED <<durable, disk, active, ref, ftable, ofile, cwd, call, rest, dp, put, strayed>>
  BY DEF OpenFound, At, Goto, Iputs, DropDp, Iget, Reads, Ilock, table, files, walk, locals,
    bounds, D!Begin, D!End
<1>5. \/ /\ lock[cur[p]] = Nobody /\ Inode(cur[p]).type # "free"
         /\ copy' = [copy EXCEPT ![cur[p]] = Inode(cur[p])] /\ lock' = lock
         /\ pc' = [pc EXCEPT ![p] = "end"] /\ cur' = [cur EXCEPT ![p] = None] /\ ip' = ip
         /\ puts' = [puts EXCEPT ![p] = <<cur[p]>>]
      \/ /\ lock[cur[p]] = Nobody /\ Inode(cur[p]).type # "free"
         /\ copy' = [copy EXCEPT ![cur[p]] = Inode(cur[p])]
         /\ lock' = [lock EXCEPT ![cur[p]] = p] /\ pc' = [pc EXCEPT ![p] = "opening"]
         /\ cur' = [cur EXCEPT ![p] = None] /\ ip' = [ip EXCEPT ![p] = cur[p]]
         /\ puts' = puts
  BY <1>1, <1>2, <1>3 DEF OpenFound, At, Goto, Iputs, DropDp, Iget, Reads, Ilock, table, files,
    walk, locals, bounds, D!Begin, D!End
<1>6. CASE /\ lock[cur[p]] = Nobody /\ Inode(cur[p]).type # "free"
             /\ copy' = [copy EXCEPT ![cur[p]] = Inode(cur[p])] /\ lock' = lock
             /\ pc' = [pc EXCEPT ![p] = "end"] /\ cur' = [cur EXCEPT ![p] = None]
             /\ ip' = ip /\ puts' = [puts EXCEPT ![p] = <<cur[p]>>]
  <2>1. /\ pc'[p] = "end" /\ cur'[p] = None /\ ip'[p] = ip[p] /\ dp'[p] = dp[p]
        /\ puts'[p] = <<cur[p]>> /\ put'[p] = put[p] /\ rest'[p] = rest[p]
        /\ call'[p] = call[p] /\ cwd'[p] = cwd[p] /\ lock[cur[p]] = Nobody
        /\ Inode(cur[p]).type # "free"
    BY <1>1, <1>4, <1>6 DEF Typed, ProcsTyped, FilesTyped
  <2>2. Others(p) BY <1>1, <1>2, <1>4, <1>6 DEF Typed, ProcsTyped, FilesTyped, Others
  <2>3. ProcsTyped' BY <1>1, <1>2, <1>3, <1>4, <1>6, <2>1, SeqsAre DEF Typed, ProcsTyped, Labels
  <2>4. Counters' BY <1>1, <1>2, <1>3, <1>4, <1>6 DEF Counters, Typed, TableTyped
  <2>5. Kept
    <3>1. /\ disk' = disk /\ cur[p] \in Inums /\ lock[cur[p]] = Nobody
        /\ Inode(cur[p]).type # "free" /\ copy' = [copy EXCEPT ![cur[p]] = Inode(cur[p])]
      BY <1>1, <1>2, <1>3, <1>4, <1>6
    <3>2. Typed BY <1>1
    <3> QED BY <3>1, <3>2, ReadsKeeps
  <2>6. Shape(p)'
    BY <1>2, <1>3, <1>4, <2>1, SeqsAre, NoneIs DEF Shape, WithCur, WithDp, WithIp, NoPuts,
      Creates
  <2>7. LocksStep(p) BY <1>4, <1>6 DEF LocksStep
  <2>8. OwnLocks(p)'
    BY <1>1, <1>2, <1>3, <1>4, <1>6, <2>1, ProcsAssumption, SeqsAre DEF Typed, TableTyped,
      OwnLocks, HoldsLock, Freeing, LocksIp, LocksDp
  <2>9. (\A i \in Inums : Apart(p, i)') /\ SameBusy(p)
    BY <1>1, <1>2, <1>3, <1>4, <1>6, <2>1, SeqsAre DEF Apart, SameBusy, Freeing, Truncates
  <2>10. UnlinksOwn(p)' /\ PendsLess(p)
    BY <1>1, <1>2, <1>3, <1>4, <1>6, <2>1, NoneIs DEF UnlinksOwn, PendsLess, Pends
  <2>11. strayed => strayed' BY <1>4, <1>6
  <2>12. SameFiles(p) BY <1>1, <1>2, <1>3, <1>4, <1>6, <2>1 DEF SameFiles
  <2>13. Sound => strayed' \/ OnPath(p)
    <3> SUFFICES ASSUME Sound, ~ strayed' PROVE OnPath(p)
      OBVIOUS
    <3>1. \A i \in Inums : copy'[i] = copy[i] \/ copy'[i] = NotRead \/ i = cur[p]
      BY <1>1, <1>2, <1>3, <1>4, <1>6, IgetIs DEF Typed, TableTyped
    <3>2. Gets(p) BY <1>2, <1>3, <1>4, <2>1, PutsAre, NoneIs DEF Gets, Holds
    <3>3. Comes(p) BY <1>2, <1>3, <1>4, <2>1 DEF Comes, Reached
    <3>4. Rereads(p) BY <1>2, <1>3, <3>1 DEF Rereads, Holds
    <3>5. Parents(p)
      BY <1>2, <1>3, <1>4, <2>1, <1>1, InodeIs DEF Parents, Sound, Reaching, LinkedFile
    <3> QED BY <3>2, <3>3, <3>4, <3>5 DEF OnPath
  <2>14. ASSUME NEW k \in Inums PROVE ref'[k] + Mine(p, k) = ref[k] + Mine(p, k)'
    <3>1. ref'[k] = ref[k] /\ ref[k] \in Int
      BY <1>1, <1>2, <1>3, <1>4, <1>6 DEF Is, Typed, TableTyped
    <3>2. Mine(p, k) = Is(cwd[p], k) + Is(cur[p], k)
      BY <1>1, <1>2, <1>3, IsAre, PutsAre DEF Mine, CwdOf, IpOf
    <3>3. Mine(p, k)' = Is(cwd[p], k) + Is(cur[p], k)
      BY <1>2, <1>3, <1>4, <2>1, IsAre, PutsAre DEF Mine, CwdOf, IpOf
    <3>4. \A x : Is(x, k) \in Int BY IsAre
    <3> QED BY <3>1, <3>2, <3>3, <3>4
  <2>15. FilesTyped' /\ active' \subseteq Procs
    BY <1>1, <1>4, <1>6 DEF Typed, FilesTyped, DiskTyped
  <2> QED BY <1>4, <1>6, <2>2, <2>3, <2>4, <2>5, <2>6, <2>7, <2>8, <2>9, <2>10, <2>11, <2>12,
    <2>13, <2>14, <2>15, QuietStep
<1>7. CASE /\ lock[cur[p]] = Nobody /\ Inode(cur[p]).type # "free"
             /\ copy' = [copy EXCEPT ![cur[p]] = Inode(cur[p])]
             /\ lock' = [lock EXCEPT ![cur[p]] = p] /\ pc' = [pc EXCEPT ![p] = "opening"]
             /\ cur' = [cur EXCEPT ![p] = None] /\ ip' = [ip EXCEPT ![p] = cur[p]]
             /\ puts' = puts
  <2>1. /\ pc'[p] = "opening" /\ cur'[p] = None /\ ip'[p] = cur[p] /\ dp'[p] = dp[p]
        /\ puts'[p] = puts[p] /\ put'[p] = put[p] /\ rest'[p] = rest[p]
        /\ call'[p] = call[p] /\ cwd'[p] = cwd[p] /\ lock[cur[p]] = Nobody
        /\ Inode(cur[p]).type # "free"
    BY <1>1, <1>4, <1>7 DEF Typed, ProcsTyped, FilesTyped
  <2>2. Others(p) BY <1>1, <1>2, <1>4, <1>7 DEF Typed, ProcsTyped, FilesTyped, Others
  <2>3. ProcsTyped' BY <1>1, <1>2, <1>3, <1>4, <1>7, <2>1, SeqsAre DEF Typed, ProcsTyped, Labels
  <2>4. Counters' BY <1>1, <1>2, <1>3, <1>4, <1>7 DEF Counters, Typed, TableTyped
  <2>5. Kept
    <3>1. /\ disk' = disk /\ cur[p] \in Inums /\ lock[cur[p]] = Nobody
        /\ Inode(cur[p]).type # "free" /\ copy' = [copy EXCEPT ![cur[p]] = Inode(cur[p])]
      BY <1>1, <1>2, <1>3, <1>4, <1>7
    <3>2. Typed BY <1>1
    <3> QED BY <3>1, <3>2, ReadsKeeps
  <2>6. Shape(p)'
    BY <1>2, <1>3, <1>4, <2>1, SeqsAre, NoneIs DEF Shape, WithCur, WithDp, WithIp, NoPuts,
      Creates
  <2>7. LocksStep(p)
    BY <1>1, <1>2, <1>3, <1>4, <1>7, InodeIs DEF LocksStep, Typed, TableTyped, OwnLocks,
      HoldsLock, LocksIp, LocksDp
  <2>8. OwnLocks(p)'
    BY <1>1, <1>2, <1>3, <1>4, <1>7, <2>1, ProcsAssumption, SeqsAre DEF Typed, TableTyped,
      OwnLocks, HoldsLock, Freeing, LocksIp, LocksDp
  <2>9. (\A i \in Inums : Apart(p, i)') /\ SameBusy(p)
    BY <1>1, <1>2, <1>3, <1>4, <1>7, <2>1, SeqsAre DEF Apart, SameBusy, Freeing, Truncates
  <2>10. UnlinksOwn(p)' /\ PendsLess(p)
    BY <1>1, <1>2, <1>3, <1>4, <1>7, <2>1, NoneIs DEF UnlinksOwn, PendsLess, Pends
  <2>11. strayed => strayed' BY <1>4, <1>7
  <2>12. SameFiles(p) BY <1>1, <1>2, <1>3, <1>4, <1>7, <2>1 DEF SameFiles
  <2>13. Sound => strayed' \/ OnPath(p)
    <3> SUFFICES ASSUME Sound, ~ strayed' PROVE OnPath(p)
      OBVIOUS
    <3>1. \A i \in Inums : copy'[i] = copy[i] \/ copy'[i] = NotRead \/ i = cur[p]
      BY <1>1, <1>2, <1>3, <1>4, <1>7, IgetIs DEF Typed, TableTyped
    <3>2. Gets(p) BY <1>2, <1>3, <1>4, <2>1, PutsAre, NoneIs DEF Gets, Holds
    <3>3. Comes(p) BY <1>2, <1>3, <1>4, <2>1 DEF Comes, Reached
    <3>4. Rereads(p) BY <1>2, <1>3, <3>1 DEF Rereads, Holds
    <3>5. Parents(p)
      BY <1>2, <1>3, <1>4, <2>1, <1>1, InodeIs DEF Parents, Sound, Reaching, LinkedFile
    <3> QED BY <3>2, <3>3, <3>4, <3>5 DEF OnPath
  <2>14. ASSUME NEW k \in Inums PROVE ref'[k] + Mine(p, k) = ref[k] + Mine(p, k)'
    <3>1. ref'[k] = ref[k] /\ ref[k] \in Int
      BY <1>1, <1>2, <1>3, <1>4, <1>7 DEF Is, Typed, TableTyped
    <3>2. Mine(p, k) = Is(cwd[p], k) + Is(cur[p], k)
      BY <1>1, <1>2, <1>3, IsAre, PutsAre DEF Mine, CwdOf, IpOf
    <3>3. Mine(p, k)' = Is(cwd[p], k) + Is(cur[p], k)
      BY <1>2, <1>3, <1>4, <2>1, IsAre, PutsAre, Z3 DEF Mine, CwdOf, IpOf
    <3>4. \A x : Is(x, k) \in Int BY IsAre
    <3> QED BY <3>1, <3>2, <3>3, <3>4
  <2>15. FilesTyped' /\ active' \subseteq Procs
    BY <1>1, <1>4, <1>7 DEF Typed, FilesTyped, DiskTyped
  <2> QED BY <1>4, <1>7, <2>2, <2>3, <2>4, <2>5, <2>6, <2>7, <2>8, <2>9, <2>10, <2>11, <2>12,
    <2>13, <2>14, <2>15, QuietStep
<1> QED BY <1>5, <1>6, <1>7

\* open() makes a file and a descriptor.
LEMMA OpenQuiet ==
  ASSUME Good, NEW p \in Procs, Open(p), pc'[p] # "truncating"
  PROVE  Good'
<1>1. Typed /\ Shape(p) /\ Locks /\ Coherent /\ RefsOK /\ FilesOK /\ OwnLocks(p) /\ Shaped
        /\ UnlinkOK
  BY DEF Good, Core, Shaped, Locks, OwnLocks
<1>2. /\ pc[p] = "opening" /\ puts[p] = <<>> /\ put[p] = "no" /\ cur[p] = None
      /\ dp[p] = None /\ ip[p] \in Inums /\ p \in active /\ cwd[p] \in Inums
  BY <1>1 DEF Open, At, Goto, Iputs, DropDp, Iget, Reads, Ilock, table, files, walk, locals,
    bounds, D!Begin, D!End, Typed, ProcsTyped, Shape, WithCur, WithDp, WithIp, NoPuts, Typed,
    ProcsTyped, FilesTyped
<1>3. UNCHANGED <<durable, disk, active, ref, copy, cwd, call, cur, rest, dp, put, strayed>>
  BY <1>1, <1>2 DEF Open, At, Goto, Iputs, DropDp, Iget, Reads, Ilock, table, files, walk,
    locals, bounds, D!Begin, D!End, Typed, ProcsTyped
<1>4. \/ /\ FreeFiles # {} /\ FreeFds(p) # {} /\ lock' = [lock EXCEPT ![ip[p]] = Nobody]
         /\ ftable' = [ftable EXCEPT ![Min(FreeFiles)] = [ref |-> 1, ip |-> ip[p], off |-> 0,
              readable |-> "read" \in call[p].mode, writable |-> "write" \in call[p].mode]]
         /\ ofile' = [ofile EXCEPT ![p][Min(FreeFds(p))] = Min(FreeFiles)]
         /\ pc' = [pc EXCEPT ![p] = "end"] /\ ip' = [ip EXCEPT ![p] = None] /\ puts' = puts
      \/ /\ lock' = [lock EXCEPT ![ip[p]] = Nobody] /\ ftable' = ftable /\ ofile' = ofile
         /\ pc' = [pc EXCEPT ![p] = "end"] /\ ip' = [ip EXCEPT ![p] = None]
         /\ puts' = [puts EXCEPT ![p] = <<ip[p]>>]
  BY <1>1, <1>2 DEF Open, At, Goto, Iputs, DropDp, Iget, Reads, Ilock, table, files, walk,
    locals, bounds, D!Begin, D!End, Typed, ProcsTyped
<1>5. CASE /\ FreeFiles # {} /\ FreeFds(p) # {} /\ lock' = [lock EXCEPT ![ip[p]] = Nobody]
             /\ ftable' = [ftable EXCEPT ![Min(FreeFiles)] = [ref |-> 1, ip |-> ip[p],
                  off |-> 0, readable |-> "read" \in call[p].mode,
                    writable |-> "write" \in call[p].mode]]
             /\ ofile' = [ofile EXCEPT ![p][Min(FreeFds(p))] = Min(FreeFiles)]
             /\ pc' = [pc EXCEPT ![p] = "end"] /\ ip' = [ip EXCEPT ![p] = None]
             /\ puts' = puts
  <2>1. /\ pc'[p] = "end" /\ cur'[p] = cur[p] /\ ip'[p] = None /\ dp'[p] = dp[p]
        /\ puts'[p] = puts[p] /\ put'[p] = put[p] /\ rest'[p] = rest[p]
        /\ call'[p] = call[p] /\ cwd'[p] = cwd[p] /\ FreeFiles # {} /\ FreeFds(p) # {}
    BY <1>1, <1>3, <1>5 DEF Typed, ProcsTyped, FilesTyped
  <2>2. Others(p) BY <1>1, <1>2, <1>3, <1>5 DEF Typed, ProcsTyped, FilesTyped, Others
  <2>3. ProcsTyped' BY <1>1, <1>2, <1>3, <1>5, <2>1, SeqsAre DEF Typed, ProcsTyped, Labels
  <2>4. ref' \in [Inums -> Int] /\ lock' \in [Inums -> Procs \cup {Nobody}]
    BY <1>1, <1>2, <1>3, <1>5 DEF Typed, TableTyped
  <2>5. Kept /\ \A k \in Inums : copy'[k] # NotRead => IsInode(copy'[k])
    <3>1. /\ disk' = disk /\ copy' = copy BY <1>1, <1>2, <1>3, <1>5
    <3>2. Typed BY <1>1
    <3> QED BY <3>1, <3>2, SameKeeps
  <2>6. Shape(p)'
    BY <1>2, <1>3, <2>1, SeqsAre, NoneIs DEF Shape, WithCur, WithDp, WithIp, NoPuts, Creates
  <2>7. \A i \in Inums : \/ lock'[i] = lock[i]
                         \/ lock'[i] = p /\ lock[i] = Nobody /\ copy'[i] # NotRead
                         \/ lock'[i] = Nobody /\ lock[i] = p
    BY <1>1, <1>2, <1>3, <1>5, InodeIs, IgetIs DEF Typed, TableTyped, OwnLocks, HoldsLock,
      LocksIp, LocksDp
  <2>8. LocksMove(p) BY <1>1, <2>5, <2>7, LocksMoveIs
  <2>9. OwnLocks(p)'
    BY <1>1, <1>2, <1>3, <1>5, <2>1, ProcsAssumption, SeqsAre DEF Typed, TableTyped, OwnLocks,
      HoldsLock, Freeing, LocksIp, LocksDp
  <2>10. (\A i \in Inums : Apart(p, i)') /\ SameBusy(p)
    BY <1>1, <1>2, <1>3, <1>5, <2>1, SeqsAre DEF Apart, SameBusy, Freeing, Truncates
  <2>11. UnlinksOwn(p)' /\ PendsLess(p)
    BY <1>1, <1>2, <1>3, <1>5, <2>1, NoneIs DEF UnlinksOwn, PendsLess, Pends
  <2>12. strayed => strayed' BY <1>3, <1>5
  <2>13. /\ FilesOK' /\ FilesTyped'
         /\ \A k \in Inums : Count(FileRef, k)' = Count(FileRef, k) - Is(None, k) + Is(ip[p], k)
         /\ \A k \in Inums : InFile(k)' => InFile(k) \/ k = ip[p]
    <3>1. /\ FreeFiles # {} /\ FreeFds(p) # {} /\ ("read" \in call[p].mode) \in BOOLEAN
         /\ ("write" \in call[p].mode) \in BOOLEAN
         /\ ftable' = [ftable EXCEPT ![Min(FreeFiles)] =
              [ref |-> 1, ip |-> ip[p], off |-> 0, readable |-> "read" \in call[p].mode,
                writable |-> "write" \in call[p].mode]]
         /\ ofile' = [ofile EXCEPT ![p][Min(FreeFds(p))] = Min(FreeFiles)]
         /\ cwd' = cwd /\ call' = call /\ (pc'[p] = "truncating" => ip'[p] = ip[p])
              /\ ip[p] \in Inums
      BY <1>2, <1>3, <1>5, <2>1
    <3> QED BY <1>1, <3>1, <2>2, OpenFiles
  <2>14. \A i \in Inums : InFile(i)' => InFile(i) \/ Holds(p, i) BY <2>13, <1>1, <1>2 DEF Holds
  <2>15. Sound => strayed' \/ Goes(p)
    <3> SUFFICES ASSUME Sound, ~ strayed' PROVE Goes(p)
      OBVIOUS
    <3>1. \A i \in Inums : copy'[i] = copy[i] \/ copy'[i] = NotRead \/ i = None
      BY <1>1, <1>2, <1>3, <1>5, IgetIs DEF Typed, TableTyped
    <3>2. \A i \in Inums : Holds(p, i)' => Holds(p, i) \/ InFile(i) \/ View[i].nlink >= 1
      BY <1>2, <1>3, <2>1, PutsAre, NoneIs DEF Holds
    <3>3. \A i \in Inums : Reached(p, i)' => Reached(p, i) \/ HasEntries(i)
      BY <1>2, <1>3, <2>1 DEF Reached
    <3>4. \A i \in Inums : copy'[i] = copy[i] \/ copy'[i] = NotRead \/ Holds(p, i) \/ InFile(i)
      BY <1>2, <3>1 DEF Holds
    <3>5. /\ dp'[p] # None => dp'[p] \in Inums /\ View[dp'[p]].type = "dir"
          /\ pc'[p] \in {"walk", "parent", "giveUp", "linkBad"} /\ ip'[p] # None =>
               ip'[p] \in Inums /\ View[ip'[p]].type # "dir"
      BY <1>2, <1>3, <2>1, <1>1, InodeIs DEF Sound, Reaching, LinkedFile
    <3> QED BY <3>2, <3>3, <3>4, <3>5, <2>14 DEF Goes
  <2>16. ASSUME NEW k \in Inums
           PROVE ref'[k] + Mine(p, k) + Is(None, k) = ref[k] + Mine(p, k)' + Is(ip[p], k)
    <3>1. ref'[k] = ref[k] /\ ref[k] \in Int BY <1>1, <1>2, <1>3, <1>5 DEF Is, Typed, TableTyped
    <3>2. Mine(p, k) = Is(cwd[p], k) + Is(ip[p], k)
      BY <1>1, <1>2, IsAre, PutsAre DEF Mine, CwdOf, IpOf
    <3>3. Mine(p, k)' = Is(cwd[p], k) BY <1>2, <1>3, <2>1, IsAre, PutsAre DEF Mine, CwdOf, IpOf
    <3>4. (\A x : Is(x, k) \in Int) /\ Is(None, k) = 0 BY IsAre
    <3> QED BY <3>1, <3>2, <3>3, <3>4, <1>5
  <2>17. Typed'
    BY <1>1, <1>2, <1>3, <1>5, <2>3, <2>4, <2>5, <2>13 DEF Typed, DiskTyped, TableTyped, Kept
  <2>18. RefsOK' /\ FilesOK' BY <1>1, <2>17, <2>2, <2>13, <2>16, RefsKept
  <2> QED BY <1>3, <1>5, <2>2, <2>5, <2>6, <2>8, <2>9, <2>10, <2>11, <2>12, <2>15, <2>17, <2>18,
    QuietGood
<1>6. CASE /\ lock' = [lock EXCEPT ![ip[p]] = Nobody] /\ ftable' = ftable
             /\ ofile' = ofile /\ pc' = [pc EXCEPT ![p] = "end"]
             /\ ip' = [ip EXCEPT ![p] = None] /\ puts' = [puts EXCEPT ![p] = <<ip[p]>>]
  <2>1. /\ pc'[p] = "end" /\ cur'[p] = cur[p] /\ ip'[p] = None /\ dp'[p] = dp[p]
        /\ puts'[p] = <<ip[p]>> /\ put'[p] = put[p] /\ rest'[p] = rest[p]
        /\ call'[p] = call[p] /\ cwd'[p] = cwd[p]
    BY <1>1, <1>3, <1>6 DEF Typed, ProcsTyped, FilesTyped
  <2>2. Others(p) BY <1>1, <1>2, <1>3, <1>6 DEF Typed, ProcsTyped, FilesTyped, Others
  <2>3. ProcsTyped' BY <1>1, <1>2, <1>3, <1>6, <2>1, SeqsAre DEF Typed, ProcsTyped, Labels
  <2>4. ref' \in [Inums -> Int] /\ lock' \in [Inums -> Procs \cup {Nobody}]
    BY <1>1, <1>2, <1>3, <1>6 DEF Typed, TableTyped
  <2>5. Kept /\ \A k \in Inums : copy'[k] # NotRead => IsInode(copy'[k])
    <3>1. /\ disk' = disk /\ copy' = copy BY <1>1, <1>2, <1>3, <1>6
    <3>2. Typed BY <1>1
    <3> QED BY <3>1, <3>2, SameKeeps
  <2>6. Shape(p)'
    BY <1>2, <1>3, <2>1, SeqsAre, NoneIs DEF Shape, WithCur, WithDp, WithIp, NoPuts, Creates
  <2>7. \A i \in Inums : \/ lock'[i] = lock[i]
                         \/ lock'[i] = p /\ lock[i] = Nobody /\ copy'[i] # NotRead
                         \/ lock'[i] = Nobody /\ lock[i] = p
    BY <1>1, <1>2, <1>3, <1>6, InodeIs, IgetIs DEF Typed, TableTyped, OwnLocks, HoldsLock,
      LocksIp, LocksDp
  <2>8. LocksMove(p) BY <1>1, <2>5, <2>7, LocksMoveIs
  <2>9. OwnLocks(p)'
    BY <1>1, <1>2, <1>3, <1>6, <2>1, ProcsAssumption, SeqsAre DEF Typed, TableTyped, OwnLocks,
      HoldsLock, Freeing, LocksIp, LocksDp
  <2>10. (\A i \in Inums : Apart(p, i)') /\ SameBusy(p)
    BY <1>1, <1>2, <1>3, <1>6, <2>1, SeqsAre DEF Apart, SameBusy, Freeing, Truncates
  <2>11. UnlinksOwn(p)' /\ PendsLess(p)
    BY <1>1, <1>2, <1>3, <1>6, <2>1, NoneIs DEF UnlinksOwn, PendsLess, Pends
  <2>12. strayed => strayed' BY <1>3, <1>6
  <2>13. /\ FilesOK' /\ FilesTyped'
         /\ \A k \in Inums : Count(FileRef, k)' = Count(FileRef, k) - Is(None, k) + Is(None, k)
         /\ \A k \in Inums : InFile(k)' => InFile(k)
    <3>1. SameFiles(p) BY <1>1, <1>3, <1>6, <2>1 DEF SameFiles
    <3>2. FilesOK' /\ \A k : InFile(k)' <=> InFile(k) BY <1>1, <2>2, <3>1, FilesStay
    <3>3. FileRef' = FileRef BY <1>3, <1>6 DEF FileRef
    <3>4. FilesTyped' BY <1>1, <1>3, <1>6 DEF Typed, FilesTyped
    <3>5. \A k : Count(FileRef, k)' = Count(FileRef, k) BY <3>3 DEF Count
    <3> QED BY <1>1, <3>2, <3>4, <3>5, IsAre, CountsAre
  <2>14. \A i \in Inums : InFile(i)' => InFile(i) \/ Holds(p, i) BY <2>13, <1>1, <1>2 DEF Holds
  <2>15. Sound => strayed' \/ Goes(p)
    <3> SUFFICES ASSUME Sound, ~ strayed' PROVE Goes(p)
      OBVIOUS
    <3>1. \A i \in Inums : copy'[i] = copy[i] \/ copy'[i] = NotRead \/ i = None
      BY <1>1, <1>2, <1>3, <1>6, IgetIs DEF Typed, TableTyped
    <3>2. \A i \in Inums : Holds(p, i)' => Holds(p, i) \/ InFile(i) \/ View[i].nlink >= 1
      BY <1>2, <1>3, <2>1, PutsAre, NoneIs DEF Holds
    <3>3. \A i \in Inums : Reached(p, i)' => Reached(p, i) \/ HasEntries(i)
      BY <1>2, <1>3, <2>1 DEF Reached
    <3>4. \A i \in Inums : copy'[i] = copy[i] \/ copy'[i] = NotRead \/ Holds(p, i) \/ InFile(i)
      BY <1>2, <3>1 DEF Holds
    <3>5. /\ dp'[p] # None => dp'[p] \in Inums /\ View[dp'[p]].type = "dir"
          /\ pc'[p] \in {"walk", "parent", "giveUp", "linkBad"} /\ ip'[p] # None =>
               ip'[p] \in Inums /\ View[ip'[p]].type # "dir"
      BY <1>2, <1>3, <2>1, <1>1, InodeIs DEF Sound, Reaching, LinkedFile
    <3> QED BY <3>2, <3>3, <3>4, <3>5, <2>14 DEF Goes
  <2>16. ASSUME NEW k \in Inums
           PROVE ref'[k] + Mine(p, k) + Is(None, k) = ref[k] + Mine(p, k)' + Is(None, k)
    <3>1. ref'[k] = ref[k] /\ ref[k] \in Int BY <1>1, <1>2, <1>3, <1>6 DEF Is, Typed, TableTyped
    <3>2. Mine(p, k) = Is(cwd[p], k) + Is(ip[p], k)
      BY <1>1, <1>2, IsAre, PutsAre DEF Mine, CwdOf, IpOf
    <3>5. Put1(puts'[p]) = ip[p] /\ Put2(puts'[p]) = None BY <2>1, PutsAre
    <3>3. Mine(p, k)' = Is(cwd[p], k) + Is(ip[p], k)
      BY <1>2, <1>3, <2>1, <3>5, IsAre, PutsAre DEF Mine, CwdOf, IpOf
    <3>4. (\A x : Is(x, k) \in Int) /\ Is(None, k) = 0 BY IsAre
    <3> QED BY <3>1, <3>2, <3>3, <3>4
  <2>17. Typed'
    BY <1>1, <1>2, <1>3, <1>6, <2>3, <2>4, <2>5, <2>13 DEF Typed, DiskTyped, TableTyped, Kept
  <2>18. RefsOK' /\ FilesOK' BY <1>1, <2>17, <2>2, <2>13, <2>16, RefsKept
  <2> QED BY <1>3, <1>6, <2>2, <2>5, <2>6, <2>8, <2>9, <2>10, <2>11, <2>12, <2>15, <2>17, <2>18,
    QuietGood
<1> QED BY <1>4, <1>5, <1>6

-----
\* Those of link() and unlink().
\* link() counts the link.
LEMMA LinkQuiet ==
  ASSUME Good, NEW p \in Procs, Link(p), pc'[p] # "walk"
  PROVE  Good'
<1>1. Typed /\ Shape(p) /\ Locks /\ Coherent /\ RefsOK /\ FilesOK /\ OwnLocks(p) /\ Shaped
        /\ UnlinkOK
  BY DEF Good, Core, Shaped, Locks, OwnLocks
<1>2. /\ pc[p] = "found" /\ puts[p] = <<>> /\ put[p] = "no" /\ cur[p] \in Inums
      /\ dp[p] = None /\ ip[p] = None /\ p \in active /\ cwd[p] \in Inums
  BY <1>1 DEF Link, At, Goto, Iputs, DropDp, Iget, Reads, Ilock, table, files, walk, locals,
    bounds, D!Begin, D!End, Typed, ProcsTyped, Shape, WithCur, WithDp, WithIp, NoPuts, Typed,
    ProcsTyped, FilesTyped
<1>3. IsInode(Inode(cur[p])) /\ \A n \in DOMAIN Inode(cur[p]).ents : Inode(cur[p]).ents[n] \in Inums
  BY <1>1, <1>2, InodeIs, EntsAre
<1>4. UNCHANGED <<durable, disk, active, ref, lock, ftable, ofile, cwd, call, rest, ip, dp, put,
        strayed>>
  BY <1>1, <1>2 DEF Link, At, Goto, Iputs, DropDp, Iget, Reads, Ilock, table, files, walk,
    locals, bounds, D!Begin, D!End, Typed, ProcsTyped
<1>5. /\ lock[cur[p]] = Nobody /\ Inode(cur[p]).type # "free"
      /\ copy' = [copy EXCEPT ![cur[p]] = Inode(cur[p])] /\ pc' = [pc EXCEPT ![p] = "end"]
      /\ cur' = [cur EXCEPT ![p] = None] /\ puts' = [puts EXCEPT ![p] = <<cur[p]>>]
  BY <1>1, <1>2, <1>3 DEF Link, At, Goto, Iputs, DropDp, Iget, Reads, Ilock, table, files, walk,
    locals, bounds, D!Begin, D!End, Typed, ProcsTyped
<1>6. /\ pc'[p] = "end" /\ cur'[p] = None /\ ip'[p] = ip[p] /\ dp'[p] = dp[p]
      /\ puts'[p] = <<cur[p]>> /\ put'[p] = put[p] /\ rest'[p] = rest[p]
      /\ call'[p] = call[p] /\ cwd'[p] = cwd[p] /\ lock[cur[p]] = Nobody
      /\ Inode(cur[p]).type # "free"
  BY <1>1, <1>4, <1>5 DEF Typed, ProcsTyped, FilesTyped
<1>7. Others(p) BY <1>1, <1>2, <1>4, <1>5 DEF Typed, ProcsTyped, FilesTyped, Others
<1>8. ProcsTyped' BY <1>1, <1>2, <1>3, <1>4, <1>5, <1>6, SeqsAre DEF Typed, ProcsTyped, Labels
<1>9. Counters' BY <1>1, <1>2, <1>3, <1>4, <1>5 DEF Counters, Typed, TableTyped
<1>10. Kept
  <2>1. /\ disk' = disk /\ cur[p] \in Inums /\ lock[cur[p]] = Nobody
      /\ Inode(cur[p]).type # "free" /\ copy' = [copy EXCEPT ![cur[p]] = Inode(cur[p])]
    BY <1>1, <1>2, <1>3, <1>4, <1>5
  <2>2. Typed BY <1>1
  <2> QED BY <2>1, <2>2, ReadsKeeps
<1>11. Shape(p)'
  BY <1>2, <1>3, <1>4, <1>6, SeqsAre, NoneIs DEF Shape, WithCur, WithDp, WithIp, NoPuts, Creates
<1>12. LocksStep(p) BY <1>4, <1>5 DEF LocksStep
<1>13. OwnLocks(p)'
  BY <1>1, <1>2, <1>3, <1>4, <1>5, <1>6, ProcsAssumption, SeqsAre DEF Typed, TableTyped,
    OwnLocks, HoldsLock, Freeing, LocksIp, LocksDp
<1>14. (\A i \in Inums : Apart(p, i)') /\ SameBusy(p)
  BY <1>1, <1>2, <1>3, <1>4, <1>5, <1>6, SeqsAre DEF Apart, SameBusy, Freeing, Truncates
<1>15. UnlinksOwn(p)' /\ PendsLess(p)
  BY <1>1, <1>2, <1>3, <1>4, <1>5, <1>6, NoneIs DEF UnlinksOwn, PendsLess, Pends
<1>16. strayed => strayed' BY <1>4, <1>5
<1>17. SameFiles(p) BY <1>1, <1>2, <1>3, <1>4, <1>5, <1>6 DEF SameFiles
<1>18. Sound => strayed' \/ OnPath(p)
  <2> SUFFICES ASSUME Sound, ~ strayed' PROVE OnPath(p)
    OBVIOUS
  <2>1. \A i \in Inums : copy'[i] = copy[i] \/ copy'[i] = NotRead \/ i = cur[p]
    BY <1>1, <1>2, <1>3, <1>4, <1>5, IgetIs DEF Typed, TableTyped
  <2>2. Gets(p) BY <1>2, <1>3, <1>4, <1>6, PutsAre, NoneIs DEF Gets, Holds
  <2>3. Comes(p) BY <1>2, <1>3, <1>4, <1>6 DEF Comes, Reached
  <2>4. Rereads(p) BY <1>2, <1>3, <2>1 DEF Rereads, Holds
  <2>5. Parents(p)
    BY <1>2, <1>3, <1>4, <1>6, <1>1, InodeIs DEF Parents, Sound, Reaching, LinkedFile
  <2> QED BY <2>2, <2>3, <2>4, <2>5 DEF OnPath
<1>19. ASSUME NEW k \in Inums PROVE ref'[k] + Mine(p, k) = ref[k] + Mine(p, k)'
  <2>1. ref'[k] = ref[k] /\ ref[k] \in Int
    BY <1>1, <1>2, <1>3, <1>4, <1>5 DEF Is, Typed, TableTyped
  <2>2. Mine(p, k) = Is(cwd[p], k) + Is(cur[p], k)
    BY <1>1, <1>2, <1>3, IsAre, PutsAre DEF Mine, CwdOf, IpOf
  <2>5. Put1(puts'[p]) = cur[p] /\ Put2(puts'[p]) = None BY <1>6, <1>3, PutsAre
  <2>3. Mine(p, k)' = Is(cwd[p], k) + Is(cur[p], k)
    BY <1>2, <1>3, <1>4, <1>6, <2>5, IsAre, PutsAre DEF Mine, CwdOf, IpOf
  <2>4. \A x : Is(x, k) \in Int BY IsAre
  <2> QED BY <2>1, <2>2, <2>3, <2>4
<1>20. FilesTyped' /\ active' \subseteq Procs
  BY <1>1, <1>2, <1>4, <1>5 DEF Typed, FilesTyped, DiskTyped
<1> QED BY <1>4, <1>5, <1>7, <1>8, <1>9, <1>10, <1>11, <1>12, <1>13, <1>14, <1>15, <1>16, <1>17,
  <1>18, <1>19, <1>20, QuietStep

\* link() finds that the name exists.
LEMMA LinkEntryQuiet ==
  ASSUME Good, NEW p \in Procs, LinkEntry(p), pc'[p] = "giveUp"
  PROVE  Good'
<1>1. Typed /\ Shape(p) /\ Locks /\ Coherent /\ RefsOK /\ FilesOK /\ OwnLocks(p) /\ Shaped
        /\ UnlinkOK
  BY DEF Good, Core, Shaped, Locks, OwnLocks
<1>2. /\ pc[p] = "parent" /\ puts[p] = <<>> /\ put[p] = "no" /\ cur[p] = None
      /\ dp[p] \in Inums /\ ip[p] \in Inums /\ p \in active /\ cwd[p] \in Inums
      /\ rest[p] # <<>> /\ call[p].op = "link"
  BY <1>1 DEF LinkEntry, Looks, At, Goto, Iputs, DropDp, Iget, Reads, Ilock, table, files, walk,
    locals, bounds, D!Begin, D!End, Typed, ProcsTyped, Shape, WithCur, WithDp, WithIp, NoPuts,
    Typed, ProcsTyped, FilesTyped
<1>3. IsInode(Inode(dp[p])) /\ \A n \in DOMAIN Inode(dp[p]).ents : Inode(dp[p]).ents[n] \in Inums
  BY <1>1, <1>2, InodeIs, EntsAre
<1>4. UNCHANGED <<durable, disk, active, ftable, ofile, cwd, call, cur, rest, ip, put>>
  BY <1>1, <1>2 DEF LinkEntry, Looks, At, Goto, Iputs, DropDp, Iget, Reads, Ilock, table, files,
    walk, locals, bounds, D!Begin, D!End, Typed, ProcsTyped
<1>5. /\ lock[dp[p]] = Nobody /\ Inode(dp[p]).type # "free"
      /\ Name(p) \in DOMAIN Inode(dp[p]).ents
      /\ ref' = [ref EXCEPT ![Inode(dp[p]).ents[Name(p)]] = @ + 1]
      /\ copy' = [IgetCopy(Inode(dp[p]).ents[Name(p)]) EXCEPT ![dp[p]] = Inode(dp[p])]
      /\ lock' = [lock EXCEPT ![dp[p]] = p] /\ pc' = [pc EXCEPT ![p] = "giveUp"]
      /\ dp' = dp /\ puts' = [puts EXCEPT ![p] = <<Inode(dp[p]).ents[Name(p)]>>]
      /\ strayed' = (strayed \/ (Name(p) = ".." /\ ~ Named(View, dp[p])))
  BY <1>1, <1>2, <1>3 DEF LinkEntry, Looks, At, Goto, Iputs, DropDp, Iget, Reads, Ilock, table,
    files, walk, locals, bounds, Typed, ProcsTyped
<1>6. /\ pc'[p] = "giveUp" /\ cur'[p] = cur[p] /\ ip'[p] = ip[p] /\ dp'[p] = dp[p]
      /\ puts'[p] = <<Inode(dp[p]).ents[Name(p)]>> /\ put'[p] = put[p]
      /\ rest'[p] = rest[p] /\ call'[p] = call[p] /\ cwd'[p] = cwd[p]
      /\ lock[dp[p]] = Nobody /\ Inode(dp[p]).type # "free"
      /\ Name(p) \in DOMAIN Inode(dp[p]).ents
  BY <1>1, <1>4, <1>5 DEF Typed, ProcsTyped, FilesTyped
<1>7. Others(p) BY <1>1, <1>2, <1>4, <1>5 DEF Typed, ProcsTyped, FilesTyped, Others
<1>8. ProcsTyped' BY <1>1, <1>2, <1>3, <1>4, <1>5, <1>6, SeqsAre DEF Typed, ProcsTyped, Labels
<1>9. Counters'
  <2>1. PICK e \in Inums : ref' = [ref EXCEPT ![e] = @ + 1] BY <1>3, <1>5
  <2>2. lock' = [lock EXCEPT ![dp[p]] = p] /\ ref \in [Inums -> Int]
          /\ lock \in [Inums -> Procs \cup {Nobody}]
    BY <1>1, <1>5 DEF Typed, TableTyped
  <2>3. ref' \in [Inums -> Int] BY <2>1, <2>2
  <2>4. lock' \in [Inums -> Procs \cup {Nobody}] BY <2>2
  <2> QED BY <2>3, <2>4 DEF Counters
<1>10. Kept
  <2>1. /\ disk' = disk /\ dp[p] \in Inums /\ lock[dp[p]] = Nobody
      /\ Inode(dp[p]).type # "free" /\ Inode(dp[p]).ents[Name(p)] \in Inums
      /\ copy' = [IgetCopy(Inode(dp[p]).ents[Name(p)]) EXCEPT ![dp[p]] = Inode(dp[p])]
    BY <1>1, <1>2, <1>3, <1>4, <1>5
  <2>2. Typed BY <1>1
  <2> QED BY <2>1, <2>2, IgetReadsKeeps
<1>11. Shape(p)'
  BY <1>2, <1>3, <1>4, <1>6, SeqsAre, NoneIs DEF Shape, WithCur, WithDp, WithIp, NoPuts, Creates
<1>12. LocksStep(p)
  <2>1. lock' = [lock EXCEPT ![dp[p]] = p] /\ lock[dp[p]] = Nobody /\ dp[p] \in Inums
          /\ lock \in [Inums -> Procs \cup {Nobody}]
    BY <1>1, <1>2, <1>5 DEF Typed, TableTyped
  <2>2. copy'[dp[p]] # NotRead
    <3>1. PICK e \in Inums, x \in {Inode(dp[p])} :
            x # NotRead /\ copy' = [IgetCopy(e) EXCEPT ![dp[p]] = x]
      BY <1>3, <1>5, NotReadIs
    <3>2. copy = [k \in Inums |-> copy[k]] BY <1>1 DEF Typed, TableTyped
    <3> QED BY <1>2, <3>1, <3>2 DEF IgetCopy
  <2> QED BY <2>1, <2>2 DEF LocksStep
<1>13. OwnLocks(p)'
  BY <1>1, <1>2, <1>3, <1>4, <1>5, <1>6, ProcsAssumption, SeqsAre DEF Typed, TableTyped,
    OwnLocks, HoldsLock, Freeing, LocksIp, LocksDp
<1>14. (\A i \in Inums : Apart(p, i)') /\ SameBusy(p)
  BY <1>1, <1>2, <1>3, <1>4, <1>5, <1>6, SeqsAre DEF Apart, SameBusy, Freeing, Truncates
<1>15. UnlinksOwn(p)' /\ PendsLess(p)
  BY <1>1, <1>2, <1>3, <1>4, <1>5, <1>6, NoneIs DEF UnlinksOwn, PendsLess, Pends
<1>16. strayed => strayed' BY <1>4, <1>5, <1>1
<1>17. SameFiles(p) BY <1>1, <1>2, <1>3, <1>4, <1>5, <1>6 DEF SameFiles
<1>18. Sound => strayed' \/ OnPath(p)
  <2> SUFFICES ASSUME Sound, ~ strayed' PROVE OnPath(p)
    OBVIOUS
  <2>1. Name(p) = ".." => Named(View, dp[p]) BY <1>5
  <2>2. LET i == Inode(dp[p]).ents[Name(p)] IN HasEntries(i) /\ (i = dp[p] \/ View[i].nlink >= 1)
    BY <2>1, <1>1, <1>2, <1>5, EntryLeads, InodeIs DEF Sound
  <2>3. \A i \in Inums : copy'[i] = copy[i] \/ copy'[i] = NotRead \/ i = dp[p]
    BY <1>1, <1>2, <1>3, <1>4, <1>5, IgetIs DEF Typed, TableTyped
  <2>4. Gets(p) BY <1>2, <1>3, <1>4, <1>6, <2>1, <2>2, PutsAre, NoneIs DEF Gets, Holds
  <2>5. Comes(p) BY <1>2, <1>3, <1>4, <1>6, <2>1, <2>2 DEF Comes, Reached
  <2>6. Rereads(p) BY <1>2, <1>3, <2>1, <2>2, <2>3 DEF Rereads, Holds
  <2>7. Parents(p)
    BY <1>2, <1>3, <1>4, <1>6, <2>1, <2>2, <1>1, InodeIs DEF Parents, Sound, Reaching,
      LinkedFile
  <2> QED BY <2>4, <2>5, <2>6, <2>7 DEF OnPath
<1>19. ASSUME NEW k \in Inums PROVE ref'[k] + Mine(p, k) = ref[k] + Mine(p, k)'
  <2>1. ref'[k] = ref[k] + Is(Inode(dp[p]).ents[Name(p)], k) /\ ref[k] \in Int
    BY <1>1, <1>2, <1>3, <1>4, <1>5 DEF Is, Typed, TableTyped
  <2>2. Mine(p, k) = Is(cwd[p], k) + Is(ip[p], k) + Is(dp[p], k)
    BY <1>1, <1>2, <1>3, IsAre, PutsAre DEF Mine, CwdOf, IpOf
  <2>5. Put1(puts'[p]) = Inode(dp[p]).ents[Name(p)] /\ Put2(puts'[p]) = None
    BY <1>6, <1>3, PutsAre
  <2>3. Mine(p, k)' = Is(cwd[p], k) + Is(ip[p], k) + Is(dp[p],
          k) + Is(Inode(dp[p]).ents[Name(p)], k)
    BY <1>2, <1>3, <1>4, <1>6, <2>5, IsAre, PutsAre DEF Mine, CwdOf, IpOf
  <2>4. \A x : Is(x, k) \in Int BY IsAre
  <2> QED BY <2>1, <2>2, <2>3, <2>4
<1>20. FilesTyped' /\ active' \subseteq Procs
  BY <1>1, <1>2, <1>4, <1>5 DEF Typed, FilesTyped, DiskTyped
<1> QED BY <1>4, <1>5, <1>7, <1>8, <1>9, <1>10, <1>11, <1>12, <1>13, <1>14, <1>15, <1>16, <1>17,
  <1>18, <1>19, <1>20, QuietStep

\* unlink() looks the name up.
LEMMA UnlinkGood ==
  ASSUME Good, NEW p \in Procs, Unlink(p)
  PROVE  Good'
<1>1. Typed /\ Shape(p) /\ Locks /\ Coherent /\ RefsOK /\ FilesOK /\ OwnLocks(p) /\ Shaped
        /\ UnlinkOK
  BY DEF Good, Core, Shaped, Locks, OwnLocks
<1>2. /\ pc[p] = "parent" /\ puts[p] = <<>> /\ put[p] = "no" /\ cur[p] = None
      /\ dp[p] \in Inums /\ ip[p] = None /\ p \in active /\ cwd[p] \in Inums
      /\ rest[p] # <<>> /\ call[p].op = "unlink"
  BY <1>1 DEF Unlink, At, Goto, Iputs, DropDp, Iget, Reads, Ilock, table, files, walk, locals,
    bounds, D!Begin, D!End, Shape, WithCur, WithDp, WithIp, NoPuts, Typed, ProcsTyped,
    FilesTyped
<1>3. IsInode(Inode(dp[p])) /\ \A n \in DOMAIN Inode(dp[p]).ents : Inode(dp[p]).ents[n] \in Inums
  BY <1>1, <1>2, InodeIs, EntsAre
<1>4. UNCHANGED <<durable, disk, active, ftable, ofile, cwd, call, cur, rest, put, strayed>>
  BY DEF Unlink, At, Goto, Iputs, DropDp, Iget, Reads, Ilock, table, files, walk, locals,
    bounds, D!Begin, D!End
<1>5. \/ /\ lock[dp[p]] = Nobody /\ Inode(dp[p]).type # "free"
         /\ Name(p) \in DOMAIN Inode(dp[p]).ents \ Dots
         /\ ref' = [ref EXCEPT ![Inode(dp[p]).ents[Name(p)]] = @ + 1]
         /\ copy' = [IgetCopy(Inode(dp[p]).ents[Name(p)]) EXCEPT ![dp[p]] = Inode(dp[p])]
         /\ lock' = [lock EXCEPT ![dp[p]] = p] /\ pc' = [pc EXCEPT ![p] = "unlinking"]
         /\ ip' = [ip EXCEPT ![p] = Inode(dp[p]).ents[Name(p)]] /\ dp' = dp /\ puts' = puts
      \/ /\ lock[dp[p]] = Nobody /\ Inode(dp[p]).type # "free" /\ ref' = ref
         /\ copy' = [copy EXCEPT ![dp[p]] = Inode(dp[p])] /\ lock' = lock
         /\ pc' = [pc EXCEPT ![p] = "end"] /\ ip' = ip /\ dp' = [dp EXCEPT ![p] = None]
         /\ puts' = [puts EXCEPT ![p] = <<dp[p]>>]
  BY <1>1, <1>2, <1>3 DEF Unlink, At, Goto, Iputs, DropDp, Iget, Reads, Ilock, table, files,
    walk, locals, bounds, D!Begin, D!End
<1>6. CASE /\ lock[dp[p]] = Nobody /\ Inode(dp[p]).type # "free"
             /\ Name(p) \in DOMAIN Inode(dp[p]).ents \ Dots
             /\ ref' = [ref EXCEPT ![Inode(dp[p]).ents[Name(p)]] = @ + 1]
             /\ copy' = [IgetCopy(Inode(dp[p]).ents[Name(p)]) EXCEPT ![dp[p]] = Inode(dp[p])]
             /\ lock' = [lock EXCEPT ![dp[p]] = p] /\ pc' = [pc EXCEPT ![p] = "unlinking"]
             /\ ip' = [ip EXCEPT ![p] = Inode(dp[p]).ents[Name(p)]] /\ dp' = dp
             /\ puts' = puts
  <2>1. /\ pc'[p] = "unlinking" /\ cur'[p] = cur[p] /\ ip'[p] = Inode(dp[p]).ents[Name(p)]
        /\ dp'[p] = dp[p] /\ puts'[p] = puts[p] /\ put'[p] = put[p] /\ rest'[p] = rest[p]
        /\ call'[p] = call[p] /\ cwd'[p] = cwd[p] /\ lock[dp[p]] = Nobody
        /\ Inode(dp[p]).type # "free" /\ Name(p) \in DOMAIN Inode(dp[p]).ents \ Dots
    BY <1>1, <1>4, <1>6 DEF Typed, ProcsTyped, FilesTyped
  <2>2. Others(p) BY <1>1, <1>2, <1>4, <1>6 DEF Typed, ProcsTyped, FilesTyped, Others
  <2>3. ProcsTyped' BY <1>1, <1>2, <1>3, <1>4, <1>6, <2>1, SeqsAre DEF Typed, ProcsTyped, Labels
  <2>4. Counters' BY <1>1, <1>2, <1>3, <1>4, <1>6 DEF Counters, Typed, TableTyped
  <2>5. Kept
    <3>1. /\ disk' = disk /\ dp[p] \in Inums /\ lock[dp[p]] = Nobody
        /\ Inode(dp[p]).type # "free" /\ Inode(dp[p]).ents[Name(p)] \in Inums
        /\ copy' = [IgetCopy(Inode(dp[p]).ents[Name(p)]) EXCEPT ![dp[p]] = Inode(dp[p])]
      BY <1>1, <1>2, <1>3, <1>4, <1>6
    <3>2. Typed BY <1>1
    <3> QED BY <3>1, <3>2, IgetReadsKeeps
  <2>6. Shape(p)'
    BY <1>2, <1>3, <1>4, <2>1, SeqsAre, NoneIs DEF Shape, WithCur, WithDp, WithIp, NoPuts,
      Creates
  <2>7. LocksStep(p)
    BY <1>1, <1>2, <1>3, <1>4, <1>6, InodeIs, IgetIs DEF LocksStep, Typed, TableTyped, OwnLocks,
      HoldsLock, LocksIp, LocksDp
  <2>8. OwnLocks(p)'
    BY <1>1, <1>2, <1>3, <1>4, <1>6, <2>1, ProcsAssumption, SeqsAre DEF Typed, TableTyped,
      OwnLocks, HoldsLock, Freeing, LocksIp, LocksDp
  <2>9. (\A i \in Inums : Apart(p, i)') /\ SameBusy(p)
    BY <1>1, <1>2, <1>3, <1>4, <1>6, <2>1, SeqsAre DEF Apart, SameBusy, Freeing, Truncates
  <2>10. UnlinksOwn(p)' /\ PendsLess(p)
    BY <1>1, <1>2, <1>3, <1>4, <1>6, <2>1, NoneIs, ViewStays, <2>5, InodeIs DEF UnlinksOwn,
      PendsLess, Pends, Name
  <2>11. strayed => strayed' BY <1>4, <1>6
  <2>12. SameFiles(p) BY <1>1, <1>2, <1>3, <1>4, <1>6, <2>1 DEF SameFiles
  <2>13. Sound => strayed' \/ OnPath(p)
    <3> SUFFICES ASSUME Sound, ~ strayed' PROVE OnPath(p)
      OBVIOUS
    <3>1. Name(p) # ".." BY <1>6 DEF Dots
    <3>2. LET i == Inode(dp[p]).ents[Name(p)] IN HasEntries(i) /\ (i = dp[p] \/ View[i].nlink >= 1)
      BY <3>1, <1>1, <1>2, <1>6, EntryLeads, InodeIs DEF Sound
    <3>3. \A i \in Inums : copy'[i] = copy[i] \/ copy'[i] = NotRead \/ i = dp[p]
      BY <1>1, <1>2, <1>3, <1>4, <1>6, IgetIs DEF Typed, TableTyped
    <3>4. Gets(p) BY <1>2, <1>3, <1>4, <2>1, <3>1, <3>2, PutsAre, NoneIs DEF Gets, Holds
    <3>5. Comes(p) BY <1>2, <1>3, <1>4, <2>1, <3>1, <3>2 DEF Comes, Reached
    <3>6. Rereads(p) BY <1>2, <1>3, <3>1, <3>2, <3>3 DEF Rereads, Holds
    <3>7. Parents(p)
      BY <1>2, <1>3, <1>4, <2>1, <3>1, <3>2, <1>1, InodeIs DEF Parents, Sound, Reaching,
        LinkedFile
    <3> QED BY <3>4, <3>5, <3>6, <3>7 DEF OnPath
  <2>14. ASSUME NEW k \in Inums PROVE ref'[k] + Mine(p, k) = ref[k] + Mine(p, k)'
    <3>1. ref'[k] = ref[k] + Is(Inode(dp[p]).ents[Name(p)], k) /\ ref[k] \in Int
      BY <1>1, <1>2, <1>3, <1>4, <1>6 DEF Is, Typed, TableTyped
    <3>2. Mine(p, k) = Is(cwd[p], k) + Is(dp[p], k)
      BY <1>1, <1>2, <1>3, IsAre, PutsAre DEF Mine, CwdOf, IpOf
    <3>3. Mine(p, k)' = Is(cwd[p], k) + Is(Inode(dp[p]).ents[Name(p)], k) + Is(dp[p], k)
      BY <1>2, <1>3, <1>4, <2>1, IsAre, PutsAre DEF Mine, CwdOf, IpOf
    <3>4. \A x : Is(x, k) \in Int BY IsAre
    <3> QED BY <3>1, <3>2, <3>3, <3>4
  <2>15. FilesTyped' /\ active' \subseteq Procs
    BY <1>1, <1>2, <1>4, <1>6 DEF Typed, FilesTyped, DiskTyped
  <2> QED BY <1>4, <1>6, <2>2, <2>3, <2>4, <2>5, <2>6, <2>7, <2>8, <2>9, <2>10, <2>11, <2>12,
    <2>13, <2>14, <2>15, QuietStep
<1>7. CASE /\ lock[dp[p]] = Nobody /\ Inode(dp[p]).type # "free" /\ ref' = ref
             /\ copy' = [copy EXCEPT ![dp[p]] = Inode(dp[p])] /\ lock' = lock
             /\ pc' = [pc EXCEPT ![p] = "end"] /\ ip' = ip /\ dp' = [dp EXCEPT ![p] = None]
             /\ puts' = [puts EXCEPT ![p] = <<dp[p]>>]
  <2>1. /\ pc'[p] = "end" /\ cur'[p] = cur[p] /\ ip'[p] = ip[p] /\ dp'[p] = None
        /\ puts'[p] = <<dp[p]>> /\ put'[p] = put[p] /\ rest'[p] = rest[p]
        /\ call'[p] = call[p] /\ cwd'[p] = cwd[p] /\ lock[dp[p]] = Nobody
        /\ Inode(dp[p]).type # "free"
    BY <1>1, <1>4, <1>7 DEF Typed, ProcsTyped, FilesTyped
  <2>2. Others(p) BY <1>1, <1>2, <1>4, <1>7 DEF Typed, ProcsTyped, FilesTyped, Others
  <2>3. ProcsTyped' BY <1>1, <1>2, <1>3, <1>4, <1>7, <2>1, SeqsAre DEF Typed, ProcsTyped, Labels
  <2>4. Counters' BY <1>1, <1>2, <1>3, <1>4, <1>7 DEF Counters, Typed, TableTyped
  <2>5. Kept
    <3>1. /\ disk' = disk /\ dp[p] \in Inums /\ lock[dp[p]] = Nobody
        /\ Inode(dp[p]).type # "free" /\ copy' = [copy EXCEPT ![dp[p]] = Inode(dp[p])]
      BY <1>1, <1>2, <1>3, <1>4, <1>7
    <3>2. Typed BY <1>1
    <3> QED BY <3>1, <3>2, ReadsKeeps
  <2>6. Shape(p)'
    BY <1>2, <1>3, <1>4, <2>1, SeqsAre, NoneIs DEF Shape, WithCur, WithDp, WithIp, NoPuts,
      Creates
  <2>7. LocksStep(p) BY <1>4, <1>7 DEF LocksStep
  <2>8. OwnLocks(p)'
    BY <1>1, <1>2, <1>3, <1>4, <1>7, <2>1, ProcsAssumption, SeqsAre DEF Typed, TableTyped,
      OwnLocks, HoldsLock, Freeing, LocksIp, LocksDp
  <2>9. (\A i \in Inums : Apart(p, i)') /\ SameBusy(p)
    BY <1>1, <1>2, <1>3, <1>4, <1>7, <2>1, SeqsAre DEF Apart, SameBusy, Freeing, Truncates
  <2>10. UnlinksOwn(p)' /\ PendsLess(p)
    BY <1>1, <1>2, <1>3, <1>4, <1>7, <2>1, NoneIs DEF UnlinksOwn, PendsLess, Pends
  <2>11. strayed => strayed' BY <1>4, <1>7
  <2>12. SameFiles(p) BY <1>1, <1>2, <1>3, <1>4, <1>7, <2>1 DEF SameFiles
  <2>13. Sound => strayed' \/ OnPath(p)
    <3> SUFFICES ASSUME Sound, ~ strayed' PROVE OnPath(p)
      OBVIOUS
    <3>1. \A i \in Inums : copy'[i] = copy[i] \/ copy'[i] = NotRead \/ i = dp[p]
      BY <1>1, <1>2, <1>3, <1>4, <1>7, IgetIs DEF Typed, TableTyped
    <3>2. Gets(p) BY <1>2, <1>3, <1>4, <2>1, PutsAre, NoneIs DEF Gets, Holds
    <3>3. Comes(p) BY <1>2, <1>3, <1>4, <2>1 DEF Comes, Reached
    <3>4. Rereads(p) BY <1>2, <1>3, <3>1 DEF Rereads, Holds
    <3>5. Parents(p)
      BY <1>2, <1>3, <1>4, <2>1, <1>1, InodeIs DEF Parents, Sound, Reaching, LinkedFile
    <3> QED BY <3>2, <3>3, <3>4, <3>5 DEF OnPath
  <2>14. ASSUME NEW k \in Inums PROVE ref'[k] + Mine(p, k) = ref[k] + Mine(p, k)'
    <3>1. ref'[k] = ref[k] /\ ref[k] \in Int
      BY <1>1, <1>2, <1>3, <1>4, <1>7 DEF Is, Typed, TableTyped
    <3>2. Mine(p, k) = Is(cwd[p], k) + Is(dp[p], k)
      BY <1>1, <1>2, <1>3, IsAre, PutsAre DEF Mine, CwdOf, IpOf
    <3>5. Put1(puts'[p]) = dp[p] /\ Put2(puts'[p]) = None BY <2>1, <1>3, PutsAre
    <3>3. Mine(p, k)' = Is(cwd[p], k) + Is(dp[p], k)
      BY <1>2, <1>3, <1>4, <2>1, <3>5, IsAre, PutsAre DEF Mine, CwdOf, IpOf
    <3>4. \A x : Is(x, k) \in Int BY IsAre
    <3> QED BY <3>1, <3>2, <3>3, <3>4
  <2>15. FilesTyped' /\ active' \subseteq Procs
    BY <1>1, <1>2, <1>4, <1>7 DEF Typed, FilesTyped, DiskTyped
  <2> QED BY <1>4, <1>7, <2>2, <2>3, <2>4, <2>5, <2>6, <2>7, <2>8, <2>9, <2>10, <2>11, <2>12,
    <2>13, <2>14, <2>15, QuietStep
<1> QED BY <1>5, <1>6, <1>7

\* unlink() clears the entry.
LEMMA UnlinkEntryQuiet ==
  ASSUME Good, NEW p \in Procs, UnlinkEntry(p), pc'[p] # "unlinked"
  PROVE  Good'
<1>1. Typed /\ Shape(p) /\ Locks /\ Coherent /\ RefsOK /\ FilesOK /\ OwnLocks(p) /\ Shaped
        /\ UnlinkOK
  BY DEF Good, Core, Shaped, Locks, OwnLocks
<1>2. /\ pc[p] = "unlinking" /\ puts[p] = <<>> /\ put[p] = "no" /\ cur[p] = None
      /\ dp[p] \in Inums /\ ip[p] \in Inums /\ p \in active /\ cwd[p] \in Inums
      /\ call[p].op = "unlink"
  BY <1>1 DEF UnlinkEntry, At, Goto, Iputs, DropDp, Iget, Reads, Ilock, table, files, walk,
    locals, bounds, D!Begin, D!End, Typed, ProcsTyped, Shape, WithCur, WithDp, WithIp, NoPuts,
    Typed, ProcsTyped, FilesTyped
<1>3. IsInode(Inode(ip[p])) /\ \A n \in DOMAIN Inode(ip[p]).ents : Inode(ip[p]).ents[n] \in Inums
  BY <1>1, <1>2, InodeIs, EntsAre
<1>4. UNCHANGED <<durable, disk, active, ref, lock, ftable, ofile, cwd, call, cur, rest, dp,
        put, strayed>>
  BY <1>1, <1>2 DEF UnlinkEntry, At, Goto, Iputs, DropDp, Iget, Reads, Ilock, table, files,
    walk, locals, bounds, D!Begin, D!End, Typed, ProcsTyped
<1>5. /\ lock[ip[p]] = Nobody /\ Inode(ip[p]).type # "free"
      /\ copy' = [copy EXCEPT ![ip[p]] = Inode(ip[p])] /\ pc' = [pc EXCEPT ![p] = "giveUp"]
      /\ ip' = [ip EXCEPT ![p] = None] /\ puts' = [puts EXCEPT ![p] = <<ip[p]>>]
  BY <1>1, <1>2, <1>3 DEF UnlinkEntry, At, Goto, Iputs, DropDp, Iget, Reads, Ilock, table,
    files, walk, locals, bounds, D!Begin, D!End, Typed, ProcsTyped
<1>6. /\ pc'[p] = "giveUp" /\ cur'[p] = cur[p] /\ ip'[p] = None /\ dp'[p] = dp[p]
      /\ puts'[p] = <<ip[p]>> /\ put'[p] = put[p] /\ rest'[p] = rest[p]
      /\ call'[p] = call[p] /\ cwd'[p] = cwd[p] /\ lock[ip[p]] = Nobody
      /\ Inode(ip[p]).type # "free"
  BY <1>1, <1>4, <1>5 DEF Typed, ProcsTyped, FilesTyped
<1>7. Others(p) BY <1>1, <1>2, <1>4, <1>5 DEF Typed, ProcsTyped, FilesTyped, Others
<1>8. ProcsTyped' BY <1>1, <1>2, <1>3, <1>4, <1>5, <1>6, SeqsAre DEF Typed, ProcsTyped, Labels
<1>9. Counters' BY <1>1, <1>2, <1>3, <1>4, <1>5 DEF Counters, Typed, TableTyped
<1>10. Kept
  <2>1. /\ disk' = disk /\ ip[p] \in Inums /\ lock[ip[p]] = Nobody
      /\ Inode(ip[p]).type # "free" /\ copy' = [copy EXCEPT ![ip[p]] = Inode(ip[p])]
    BY <1>1, <1>2, <1>3, <1>4, <1>5
  <2>2. Typed BY <1>1
  <2> QED BY <2>1, <2>2, ReadsKeeps
<1>11. Shape(p)'
  BY <1>2, <1>3, <1>4, <1>6, SeqsAre, NoneIs DEF Shape, WithCur, WithDp, WithIp, NoPuts, Creates
<1>12. LocksStep(p) BY <1>4, <1>5 DEF LocksStep
<1>13. OwnLocks(p)'
  BY <1>1, <1>2, <1>3, <1>4, <1>5, <1>6, ProcsAssumption, SeqsAre DEF Typed, TableTyped,
    OwnLocks, HoldsLock, Freeing, LocksIp, LocksDp
<1>14. (\A i \in Inums : Apart(p, i)') /\ SameBusy(p)
  BY <1>1, <1>2, <1>3, <1>4, <1>5, <1>6, SeqsAre DEF Apart, SameBusy, Freeing, Truncates
<1>15. UnlinksOwn(p)' /\ PendsLess(p)
  BY <1>1, <1>2, <1>3, <1>4, <1>5, <1>6, NoneIs DEF UnlinksOwn, PendsLess, Pends
<1>16. strayed => strayed' BY <1>4, <1>5
<1>17. SameFiles(p) BY <1>1, <1>2, <1>3, <1>4, <1>5, <1>6 DEF SameFiles
<1>18. Sound => strayed' \/ OnPath(p)
  <2> SUFFICES ASSUME Sound, ~ strayed' PROVE OnPath(p)
    OBVIOUS
  <2>1. \A i \in Inums : copy'[i] = copy[i] \/ copy'[i] = NotRead \/ i = ip[p]
    BY <1>1, <1>2, <1>3, <1>4, <1>5, IgetIs DEF Typed, TableTyped
  <2>2. Gets(p) BY <1>2, <1>3, <1>4, <1>6, PutsAre, NoneIs DEF Gets, Holds
  <2>3. Comes(p) BY <1>2, <1>3, <1>4, <1>6 DEF Comes, Reached
  <2>4. Rereads(p) BY <1>2, <1>3, <2>1 DEF Rereads, Holds
  <2>5. Parents(p)
    BY <1>2, <1>3, <1>4, <1>6, <1>1, InodeIs DEF Parents, Sound, Reaching, LinkedFile
  <2> QED BY <2>2, <2>3, <2>4, <2>5 DEF OnPath
<1>19. ASSUME NEW k \in Inums PROVE ref'[k] + Mine(p, k) = ref[k] + Mine(p, k)'
  <2>1. ref'[k] = ref[k] /\ ref[k] \in Int
    BY <1>1, <1>2, <1>3, <1>4, <1>5 DEF Is, Typed, TableTyped
  <2>2. Mine(p, k) = Is(cwd[p], k) + Is(ip[p], k) + Is(dp[p], k)
    BY <1>1, <1>2, <1>3, IsAre, PutsAre DEF Mine, CwdOf, IpOf
  <2>5. Put1(puts'[p]) = ip[p] /\ Put2(puts'[p]) = None BY <1>6, <1>3, PutsAre
  <2>3. Mine(p, k)' = Is(cwd[p], k) + Is(dp[p], k) + Is(ip[p], k)
    BY <1>2, <1>3, <1>4, <1>6, <2>5, IsAre, PutsAre DEF Mine, CwdOf, IpOf
  <2>4. \A x : Is(x, k) \in Int BY IsAre
  <2> QED BY <2>1, <2>2, <2>3, <2>4
<1>20. FilesTyped' /\ active' \subseteq Procs
  BY <1>1, <1>2, <1>4, <1>5 DEF Typed, FilesTyped, DiskTyped
<1> QED BY <1>4, <1>5, <1>7, <1>8, <1>9, <1>10, <1>11, <1>12, <1>13, <1>14, <1>15, <1>16, <1>17,
  <1>18, <1>19, <1>20, QuietStep

-----
\* Those of the other calls.
\* chdir() checks its inode.
LEMMA ChdirGood ==
  ASSUME Good, NEW p \in Procs, Chdir(p)
  PROVE  Good'
<1>1. Typed /\ Shape(p) /\ Locks /\ Coherent /\ RefsOK /\ FilesOK /\ OwnLocks(p) /\ Shaped
        /\ UnlinkOK
  BY DEF Good, Core, Shaped, Locks, OwnLocks
<1>2. /\ pc[p] = "found" /\ puts[p] = <<>> /\ put[p] = "no" /\ cur[p] \in Inums
      /\ dp[p] = None /\ ip[p] = None /\ p \in active /\ cwd[p] \in Inums
  BY <1>1 DEF Chdir, At, Shape, WithCur, WithDp, WithIp, Typed, ProcsTyped, FilesTyped
<1>3. IsInode(Inode(cur[p])) /\ \A n \in DOMAIN Inode(cur[p]).ents : Inode(cur[p]).ents[n] \in Inums
  BY <1>1, <1>2, InodeIs, EntsAre
<1>4. UNCHANGED <<durable, disk, active, ref, lock, ftable, ofile, cwd, call, rest, dp, put,
        strayed>>
  BY DEF Chdir, files
<1>5. \/ /\ lock[cur[p]] = Nobody /\ Inode(cur[p]).type # "free"
         /\ copy' = [copy EXCEPT ![cur[p]] = Inode(cur[p])]
         /\ pc' = [pc EXCEPT ![p] = "end"] /\ cur' = [cur EXCEPT ![p] = None] /\ ip' = ip
         /\ puts' = [puts EXCEPT ![p] = <<cur[p]>>]
      \/ /\ lock[cur[p]] = Nobody /\ Inode(cur[p]).type # "free"
         /\ copy' = [copy EXCEPT ![cur[p]] = Inode(cur[p])]
         /\ pc' = [pc EXCEPT ![p] = "chdir"] /\ cur' = [cur EXCEPT ![p] = None]
         /\ ip' = [ip EXCEPT ![p] = cur[p]] /\ puts' = [puts EXCEPT ![p] = <<cwd[p]>>]
  BY DEF Chdir, Goto, Iputs, Reads, Ilock
<1>6. CASE /\ lock[cur[p]] = Nobody /\ Inode(cur[p]).type # "free"
             /\ copy' = [copy EXCEPT ![cur[p]] = Inode(cur[p])]
             /\ pc' = [pc EXCEPT ![p] = "end"] /\ cur' = [cur EXCEPT ![p] = None]
             /\ ip' = ip /\ puts' = [puts EXCEPT ![p] = <<cur[p]>>]
  <2>1. /\ pc'[p] = "end" /\ cur'[p] = None /\ ip'[p] = ip[p] /\ dp'[p] = dp[p]
        /\ puts'[p] = <<cur[p]>> /\ put'[p] = put[p] /\ rest'[p] = rest[p]
        /\ call'[p] = call[p] /\ cwd'[p] = cwd[p] /\ lock[cur[p]] = Nobody
        /\ Inode(cur[p]).type # "free"
    BY <1>1, <1>4, <1>6 DEF Typed, ProcsTyped
  <2>2. Others(p) BY <1>4, <1>6 DEF Others
  <2>3. ProcsTyped' BY <1>1, <1>2, <1>4, <1>6 DEF Typed, ProcsTyped, Labels
  <2>4. Counters' BY <1>1, <1>4 DEF Counters, Typed, TableTyped
  <2>5. Kept
    <3>1. /\ disk' = disk /\ cur[p] \in Inums /\ lock[cur[p]] = Nobody
        /\ Inode(cur[p]).type # "free" /\ copy' = [copy EXCEPT ![cur[p]] = Inode(cur[p])]
      BY <1>2, <1>4, <1>6
    <3>2. Typed BY <1>1
    <3> QED BY <3>1, <3>2, ReadsKeeps
  <2>6. Shape(p)' BY <1>2, <1>4, <2>1 DEF Shape, WithCur, WithDp, WithIp, NoPuts
  <2>7. LocksStep(p) BY <1>4 DEF LocksStep
  <2>8. OwnLocks(p)'
    BY <1>1, <1>2, <1>4, <2>1 DEF OwnLocks, HoldsLock, Freeing, LocksIp, LocksDp
  <2>9. (\A i \in Inums : Apart(p, i)') /\ SameBusy(p)
    BY <1>2, <2>1 DEF Apart, SameBusy, Freeing, Truncates
  <2>10. UnlinksOwn(p)' /\ PendsLess(p) BY <2>1 DEF UnlinksOwn, PendsLess, Pends
  <2>11. strayed => strayed' BY <1>4
  <2>12. SameFiles(p) BY <1>4, <2>1 DEF SameFiles
  <2>13. Sound => strayed' \/ OnPath(p)
    <3> SUFFICES ASSUME Sound, ~ strayed' PROVE OnPath(p)
      OBVIOUS
    <3>1. \A i \in Inums : copy'[i] = copy[i] \/ copy'[i] = NotRead \/ i = cur[p] BY <1>6
    <3>2. Gets(p) BY <1>2, <2>1, PutsAre DEF Gets, Holds
    <3>3. Comes(p) BY <1>2, <2>1 DEF Comes, Reached
    <3>4. Rereads(p) BY <3>1 DEF Rereads, Holds
    <3>5. Parents(p) BY <1>2, <1>4, <2>1 DEF Parents
    <3> QED BY <3>2, <3>3, <3>4, <3>5 DEF OnPath
  <2>14. ASSUME NEW k \in Inums PROVE ref'[k] + Mine(p, k) = ref[k] + Mine(p, k)'
    <3>1. ref'[k] = ref[k] /\ ref[k] \in Int BY <1>1, <1>2, <1>4 DEF Typed, TableTyped
    <3>2. Mine(p, k) = Is(cwd[p], k) + Is(cur[p], k)
      BY <1>2, IsAre, PutsAre DEF Mine, CwdOf, IpOf
    <3>3. Mine(p, k)' = Is(cwd[p], k) + Is(cur[p], k)
      BY <1>2, <1>4, <2>1, IsAre, PutsAre DEF Mine, CwdOf, IpOf
    <3>4. \A x : Is(x, k) \in Int BY IsAre
    <3> QED BY <3>1, <3>2, <3>3
  <2>15. FilesTyped' /\ active' \subseteq Procs
    BY <1>1, <1>4, <1>6 DEF Typed, FilesTyped, DiskTyped
  <2> QED BY <1>4, <2>2, <2>3, <2>4, <2>5, <2>6, <2>7, <2>8, <2>9, <2>10, <2>11, <2>12, <2>13,
    <2>14, <2>15, QuietStep
<1>7. CASE /\ lock[cur[p]] = Nobody /\ Inode(cur[p]).type # "free"
             /\ copy' = [copy EXCEPT ![cur[p]] = Inode(cur[p])]
             /\ pc' = [pc EXCEPT ![p] = "chdir"] /\ cur' = [cur EXCEPT ![p] = None]
             /\ ip' = [ip EXCEPT ![p] = cur[p]] /\ puts' = [puts EXCEPT ![p] = <<cwd[p]>>]
  <2>1. /\ pc'[p] = "chdir" /\ cur'[p] = None /\ ip'[p] = cur[p] /\ dp'[p] = dp[p]
        /\ puts'[p] = <<cwd[p]>> /\ put'[p] = put[p] /\ rest'[p] = rest[p]
        /\ call'[p] = call[p] /\ cwd'[p] = cwd[p] /\ lock[cur[p]] = Nobody
        /\ Inode(cur[p]).type # "free"
    BY <1>1, <1>4, <1>7 DEF Typed, ProcsTyped, FilesTyped
  <2>2. Others(p) BY <1>4, <1>7 DEF Others
  <2>3. ProcsTyped' BY <1>1, <1>2, <1>4, <1>7 DEF Typed, ProcsTyped, Labels
  <2>4. Counters' BY <1>1, <1>4 DEF Counters, Typed, TableTyped
  <2>5. Kept
    <3>1. /\ disk' = disk /\ cur[p] \in Inums /\ lock[cur[p]] = Nobody
        /\ Inode(cur[p]).type # "free" /\ copy' = [copy EXCEPT ![cur[p]] = Inode(cur[p])]
      BY <1>2, <1>4, <1>7
    <3>2. Typed BY <1>1
    <3> QED BY <3>1, <3>2, ReadsKeeps
  <2>6. Shape(p)' BY <1>2, <1>3, <1>4, <2>1, NoneIs DEF Shape, WithCur, WithDp, WithIp, NoPuts
  <2>7. LocksStep(p) BY <1>4 DEF LocksStep
  <2>8. OwnLocks(p)'
    BY <1>1, <1>2, <1>4, <2>1 DEF OwnLocks, HoldsLock, Freeing, LocksIp, LocksDp
  <2>9. (\A i \in Inums : Apart(p, i)') /\ SameBusy(p)
    BY <1>2, <2>1 DEF Apart, SameBusy, Freeing, Truncates
  <2>10. UnlinksOwn(p)' /\ PendsLess(p) BY <2>1 DEF UnlinksOwn, PendsLess, Pends
  <2>11. strayed => strayed' BY <1>4
  <2>12. SameFiles(p) BY <1>4, <2>1 DEF SameFiles
  <2>13. Sound => strayed' \/ OnPath(p)
    <3> SUFFICES ASSUME Sound, ~ strayed' PROVE OnPath(p)
      OBVIOUS
    <3>1. \A i \in Inums : copy'[i] = copy[i] \/ copy'[i] = NotRead \/ i = cur[p] BY <1>7
    <3>2. Gets(p) BY <1>2, <2>1, PutsAre DEF Gets, Holds
    <3>3. Comes(p) BY <1>2, <2>1 DEF Comes, Reached
    <3>4. Rereads(p) BY <3>1 DEF Rereads, Holds
    <3>5. Parents(p) BY <1>2, <2>1 DEF Parents
    <3> QED BY <3>2, <3>3, <3>4, <3>5 DEF OnPath
  <2>14. ASSUME NEW k \in Inums PROVE ref'[k] + Mine(p, k) = ref[k] + Mine(p, k)'
    <3>1. ref'[k] = ref[k] /\ ref[k] \in Int BY <1>1, <1>4 DEF Typed, TableTyped
    <3>2. Mine(p, k) = Is(cwd[p], k) + Is(cur[p], k)
      BY <1>2, IsAre, PutsAre DEF Mine, CwdOf, IpOf
    <3>3. Mine(p, k)' = Is(cur[p], k) + Is(cwd[p], k)
      BY <1>2, <2>1, IsAre, PutsAre DEF Mine, CwdOf, IpOf
    <3>4. \A x : Is(x, k) \in Int BY IsAre
    <3> QED BY <3>1, <3>2, <3>3, <3>4
  <2>15. FilesTyped' /\ active' \subseteq Procs
    BY <1>1, <1>4, <1>7 DEF Typed, FilesTyped, DiskTyped
  <2> QED BY <1>4, <2>2, <2>3, <2>4, <2>5, <2>6, <2>7, <2>8, <2>9, <2>10, <2>11, <2>12, <2>13,
    <2>14, <2>15, QuietStep
<1> QED BY <1>5, <1>6, <1>7

\* chdir() changes the working directory.
LEMMA ChdirEndGood ==
  ASSUME Good, NEW p \in Procs, ChdirEnd(p)
  PROVE  Good'
<1>1. Typed /\ Shape(p) /\ Locks /\ Coherent /\ RefsOK /\ FilesOK /\ OwnLocks(p) /\ Shaped
        /\ UnlinkOK
  BY DEF Good, Core, Shaped, Locks, OwnLocks
<1>2. /\ pc[p] = "chdir" /\ puts[p] = <<>> /\ put[p] = "no" /\ cur[p] = None /\ dp[p] = None
      /\ ip[p] \in Inums /\ p \in active /\ cwd[p] \in Inums
  BY <1>1 DEF ChdirEnd, At, Goto, Iputs, DropDp, Iget, Reads, Ilock, table, files, walk, locals,
    bounds, D!Begin, D!End, Shape, WithCur, WithDp, WithIp, NoPuts, Typed, ProcsTyped,
    FilesTyped
<1>3. UNCHANGED <<durable, disk, ref, copy, lock, ftable, ofile, cur, rest, dp, puts, put, strayed>>
  BY DEF ChdirEnd, At, Goto, Iputs, DropDp, Iget, Reads, Ilock, table, files, walk, locals,
    bounds, D!Begin, D!End
<1>4. /\ active' = active \ {p} /\ cwd' = [cwd EXCEPT ![p] = ip[p]]
      /\ pc' = [pc EXCEPT ![p] = "user"] /\ call' = [call EXCEPT ![p] = NoCall]
      /\ ip' = [ip EXCEPT ![p] = None]
  BY <1>1, <1>2 DEF ChdirEnd, At, Goto, Iputs, DropDp, Iget, Reads, Ilock, table, files, walk,
    locals, bounds, D!Begin, D!End
<1>5. /\ pc'[p] = "user" /\ cur'[p] = cur[p] /\ ip'[p] = None /\ dp'[p] = dp[p]
      /\ puts'[p] = puts[p] /\ put'[p] = put[p] /\ rest'[p] = rest[p] /\ call'[p] = NoCall
      /\ cwd'[p] = ip[p]
  BY <1>1, <1>3, <1>4 DEF Typed, ProcsTyped, FilesTyped
<1>6. Others(p) BY <1>1, <1>2, <1>3, <1>4 DEF Typed, ProcsTyped, FilesTyped, Others
<1>7. ProcsTyped'
  BY <1>1, <1>2, <1>3, <1>4, <1>5, SeqsAre, NoCallIs DEF Typed, ProcsTyped, Labels
<1>8. Counters' BY <1>1, <1>2, <1>3, <1>4 DEF Counters, Typed, TableTyped
<1>9. Kept
  <2>1. /\ disk' = disk /\ copy' = copy BY <1>1, <1>2, <1>3, <1>4
  <2>2. Typed BY <1>1
  <2> QED BY <2>1, <2>2, SameKeeps
<1>10. Shape(p)'
  BY <1>2, <1>3, <1>5, <1>4, SeqsAre, NoneIs, NoCallIs DEF Shape, WithCur, WithDp, WithIp,
    NoPuts, Creates
<1>11. LocksStep(p) BY <1>3, <1>4 DEF LocksStep
<1>12. OwnLocks(p)'
  BY <1>1, <1>2, <1>3, <1>4, <1>5, ProcsAssumption, SeqsAre DEF Typed, TableTyped, OwnLocks,
    HoldsLock, Freeing, LocksIp, LocksDp
<1>13. (\A i \in Inums : Apart(p, i)') /\ SameBusy(p)
  BY <1>1, <1>2, <1>3, <1>4, <1>5, SeqsAre DEF Apart, SameBusy, Freeing, Truncates
<1>14. UnlinksOwn(p)' /\ PendsLess(p)
  BY <1>1, <1>2, <1>3, <1>4, <1>5, NoneIs DEF UnlinksOwn, PendsLess, Pends
<1>15. strayed => strayed' BY <1>3, <1>4
<1>16. SameFiles(p) BY <1>1, <1>2, <1>3, <1>4, <1>5, NoCallIs DEF SameFiles
<1>17. Sound => strayed' \/ OnPath(p)
  <2> SUFFICES ASSUME Sound, ~ strayed' PROVE OnPath(p)
    OBVIOUS
  <2>1. \A i \in Inums : copy'[i] = copy[i] \/ copy'[i] = NotRead \/ i = cur[p]
    BY <1>1, <1>2, <1>3, <1>4, IgetIs DEF Typed, TableTyped
  <2>2. Gets(p) BY <1>2, <1>3, <1>5, PutsAre, NoneIs DEF Gets, Holds
  <2>3. Comes(p) BY <1>2, <1>3, <1>5 DEF Comes, Reached
  <2>4. Rereads(p) BY <1>2, <2>1 DEF Rereads, Holds
  <2>5. Parents(p) BY <1>2, <1>3, <1>5, <1>1, InodeIs DEF Parents, Sound, Reaching, LinkedFile
  <2> QED BY <2>2, <2>3, <2>4, <2>5 DEF OnPath
<1>18. ASSUME NEW k \in Inums PROVE ref'[k] + Mine(p, k) = ref[k] + Mine(p, k)'
  <2>1. ref'[k] = ref[k] /\ ref[k] \in Int BY <1>1, <1>2, <1>3, <1>4 DEF Is, Typed, TableTyped
  <2>2. Mine(p, k) = Is(ip[p], k) BY <1>1, <1>2, IsAre, PutsAre DEF Mine, CwdOf, IpOf
  <2>3. Mine(p, k)' = Is(ip[p], k) BY <1>2, <1>3, <1>5, IsAre, PutsAre DEF Mine, CwdOf, IpOf
  <2>4. \A x : Is(x, k) \in Int BY IsAre
  <2> QED BY <2>1, <2>2, <2>3, <2>4
<1>19. FilesTyped' /\ active' \subseteq Procs
  BY <1>1, <1>2, <1>3, <1>4 DEF Typed, FilesTyped, DiskTyped
<1> QED BY <1>3, <1>4, <1>6, <1>7, <1>8, <1>9, <1>10, <1>11, <1>12, <1>13, <1>14, <1>15, <1>16,
  <1>17, <1>18, <1>19, QuietStep

\* dup().
LEMMA DupGood ==
  ASSUME Good, NEW p \in Procs, NEW d \in Fds, Dup(p, d)
  PROVE  Good'
<1>1. Typed /\ Shape(p) /\ Locks /\ Coherent /\ RefsOK /\ FilesOK /\ OwnLocks(p) /\ Shaped
        /\ UnlinkOK
  BY DEF Good, Core, Shaped, Locks, OwnLocks
<1>2. /\ pc[p] = "user" /\ puts[p] = <<>> /\ put[p] = "no" /\ cur[p] = None /\ dp[p] = None
      /\ ip[p] = None /\ p \notin active /\ cwd[p] \in Inums /\ ofile[p][d] # None
      /\ call[p].op # "write"
  BY <1>1 DEF Dup, OnFile, At, Goto, Iputs, DropDp, Iget, Reads, Ilock, table, files, walk,
    locals, bounds, D!Begin, D!End, Shape, WithCur, WithDp, WithIp, NoPuts, Typed, ProcsTyped,
    FilesTyped
<1>3. UNCHANGED <<durable, disk, active, ref, copy, lock, cwd, pc, call, cur, rest, ip, dp,
        puts, put, strayed>>
  BY DEF Dup, OnFile, At, Goto, Iputs, DropDp, Iget, Reads, Ilock, table, files, walk, locals,
    bounds, D!Begin, D!End
<1>4. /\ FreeFds(p) # {} /\ ftable' = [ftable EXCEPT ![ofile[p][d]].ref = @ + 1]
      /\ ofile' = [ofile EXCEPT ![p][Min(FreeFds(p))] = ofile[p][d]]
  BY <1>1, <1>2 DEF Dup, OnFile, At, Goto, Iputs, DropDp, Iget, Reads, Ilock, table, files,
    walk, locals, bounds, D!Begin, D!End
<1>5. /\ pc'[p] = pc[p] /\ cur'[p] = cur[p] /\ ip'[p] = ip[p] /\ dp'[p] = dp[p]
      /\ puts'[p] = puts[p] /\ put'[p] = put[p] /\ rest'[p] = rest[p] /\ call'[p] = call[p]
      /\ cwd'[p] = cwd[p] /\ FreeFds(p) # {}
  BY <1>1, <1>3, <1>4 DEF Typed, ProcsTyped, FilesTyped
<1>6. Others(p) BY <1>1, <1>2, <1>3, <1>4 DEF Typed, ProcsTyped, FilesTyped, Others
<1>7. ProcsTyped' BY <1>1, <1>2, <1>3, <1>4, <1>5, SeqsAre DEF Typed, ProcsTyped, Labels
<1>8. ref' \in [Inums -> Int] /\ lock' \in [Inums -> Procs \cup {Nobody}]
  BY <1>1, <1>2, <1>3, <1>4 DEF Typed, TableTyped
<1>9. Kept /\ \A k \in Inums : copy'[k] # NotRead => IsInode(copy'[k])
  <2>1. /\ disk' = disk /\ copy' = copy BY <1>1, <1>2, <1>3, <1>4
  <2>2. Typed BY <1>1
  <2> QED BY <2>1, <2>2, SameKeeps
<1>10. Shape(p)'
  BY <1>2, <1>3, <1>5, SeqsAre, NoneIs DEF Shape, WithCur, WithDp, WithIp, NoPuts, Creates
<1>11. \A i \in Inums : \/ lock'[i] = lock[i]
                        \/ lock'[i] = p /\ lock[i] = Nobody /\ copy'[i] # NotRead
                        \/ lock'[i] = Nobody /\ lock[i] = p
  BY <1>3, <1>4
<1>12. LocksMove(p) BY <1>1, <1>9, <1>11, LocksMoveIs
<1>13. OwnLocks(p)'
  BY <1>1, <1>2, <1>3, <1>4, <1>5, ProcsAssumption, SeqsAre DEF Typed, TableTyped, OwnLocks,
    HoldsLock, Freeing, LocksIp, LocksDp
<1>14. (\A i \in Inums : Apart(p, i)') /\ SameBusy(p)
  BY <1>1, <1>2, <1>3, <1>4, <1>5, SeqsAre DEF Apart, SameBusy, Freeing, Truncates
<1>15. UnlinksOwn(p)' /\ PendsLess(p)
  BY <1>1, <1>2, <1>3, <1>4, <1>5, NoneIs DEF UnlinksOwn, PendsLess, Pends
<1>16. strayed => strayed' BY <1>3, <1>4
<1>17. /\ FilesOK' /\ FilesTyped'
       /\ \A k \in Inums : Count(FileRef, k)' = Count(FileRef, k) - Is(None, k) + Is(None, k)
       /\ \A k \in Inums : InFile(k)' => InFile(k)
  <2>1. /\ FreeFds(p) # {} /\ ofile' = [ofile EXCEPT ![p][Min(FreeFds(p))] = ofile[p][d]]
       /\ ftable' = [ftable EXCEPT ![ofile[p][d]].ref = @ + 1]
       /\ cwd' = cwd /\ call' = call /\ pc' = pc /\ ip' = ip /\ ofile[p][d] # None
    BY <1>2, <1>3, <1>4
  <2> QED BY <1>1, <2>1, DupFiles
<1>18. \A i \in Inums : InFile(i)' => InFile(i) \/ Holds(p, i) BY <1>17, <1>1, <1>2 DEF Holds
<1>19. Sound => strayed' \/ Goes(p)
  <2> SUFFICES ASSUME Sound, ~ strayed' PROVE Goes(p)
    OBVIOUS
  <2>1. \A i \in Inums : copy'[i] = copy[i] \/ copy'[i] = NotRead \/ i = None
    BY <1>1, <1>2, <1>3, <1>4, IgetIs DEF Typed, TableTyped
  <2>2. \A i \in Inums : Holds(p, i)' => Holds(p, i) \/ InFile(i) \/ View[i].nlink >= 1
    BY <1>2, <1>3, <1>5, PutsAre, NoneIs DEF Holds
  <2>3. \A i \in Inums : Reached(p, i)' => Reached(p, i) \/ HasEntries(i)
    BY <1>2, <1>3, <1>5 DEF Reached
  <2>4. \A i \in Inums : copy'[i] = copy[i] \/ copy'[i] = NotRead \/ Holds(p, i) \/ InFile(i)
    BY <1>2, <2>1 DEF Holds
  <2>5. /\ dp'[p] # None => dp'[p] \in Inums /\ View[dp'[p]].type = "dir"
        /\ pc'[p] \in {"walk", "parent", "giveUp", "linkBad"} /\ ip'[p] # None =>
             ip'[p] \in Inums /\ View[ip'[p]].type # "dir"
    BY <1>2, <1>3, <1>5, <1>1, InodeIs DEF Sound, Reaching, LinkedFile
  <2> QED BY <2>2, <2>3, <2>4, <2>5, <1>18 DEF Goes
<1>20. ASSUME NEW k \in Inums
         PROVE ref'[k] + Mine(p, k) + Is(None, k) = ref[k] + Mine(p, k)' + Is(None, k)
  <2>1. ref'[k] = ref[k] /\ ref[k] \in Int BY <1>1, <1>2, <1>3, <1>4 DEF Is, Typed, TableTyped
  <2>2. Mine(p, k) = Is(cwd[p], k) BY <1>1, <1>2, IsAre, PutsAre DEF Mine, CwdOf, IpOf
  <2>3. Mine(p, k)' = Is(cwd[p], k) BY <1>2, <1>3, <1>5, IsAre, PutsAre DEF Mine, CwdOf, IpOf
  <2>4. (\A x : Is(x, k) \in Int) /\ Is(None, k) = 0 BY IsAre
  <2> QED BY <2>1, <2>2, <2>3, <2>4, <1>4
<1>21. Typed'
  BY <1>1, <1>2, <1>3, <1>4, <1>7, <1>8, <1>9, <1>17 DEF Typed, DiskTyped, TableTyped, Kept
<1>22. RefsOK' /\ FilesOK' BY <1>1, <1>21, <1>6, <1>17, <1>20, RefsKept
<1> QED BY <1>3, <1>4, <1>6, <1>9, <1>10, <1>12, <1>13, <1>14, <1>15, <1>16, <1>19, <1>21,
  <1>22, QuietGood

\* close() drops a descriptor.
LEMMA CloseGood ==
  ASSUME Good, NEW p \in Procs, NEW d \in Fds, Close(p, d)
  PROVE  Good'
<1>1. Typed /\ Shape(p) /\ Locks /\ Coherent /\ RefsOK /\ FilesOK /\ OwnLocks(p) /\ Shaped
        /\ UnlinkOK
  BY DEF Good, Core, Shaped, Locks, OwnLocks
<1>2. /\ pc[p] = "user" /\ puts[p] = <<>> /\ put[p] = "no" /\ cur[p] = None /\ dp[p] = None
      /\ ip[p] = None /\ p \notin active /\ cwd[p] \in Inums /\ ofile[p][d] # None
      /\ call[p].op # "write"
  BY <1>1 DEF Close, OnFile, At, Goto, Iputs, DropDp, Iget, Reads, Ilock, table, files, walk,
    locals, bounds, D!Begin, D!End, Shape, WithCur, WithDp, WithIp, NoPuts, Typed, ProcsTyped,
    FilesTyped
<1>3. ofile[p][d] \in Files /\ ftable[ofile[p][d]].ref \in Int
        /\ ftable[ofile[p][d]].ip \in Inums /\ InFile(ftable[ofile[p][d]].ip)
  BY <1>1, <1>2, DescriptorIs
<1>4. UNCHANGED <<durable, disk, active, ref, copy, lock, cwd, call, cur, rest, dp, puts, put,
        strayed>>
  BY DEF Close, OnFile, At, Goto, Iputs, DropDp, Iget, Reads, Ilock, table, files, walk, locals,
    bounds, D!Begin, D!End
<1>5. \/ /\ ftable[ofile[p][d]].ref > 1
         /\ ftable' = [ftable EXCEPT ![ofile[p][d]].ref = @ - 1]
         /\ ofile' = [ofile EXCEPT ![p][d] = None] /\ pc' = pc /\ ip' = ip
      \/ /\ ~ ftable[ofile[p][d]].ref > 1
         /\ ftable' = [ftable EXCEPT ![ofile[p][d]] = NoFile]
         /\ ofile' = [ofile EXCEPT ![p][d] = None] /\ pc' = [pc EXCEPT ![p] = "closing"]
         /\ ip' = [ip EXCEPT ![p] = ftable[ofile[p][d]].ip]
  BY <1>1, <1>2, <1>3 DEF Close, OnFile, At, Goto, Iputs, DropDp, Iget, Reads, Ilock, table,
    files, walk, locals, bounds, D!Begin, D!End
<1>6. CASE /\ ftable[ofile[p][d]].ref > 1
             /\ ftable' = [ftable EXCEPT ![ofile[p][d]].ref = @ - 1]
             /\ ofile' = [ofile EXCEPT ![p][d] = None] /\ pc' = pc /\ ip' = ip
  <2>1. /\ pc'[p] = pc[p] /\ cur'[p] = cur[p] /\ ip'[p] = ip[p] /\ dp'[p] = dp[p]
        /\ puts'[p] = puts[p] /\ put'[p] = put[p] /\ rest'[p] = rest[p]
        /\ call'[p] = call[p] /\ cwd'[p] = cwd[p] /\ ftable[ofile[p][d]].ref > 1
    BY <1>1, <1>4, <1>6 DEF Typed, ProcsTyped, FilesTyped
  <2>2. Others(p) BY <1>1, <1>2, <1>4, <1>6 DEF Typed, ProcsTyped, FilesTyped, Others
  <2>3. ProcsTyped' BY <1>1, <1>2, <1>3, <1>4, <1>6, <2>1, SeqsAre DEF Typed, ProcsTyped, Labels
  <2>4. ref' \in [Inums -> Int] /\ lock' \in [Inums -> Procs \cup {Nobody}]
    BY <1>1, <1>2, <1>3, <1>4, <1>6 DEF Typed, TableTyped
  <2>5. Kept /\ \A k \in Inums : copy'[k] # NotRead => IsInode(copy'[k])
    <3>1. /\ disk' = disk /\ copy' = copy BY <1>1, <1>2, <1>3, <1>4, <1>6
    <3>2. Typed BY <1>1
    <3> QED BY <3>1, <3>2, SameKeeps
  <2>6. Shape(p)'
    BY <1>2, <1>3, <1>4, <2>1, SeqsAre, NoneIs DEF Shape, WithCur, WithDp, WithIp, NoPuts,
      Creates
  <2>7. \A i \in Inums : \/ lock'[i] = lock[i]
                         \/ lock'[i] = p /\ lock[i] = Nobody /\ copy'[i] # NotRead
                         \/ lock'[i] = Nobody /\ lock[i] = p
    BY <1>4, <1>6
  <2>8. LocksMove(p) BY <1>1, <2>5, <2>7, LocksMoveIs
  <2>9. OwnLocks(p)'
    BY <1>1, <1>2, <1>3, <1>4, <1>6, <2>1, ProcsAssumption, SeqsAre DEF Typed, TableTyped,
      OwnLocks, HoldsLock, Freeing, LocksIp, LocksDp
  <2>10. (\A i \in Inums : Apart(p, i)') /\ SameBusy(p)
    BY <1>1, <1>2, <1>3, <1>4, <1>6, <2>1, SeqsAre DEF Apart, SameBusy, Freeing, Truncates
  <2>11. UnlinksOwn(p)' /\ PendsLess(p)
    BY <1>1, <1>2, <1>3, <1>4, <1>6, <2>1, NoneIs DEF UnlinksOwn, PendsLess, Pends
  <2>12. strayed => strayed' BY <1>4, <1>6
  <2>13. /\ FilesOK' /\ FilesTyped'
         /\ \A k \in Inums : Count(FileRef, k)' = Count(FileRef, k) - Is(None, k) + Is(None, k)
         /\ \A k \in Inums : InFile(k)' => InFile(k)
    <3>1. /\ ofile' = [ofile EXCEPT ![p][d] = None] /\ cwd' = cwd /\ call' = call
          /\ ofile[p][d] # None
         /\ call[p].op # "write" /\ pc'[p] # "truncating"
         /\ ftable' = IF ftable[ofile[p][d]].ref > 1 THEN [ftable EXCEPT ![ofile[p][d]].ref = @ - 1]
                                                    ELSE [ftable EXCEPT ![ofile[p][d]] = NoFile]
      BY <1>2, <1>4, <1>6, <2>1
    <3> QED BY <1>1, <3>1, <2>2, <1>6, CloseFiles
  <2>14. \A i \in Inums : InFile(i)' => InFile(i) \/ Holds(p, i)
    BY <2>13, <1>1, <1>2, <1>3 DEF Holds
  <2>15. Sound => strayed' \/ Goes(p)
    <3> SUFFICES ASSUME Sound, ~ strayed' PROVE Goes(p)
      OBVIOUS
    <3>1. \A i \in Inums : copy'[i] = copy[i] \/ copy'[i] = NotRead \/ i = None
      BY <1>1, <1>2, <1>3, <1>4, <1>6, IgetIs DEF Typed, TableTyped
    <3>2. \A i \in Inums : Holds(p, i)' => Holds(p, i) \/ InFile(i) \/ View[i].nlink >= 1
      BY <1>2, <1>3, <1>4, <2>1, PutsAre, NoneIs DEF Holds
    <3>3. \A i \in Inums : Reached(p, i)' => Reached(p, i) \/ HasEntries(i)
      BY <1>2, <1>3, <1>4, <2>1 DEF Reached
    <3>4. \A i \in Inums : copy'[i] = copy[i] \/ copy'[i] = NotRead \/ Holds(p, i) \/ InFile(i)
      BY <1>2, <1>3, <3>1 DEF Holds
    <3>5. /\ dp'[p] # None => dp'[p] \in Inums /\ View[dp'[p]].type = "dir"
          /\ pc'[p] \in {"walk", "parent", "giveUp", "linkBad"} /\ ip'[p] # None =>
               ip'[p] \in Inums /\ View[ip'[p]].type # "dir"
      BY <1>2, <1>3, <1>4, <2>1, <1>1, InodeIs DEF Sound, Reaching, LinkedFile
    <3> QED BY <3>2, <3>3, <3>4, <3>5, <2>14 DEF Goes
  <2>16. ASSUME NEW k \in Inums
           PROVE ref'[k] + Mine(p, k) + Is(None, k) = ref[k] + Mine(p, k)' + Is(None, k)
    <3>1. ref'[k] = ref[k] /\ ref[k] \in Int
      BY <1>1, <1>2, <1>3, <1>4, <1>6 DEF Is, Typed, TableTyped
    <3>2. Mine(p, k) = Is(cwd[p], k) BY <1>1, <1>2, <1>3, IsAre, PutsAre DEF Mine, CwdOf, IpOf
    <3>3. Mine(p, k)' = Is(cwd[p], k)
      BY <1>2, <1>3, <1>4, <2>1, IsAre, PutsAre DEF Mine, CwdOf, IpOf
    <3>4. (\A x : Is(x, k) \in Int) /\ Is(None, k) = 0 BY IsAre
    <3> QED BY <3>1, <3>2, <3>3, <3>4, <1>6
  <2>17. Typed'
    BY <1>1, <1>2, <1>4, <1>6, <2>3, <2>4, <2>5, <2>13 DEF Typed, DiskTyped, TableTyped, Kept
  <2>18. RefsOK' /\ FilesOK' BY <1>1, <2>17, <2>2, <2>13, <2>16, RefsKept
  <2> QED BY <1>4, <1>6, <2>2, <2>5, <2>6, <2>8, <2>9, <2>10, <2>11, <2>12, <2>15, <2>17, <2>18,
    QuietGood
<1>7. CASE /\ ~ ftable[ofile[p][d]].ref > 1
             /\ ftable' = [ftable EXCEPT ![ofile[p][d]] = NoFile]
             /\ ofile' = [ofile EXCEPT ![p][d] = None] /\ pc' = [pc EXCEPT ![p] = "closing"]
             /\ ip' = [ip EXCEPT ![p] = ftable[ofile[p][d]].ip]
  <2>1. /\ pc'[p] = "closing" /\ cur'[p] = cur[p] /\ ip'[p] = ftable[ofile[p][d]].ip
        /\ dp'[p] = dp[p] /\ puts'[p] = puts[p] /\ put'[p] = put[p] /\ rest'[p] = rest[p]
        /\ call'[p] = call[p] /\ cwd'[p] = cwd[p] /\ ~ ftable[ofile[p][d]].ref > 1
    BY <1>1, <1>4, <1>7 DEF Typed, ProcsTyped, FilesTyped
  <2>2. Others(p) BY <1>1, <1>2, <1>4, <1>7 DEF Typed, ProcsTyped, FilesTyped, Others
  <2>3. ProcsTyped' BY <1>1, <1>2, <1>3, <1>4, <1>7, <2>1, SeqsAre DEF Typed, ProcsTyped, Labels
  <2>4. ref' \in [Inums -> Int] /\ lock' \in [Inums -> Procs \cup {Nobody}]
    BY <1>1, <1>2, <1>3, <1>4, <1>7 DEF Typed, TableTyped
  <2>5. Kept /\ \A k \in Inums : copy'[k] # NotRead => IsInode(copy'[k])
    <3>1. /\ disk' = disk /\ copy' = copy BY <1>1, <1>2, <1>3, <1>4, <1>7
    <3>2. Typed BY <1>1
    <3> QED BY <3>1, <3>2, SameKeeps
  <2>6. Shape(p)'
    BY <1>2, <1>3, <1>4, <2>1, SeqsAre, NoneIs DEF Shape, WithCur, WithDp, WithIp, NoPuts,
      Creates
  <2>7. \A i \in Inums : \/ lock'[i] = lock[i]
                         \/ lock'[i] = p /\ lock[i] = Nobody /\ copy'[i] # NotRead
                         \/ lock'[i] = Nobody /\ lock[i] = p
    BY <1>4, <1>7
  <2>8. LocksMove(p) BY <1>1, <2>5, <2>7, LocksMoveIs
  <2>9. OwnLocks(p)'
    BY <1>1, <1>2, <1>3, <1>4, <1>7, <2>1, ProcsAssumption, SeqsAre DEF Typed, TableTyped,
      OwnLocks, HoldsLock, Freeing, LocksIp, LocksDp
  <2>10. (\A i \in Inums : Apart(p, i)') /\ SameBusy(p)
    BY <1>1, <1>2, <1>3, <1>4, <1>7, <2>1, SeqsAre DEF Apart, SameBusy, Freeing, Truncates
  <2>11. UnlinksOwn(p)' /\ PendsLess(p)
    BY <1>1, <1>2, <1>3, <1>4, <1>7, <2>1, NoneIs DEF UnlinksOwn, PendsLess, Pends
  <2>12. strayed => strayed' BY <1>4, <1>7
  <2>13. /\ FilesOK' /\ FilesTyped'
         /\ \A k \in Inums : Count(FileRef, k)' = Count(FileRef, k) - Is(ftable[ofile[p][d]].ip,
              k) + Is(None, k)
         /\ \A k \in Inums : InFile(k)' => InFile(k)
    <3>1. /\ ofile' = [ofile EXCEPT ![p][d] = None] /\ cwd' = cwd /\ call' = call
          /\ ofile[p][d] # None
         /\ call[p].op # "write" /\ pc'[p] # "truncating"
         /\ ftable' = IF ftable[ofile[p][d]].ref > 1 THEN [ftable EXCEPT ![ofile[p][d]].ref = @ - 1]
                                                    ELSE [ftable EXCEPT ![ofile[p][d]] = NoFile]
      BY <1>2, <1>4, <1>7, <2>1
    <3> QED BY <1>1, <3>1, <2>2, <1>7, CloseFiles
  <2>14. \A i \in Inums : InFile(i)' => InFile(i) \/ Holds(p, i)
    BY <2>13, <1>1, <1>2, <1>3 DEF Holds
  <2>15. Sound => strayed' \/ Goes(p)
    <3> SUFFICES ASSUME Sound, ~ strayed' PROVE Goes(p)
      OBVIOUS
    <3>1. \A i \in Inums : copy'[i] = copy[i] \/ copy'[i] = NotRead \/ i = None
      BY <1>1, <1>2, <1>3, <1>4, <1>7, IgetIs DEF Typed, TableTyped
    <3>2. \A i \in Inums : Holds(p, i)' => Holds(p, i) \/ InFile(i) \/ View[i].nlink >= 1
      BY <1>2, <1>3, <1>4, <2>1, PutsAre, NoneIs DEF Holds
    <3>3. \A i \in Inums : Reached(p, i)' => Reached(p, i) \/ HasEntries(i)
      BY <1>2, <1>3, <1>4, <2>1 DEF Reached
    <3>4. \A i \in Inums : copy'[i] = copy[i] \/ copy'[i] = NotRead \/ Holds(p, i) \/ InFile(i)
      BY <1>2, <1>3, <3>1 DEF Holds
    <3>5. /\ dp'[p] # None => dp'[p] \in Inums /\ View[dp'[p]].type = "dir"
          /\ pc'[p] \in {"walk", "parent", "giveUp", "linkBad"} /\ ip'[p] # None =>
               ip'[p] \in Inums /\ View[ip'[p]].type # "dir"
      BY <1>2, <1>3, <1>4, <2>1, <1>1, InodeIs DEF Sound, Reaching, LinkedFile
    <3> QED BY <3>2, <3>3, <3>4, <3>5, <2>14 DEF Goes
  <2>16. ASSUME NEW k \in Inums
           PROVE ref'[k] + Mine(p, k) + Is(ftable[ofile[p][d]].ip, k) = ref[k] + Mine(p,
             k)' + Is(None, k)
    <3>1. ref'[k] = ref[k] /\ ref[k] \in Int
      BY <1>1, <1>2, <1>3, <1>4, <1>7 DEF Is, Typed, TableTyped
    <3>2. Mine(p, k) = Is(cwd[p], k) BY <1>1, <1>2, <1>3, IsAre, PutsAre DEF Mine, CwdOf, IpOf
    <3>3. Mine(p, k)' = Is(cwd[p], k) + Is(ftable[ofile[p][d]].ip, k)
      BY <1>2, <1>3, <1>4, <2>1, IsAre, PutsAre, Z3 DEF Mine, CwdOf, IpOf
    <3>4. (\A x : Is(x, k) \in Int) /\ Is(None, k) = 0 BY IsAre
    <3> QED BY <3>1, <3>2, <3>3, <3>4, <1>7
  <2>17. Typed'
    BY <1>1, <1>2, <1>4, <1>7, <2>3, <2>4, <2>5, <2>13 DEF Typed, DiskTyped, TableTyped, Kept
  <2>18. RefsOK' /\ FilesOK' BY <1>1, <2>17, <2>2, <2>13, <2>16, RefsKept
  <2> QED BY <1>4, <1>7, <2>2, <2>5, <2>6, <2>8, <2>9, <2>10, <2>11, <2>12, <2>15, <2>17, <2>18,
    QuietGood
<1> QED BY <1>5, <1>6, <1>7

\* fileclose() puts the inode in a transaction of its own.
LEMMA CloseInodeGood ==
  ASSUME Good, NEW p \in Procs, CloseInode(p)
  PROVE  Good'
<1>1. Typed /\ Shape(p) /\ Locks /\ Coherent /\ RefsOK /\ FilesOK /\ OwnLocks(p) /\ Shaped
        /\ UnlinkOK
  BY DEF Good, Core, Shaped, Locks, OwnLocks
<1>2. /\ pc[p] = "closing" /\ puts[p] = <<>> /\ put[p] = "no" /\ cur[p] = None
      /\ dp[p] = None /\ ip[p] \in Inums /\ p \notin active /\ cwd[p] \in Inums
  BY <1>1 DEF CloseInode, At, Goto, Iputs, DropDp, Iget, Reads, Ilock, table, files, walk,
    locals, bounds, D!Begin, D!End, Shape, WithCur, WithDp, WithIp, NoPuts, Typed, ProcsTyped,
    FilesTyped
<1>3. UNCHANGED <<durable, disk, ref, copy, lock, ftable, ofile, cwd, call, cur, rest, dp, put,
        strayed>>
  BY DEF CloseInode, At, Goto, Iputs, DropDp, Iget, Reads, Ilock, table, files, walk, locals,
    bounds, D!Begin, D!End
<1>4. /\ active' = active \cup {p} /\ pc' = [pc EXCEPT ![p] = "end"]
      /\ ip' = [ip EXCEPT ![p] = None] /\ puts' = [puts EXCEPT ![p] = <<ip[p]>>]
  BY <1>1, <1>2 DEF CloseInode, At, Goto, Iputs, DropDp, Iget, Reads, Ilock, table, files, walk,
    locals, bounds, D!Begin, D!End
<1>5. /\ pc'[p] = "end" /\ cur'[p] = cur[p] /\ ip'[p] = None /\ dp'[p] = dp[p]
      /\ puts'[p] = <<ip[p]>> /\ put'[p] = put[p] /\ rest'[p] = rest[p]
      /\ call'[p] = call[p] /\ cwd'[p] = cwd[p]
  BY <1>1, <1>3, <1>4 DEF Typed, ProcsTyped, FilesTyped
<1>6. Others(p) BY <1>1, <1>2, <1>3, <1>4 DEF Typed, ProcsTyped, FilesTyped, Others
<1>7. ProcsTyped' BY <1>1, <1>2, <1>3, <1>4, <1>5, SeqsAre DEF Typed, ProcsTyped, Labels
<1>8. Counters' BY <1>1, <1>2, <1>3, <1>4 DEF Counters, Typed, TableTyped
<1>9. Kept
  <2>1. /\ disk' = disk /\ copy' = copy BY <1>1, <1>2, <1>3, <1>4
  <2>2. Typed BY <1>1
  <2> QED BY <2>1, <2>2, SameKeeps
<1>10. Shape(p)'
  BY <1>2, <1>3, <1>5, <1>4, SeqsAre, NoneIs DEF Shape, WithCur, WithDp, WithIp, NoPuts, Creates
<1>11. LocksStep(p) BY <1>3, <1>4 DEF LocksStep
<1>12. OwnLocks(p)'
  BY <1>1, <1>2, <1>3, <1>4, <1>5, ProcsAssumption, SeqsAre DEF Typed, TableTyped, OwnLocks,
    HoldsLock, Freeing, LocksIp, LocksDp
<1>13. (\A i \in Inums : Apart(p, i)') /\ SameBusy(p)
  BY <1>1, <1>2, <1>3, <1>4, <1>5, SeqsAre DEF Apart, SameBusy, Freeing, Truncates
<1>14. UnlinksOwn(p)' /\ PendsLess(p)
  BY <1>1, <1>2, <1>3, <1>4, <1>5, NoneIs DEF UnlinksOwn, PendsLess, Pends
<1>15. strayed => strayed' BY <1>3, <1>4
<1>16. SameFiles(p) BY <1>1, <1>2, <1>3, <1>4, <1>5 DEF SameFiles
<1>17. Sound => strayed' \/ OnPath(p)
  <2> SUFFICES ASSUME Sound, ~ strayed' PROVE OnPath(p)
    OBVIOUS
  <2>1. \A i \in Inums : copy'[i] = copy[i] \/ copy'[i] = NotRead \/ i = cur[p]
    BY <1>1, <1>2, <1>3, <1>4, IgetIs DEF Typed, TableTyped
  <2>2. Gets(p) BY <1>2, <1>3, <1>5, PutsAre, NoneIs DEF Gets, Holds
  <2>3. Comes(p) BY <1>2, <1>3, <1>5 DEF Comes, Reached
  <2>4. Rereads(p) BY <1>2, <2>1 DEF Rereads, Holds
  <2>5. Parents(p) BY <1>2, <1>3, <1>5, <1>1, InodeIs DEF Parents, Sound, Reaching, LinkedFile
  <2> QED BY <2>2, <2>3, <2>4, <2>5 DEF OnPath
<1>18. ASSUME NEW k \in Inums PROVE ref'[k] + Mine(p, k) = ref[k] + Mine(p, k)'
  <2>1. ref'[k] = ref[k] /\ ref[k] \in Int BY <1>1, <1>2, <1>3, <1>4 DEF Is, Typed, TableTyped
  <2>2. Mine(p, k) = Is(cwd[p], k) + Is(ip[p], k)
    BY <1>1, <1>2, IsAre, PutsAre DEF Mine, CwdOf, IpOf
  <2>3. Mine(p, k)' = Is(cwd[p], k) + Is(ip[p], k)
    BY <1>2, <1>3, <1>5, IsAre, PutsAre DEF Mine, CwdOf, IpOf
  <2>4. \A x : Is(x, k) \in Int BY IsAre
  <2> QED BY <2>1, <2>2, <2>3, <2>4
<1>19. FilesTyped' /\ active' \subseteq Procs
  BY <1>1, <1>3, <1>4 DEF Typed, FilesTyped, DiskTyped
<1> QED BY <1>3, <1>4, <1>6, <1>7, <1>8, <1>9, <1>10, <1>11, <1>12, <1>13, <1>14, <1>15, <1>16,
  <1>17, <1>18, <1>19, QuietStep

\* read().
LEMMA ReadGood ==
  ASSUME Good, NEW p \in Procs, NEW d \in Fds, Read(p, d)
  PROVE  Good'
<1>1. Typed /\ Shape(p) /\ Locks /\ Coherent /\ RefsOK /\ FilesOK /\ OwnLocks(p) /\ Shaped
        /\ UnlinkOK
  BY DEF Good, Core, Shaped, Locks, OwnLocks
<1>2. /\ pc[p] = "user" /\ puts[p] = <<>> /\ put[p] = "no" /\ cur[p] = None /\ dp[p] = None
      /\ ip[p] = None /\ p \notin active /\ cwd[p] \in Inums /\ ofile[p][d] # None
      /\ call[p].op # "write"
  BY <1>1 DEF Read, OnFile, At, Goto, Iputs, DropDp, Iget, Reads, Ilock, table, files, walk,
    locals, bounds, D!Begin, D!End, Shape, WithCur, WithDp, WithIp, NoPuts, Typed, ProcsTyped,
    FilesTyped
<1>3. ofile[p][d] \in Files /\ ftable[ofile[p][d]].ref \in Int
        /\ ftable[ofile[p][d]].ip \in Inums /\ InFile(ftable[ofile[p][d]].ip)
  BY <1>1, <1>2, DescriptorIs
<1>4. UNCHANGED <<durable, disk, active, ref, lock, ofile, cwd, pc, call, cur, rest, ip, dp,
        puts, put, strayed>>
  BY DEF Read, OnFile, At, Goto, Iputs, DropDp, Iget, Reads, Ilock, table, files, walk, locals,
    bounds, D!Begin, D!End
<1>5. /\ lock[ftable[ofile[p][d]].ip] = Nobody
      /\ Inode(ftable[ofile[p][d]].ip).type # "free"
      /\ copy' = [copy EXCEPT ![ftable[ofile[p][d]].ip] = Inode(ftable[ofile[p][d]].ip)]
      /\ ftable' = [ftable EXCEPT ![ofile[p][d]].off = IF @ < Inode(ftable[ofile[p][d]].ip).size THEN @ + 1 ELSE @]
  BY <1>1, <1>2, <1>3 DEF Read, OnFile, At, Goto, Iputs, DropDp, Iget, Reads, Ilock, table,
    files, walk, locals, bounds, D!Begin, D!End
<1>6. /\ pc'[p] = pc[p] /\ cur'[p] = cur[p] /\ ip'[p] = ip[p] /\ dp'[p] = dp[p]
      /\ puts'[p] = puts[p] /\ put'[p] = put[p] /\ rest'[p] = rest[p] /\ call'[p] = call[p]
      /\ cwd'[p] = cwd[p] /\ lock[ftable[ofile[p][d]].ip] = Nobody
      /\ Inode(ftable[ofile[p][d]].ip).type # "free"
  BY <1>1, <1>4, <1>5 DEF Typed, ProcsTyped, FilesTyped
<1>7. Others(p) BY <1>1, <1>2, <1>4, <1>5 DEF Typed, ProcsTyped, FilesTyped, Others
<1>8. ProcsTyped' BY <1>1, <1>2, <1>3, <1>4, <1>5, <1>6, SeqsAre DEF Typed, ProcsTyped, Labels
<1>9. Counters' BY <1>1, <1>2, <1>3, <1>4, <1>5 DEF Counters, Typed, TableTyped
<1>10. Kept
  <2>1. /\ disk' = disk /\ ftable[ofile[p][d]].ip \in Inums
      /\ lock[ftable[ofile[p][d]].ip] = Nobody
      /\ Inode(ftable[ofile[p][d]].ip).type # "free"
      /\ copy' = [copy EXCEPT ![ftable[ofile[p][d]].ip] = Inode(ftable[ofile[p][d]].ip)]
    BY <1>1, <1>2, <1>3, <1>4, <1>5
  <2>2. Typed BY <1>1
  <2> QED BY <2>1, <2>2, ReadsKeeps
<1>11. Shape(p)'
  BY <1>2, <1>3, <1>4, <1>6, SeqsAre, NoneIs DEF Shape, WithCur, WithDp, WithIp, NoPuts, Creates
<1>12. LocksStep(p) BY <1>4, <1>5 DEF LocksStep
<1>13. OwnLocks(p)'
  BY <1>1, <1>2, <1>3, <1>4, <1>5, <1>6, ProcsAssumption, SeqsAre DEF Typed, TableTyped,
    OwnLocks, HoldsLock, Freeing, LocksIp, LocksDp
<1>14. (\A i \in Inums : Apart(p, i)') /\ SameBusy(p)
  BY <1>1, <1>2, <1>3, <1>4, <1>5, <1>6, SeqsAre DEF Apart, SameBusy, Freeing, Truncates
<1>15. UnlinksOwn(p)' /\ PendsLess(p)
  BY <1>1, <1>2, <1>3, <1>4, <1>5, <1>6, NoneIs DEF UnlinksOwn, PendsLess, Pends
<1>16. strayed => strayed' BY <1>4, <1>5
<1>17. SameFiles(p)
  BY <1>1, <1>2, <1>3, <1>4, <1>5, <1>6 DEF SameFiles, Typed, FilesTyped, FileIs
<1>18. Sound => strayed' \/ OnPath(p)
  <2> SUFFICES ASSUME Sound, ~ strayed' PROVE OnPath(p)
    OBVIOUS
  <2>1. \A i \in Inums : copy'[i] = copy[i] \/ copy'[i] = NotRead \/ i = ftable[ofile[p][d]].ip
    BY <1>1, <1>2, <1>3, <1>4, <1>5, IgetIs DEF Typed, TableTyped
  <2>2. Gets(p) BY <1>2, <1>3, <1>4, <1>6, PutsAre, NoneIs DEF Gets, Holds
  <2>3. Comes(p) BY <1>2, <1>3, <1>4, <1>6 DEF Comes, Reached
  <2>4. Rereads(p) BY <1>2, <1>3, <2>1 DEF Rereads, Holds
  <2>5. Parents(p)
    BY <1>2, <1>3, <1>4, <1>6, <1>1, InodeIs DEF Parents, Sound, Reaching, LinkedFile
  <2> QED BY <2>2, <2>3, <2>4, <2>5 DEF OnPath
<1>19. ASSUME NEW k \in Inums PROVE ref'[k] + Mine(p, k) = ref[k] + Mine(p, k)'
  <2>1. ref'[k] = ref[k] /\ ref[k] \in Int
    BY <1>1, <1>2, <1>3, <1>4, <1>5 DEF Is, Typed, TableTyped
  <2>2. Mine(p, k) = Is(cwd[p], k) BY <1>1, <1>2, <1>3, IsAre, PutsAre DEF Mine, CwdOf, IpOf
  <2>3. Mine(p, k)' = Is(cwd[p], k)
    BY <1>2, <1>3, <1>4, <1>6, IsAre, PutsAre DEF Mine, CwdOf, IpOf
  <2>4. \A x : Is(x, k) \in Int BY IsAre
  <2> QED BY <2>1, <2>2, <2>3, <2>4
<1>20. FilesTyped'
  <2>1. PICK f \in Files : f = ofile[p][d] BY <1>3
  <2>2. ftable[f] \in FileIs BY <1>1 DEF Typed, FilesTyped
  <2>3. [ftable[f] EXCEPT !.off = IF @ < Inode(ftable[f].ip).size THEN @ + 1 ELSE @] \in FileIs
    BY <2>2 DEF FileIs
  <2>4. ftable' \in [Files -> FileIs] BY <1>1, <2>1, <2>3, <1>5, Zenon DEF Typed, FilesTyped
  <2> QED BY <1>1, <2>4, <1>4 DEF Typed, FilesTyped
<1>21. FilesTyped' /\ active' \subseteq Procs
  BY <1>1, <1>2, <1>4, <1>5, <1>20 DEF Typed, FilesTyped, DiskTyped
<1> QED BY <1>4, <1>5, <1>7, <1>8, <1>9, <1>10, <1>11, <1>12, <1>13, <1>14, <1>15, <1>16, <1>17,
  <1>18, <1>19, <1>21, QuietStep

\* write() begins.
LEMMA WriteQuiet ==
  ASSUME Good, NEW p \in Procs, NEW d \in Fds, Write(p, d), NEW n \in Nat,
    call' = [call EXCEPT ![p] = [op |-> "write", f |-> ofile[p][d], left |-> n]]
  PROVE  Good'
<1>1. Typed /\ Shape(p) /\ Locks /\ Coherent /\ RefsOK /\ FilesOK /\ OwnLocks(p) /\ Shaped
        /\ UnlinkOK
  BY DEF Good, Core, Shaped, Locks, OwnLocks
<1>2. /\ pc[p] = "user" /\ puts[p] = <<>> /\ put[p] = "no" /\ cur[p] = None /\ dp[p] = None
      /\ ip[p] = None /\ p \notin active /\ cwd[p] \in Inums /\ ofile[p][d] # None
  BY <1>1 DEF Write, OnFile, At, Goto, Iputs, DropDp, Iget, Reads, Ilock, table, files, walk,
    locals, bounds, D!Begin, D!End, Typed, ProcsTyped, Shape, WithCur, WithDp, WithIp, NoPuts,
    Typed, ProcsTyped, FilesTyped
<1>3. ofile[p][d] \in Files /\ ftable[ofile[p][d]].ref \in Int
        /\ ftable[ofile[p][d]].ip \in Inums /\ InFile(ftable[ofile[p][d]].ip)
  BY <1>1, <1>2, DescriptorIs
<1>4. IsCall([op |-> "write", f |-> ofile[p][d], left |-> n]) BY <1>2, <1>3 DEF IsCall, WithPath
<1>5. UNCHANGED <<durable, disk, active, ref, copy, lock, ftable, ofile, cwd, cur, rest, ip, dp,
        puts, put, strayed>>
  BY <1>1, <1>2 DEF Write, OnFile, At, Goto, Iputs, DropDp, Iget, Reads, Ilock, table, files,
    walk, locals, bounds, D!Begin, D!End, Typed, ProcsTyped
<1>6. /\ pc' = [pc EXCEPT ![p] = "writing"]
      /\ call' = [call EXCEPT ![p] = [op |-> "write", f |-> ofile[p][d], left |-> n]]
  BY <1>1, <1>2, <1>3, <1>4 DEF Write, OnFile, At, Goto, Iputs, DropDp, Iget, Reads, Ilock,
    table, files, walk, locals, bounds, D!Begin, D!End, Typed, ProcsTyped
<1>7. /\ pc'[p] = "writing" /\ cur'[p] = cur[p] /\ ip'[p] = ip[p] /\ dp'[p] = dp[p]
      /\ puts'[p] = puts[p] /\ put'[p] = put[p] /\ rest'[p] = rest[p]
      /\ call'[p] = [op |-> "write", f |-> ofile[p][d], left |-> n] /\ cwd'[p] = cwd[p]
  BY <1>1, <1>5, <1>6 DEF Typed, ProcsTyped, FilesTyped
<1>8. Others(p) BY <1>1, <1>2, <1>5, <1>6 DEF Typed, ProcsTyped, FilesTyped, Others
<1>9. ProcsTyped'
  BY <1>1, <1>2, <1>3, <1>4, <1>5, <1>6, <1>7, SeqsAre DEF Typed, ProcsTyped, Labels
<1>10. ref' \in [Inums -> Int] /\ lock' \in [Inums -> Procs \cup {Nobody}]
  BY <1>1, <1>2, <1>3, <1>4, <1>5, <1>6 DEF Typed, TableTyped
<1>11. Kept /\ \A k \in Inums : copy'[k] # NotRead => IsInode(copy'[k])
  <2>1. /\ disk' = disk /\ copy' = copy BY <1>1, <1>2, <1>3, <1>4, <1>5, <1>6
  <2>2. Typed BY <1>1
  <2> QED BY <2>1, <2>2, SameKeeps
<1>12. Shape(p)'
  BY <1>2, <1>3, <1>4, <1>5, <1>7, SeqsAre, NoneIs DEF Shape, WithCur, WithDp, WithIp, NoPuts,
    Creates
<1>13. \A i \in Inums : \/ lock'[i] = lock[i]
                        \/ lock'[i] = p /\ lock[i] = Nobody /\ copy'[i] # NotRead
                        \/ lock'[i] = Nobody /\ lock[i] = p
  BY <1>5, <1>6
<1>14. LocksMove(p) BY <1>1, <1>11, <1>13, LocksMoveIs
<1>15. OwnLocks(p)'
  BY <1>1, <1>2, <1>3, <1>4, <1>5, <1>6, <1>7, ProcsAssumption, SeqsAre DEF Typed, TableTyped,
    OwnLocks, HoldsLock, Freeing, LocksIp, LocksDp
<1>16. (\A i \in Inums : Apart(p, i)') /\ SameBusy(p)
  BY <1>1, <1>2, <1>3, <1>4, <1>5, <1>6, <1>7, SeqsAre DEF Apart, SameBusy, Freeing, Truncates
<1>17. UnlinksOwn(p)' /\ PendsLess(p)
  BY <1>1, <1>2, <1>3, <1>4, <1>5, <1>6, <1>7, NoneIs DEF UnlinksOwn, PendsLess, Pends
<1>18. strayed => strayed' BY <1>5, <1>6
<1>19. /\ FilesOK' /\ FilesTyped'
       /\ \A k \in Inums : Count(FileRef, k)' = Count(FileRef, k) - Is(None, k) + Is(None, k)
       /\ \A k \in Inums : InFile(k)' => InFile(k)
  <2>1. Descriptors' = Descriptors /\ FileRef' = FileRef /\ \A k \in Inums : InFile(k)' => InFile(k)
    BY <1>5 DEF Descriptors, FileRef, InFile
  <2>2. \A g : Count(Descriptors, g)' = Count(Descriptors, g)
          /\ Count(FileRef, g)' = Count(FileRef, g)
    BY <2>1 DEF Count
  <2>3. \A q \in Procs : call'[q].op = "write" => \E b \in Fds : ofile'[q][b] = call'[q].f
    <7>1. ASSUME NEW q \in Procs, call'[q].op = "write"
            PROVE \E b \in Fds : ofile'[q][b] = call'[q].f
      <8>1. CASE q = p BY <8>1, <1>7, <1>5
      <8>2. CASE q # p BY <1>1, <7>1, <8>2, <1>8 DEF FilesOK, Others
      <8> QED BY <8>1, <8>2
    <7> QED BY <7>1
  <2>4. \A q \in Procs : pc'[q] = "truncating" => \E b \in Fds : ofile'[q][b] # None
          /\ ftable'[ofile'[q][b]].ip = ip'[q]
    BY <1>1, <1>5, <1>7, <1>8 DEF FilesOK, Others
  <2>5. FilesTyped' BY <1>1, <1>5 DEF Typed, FilesTyped
  <2> QED BY <1>1, <1>5, <2>1, <2>2, <2>3, <2>4, <2>5, IsAre, CountsAre DEF FilesOK
<1>20. \A i \in Inums : InFile(i)' => InFile(i) \/ Holds(p, i)
  BY <1>19, <1>1, <1>2, <1>3, <1>4 DEF Holds
<1>21. Sound => strayed' \/ Goes(p)
  <2> SUFFICES ASSUME Sound, ~ strayed' PROVE Goes(p)
    OBVIOUS
  <2>1. \A i \in Inums : copy'[i] = copy[i] \/ copy'[i] = NotRead \/ i = None
    BY <1>1, <1>2, <1>3, <1>4, <1>5, <1>6, IgetIs DEF Typed, TableTyped
  <2>2. \A i \in Inums : Holds(p, i)' => Holds(p, i) \/ InFile(i) \/ View[i].nlink >= 1
    BY <1>2, <1>3, <1>4, <1>5, <1>7, PutsAre, NoneIs DEF Holds
  <2>3. \A i \in Inums : Reached(p, i)' => Reached(p, i) \/ HasEntries(i)
    BY <1>2, <1>3, <1>4, <1>5, <1>7 DEF Reached
  <2>4. \A i \in Inums : copy'[i] = copy[i] \/ copy'[i] = NotRead \/ Holds(p, i) \/ InFile(i)
    BY <1>2, <1>3, <1>4, <2>1 DEF Holds
  <2>5. /\ dp'[p] # None => dp'[p] \in Inums /\ View[dp'[p]].type = "dir"
        /\ pc'[p] \in {"walk", "parent", "giveUp", "linkBad"} /\ ip'[p] # None =>
             ip'[p] \in Inums /\ View[ip'[p]].type # "dir"
    BY <1>2, <1>3, <1>4, <1>5, <1>7, <1>1, InodeIs DEF Sound, Reaching, LinkedFile
  <2> QED BY <2>2, <2>3, <2>4, <2>5, <1>20 DEF Goes
<1>22. ASSUME NEW k \in Inums
         PROVE ref'[k] + Mine(p, k) + Is(None, k) = ref[k] + Mine(p, k)' + Is(None, k)
  <2>1. ref'[k] = ref[k] /\ ref[k] \in Int
    BY <1>1, <1>2, <1>3, <1>4, <1>5, <1>6 DEF Is, Typed, TableTyped
  <2>2. Mine(p, k) = Is(cwd[p], k)
    BY <1>1, <1>2, <1>3, <1>4, IsAre, PutsAre DEF Mine, CwdOf, IpOf
  <2>3. Mine(p, k)' = Is(cwd[p], k)
    BY <1>2, <1>3, <1>4, <1>5, <1>7, IsAre, PutsAre, Z3 DEF Mine, CwdOf, IpOf
  <2>4. (\A x : Is(x, k) \in Int) /\ Is(None, k) = 0 BY IsAre
  <2> QED BY <2>1, <2>2, <2>3, <2>4
<1>23. Typed'
  BY <1>1, <1>2, <1>5, <1>6, <1>9, <1>10, <1>11, <1>19 DEF Typed, DiskTyped, TableTyped, Kept
<1>24. RefsOK' /\ FilesOK' BY <1>1, <1>23, <1>8, <1>19, <1>22, RefsKept
<1> QED BY <1>5, <1>6, <1>8, <1>11, <1>12, <1>14, <1>15, <1>16, <1>17, <1>18, <1>21, <1>23,
  <1>24, QuietGood

\* filewrite() begins a transaction.
LEMMA WriteBeginGood ==
  ASSUME Good, NEW p \in Procs, WriteBegin(p)
  PROVE  Good'
<1>1. Typed /\ Shape(p) /\ Locks /\ Coherent /\ RefsOK /\ FilesOK /\ OwnLocks(p) /\ Shaped
        /\ UnlinkOK
  BY DEF Good, Core, Shaped, Locks, OwnLocks
<1>2. /\ pc[p] = "writing" /\ puts[p] = <<>> /\ put[p] = "no" /\ cur[p] = None
      /\ dp[p] = None /\ ip[p] = None /\ p \notin active /\ cwd[p] \in Inums
      /\ call[p].op = "write"
  BY <1>1 DEF WriteBegin, At, Goto, Iputs, DropDp, Iget, Reads, Ilock, table, files, walk,
    locals, bounds, D!Begin, D!End, Shape, WithCur, WithDp, WithIp, NoPuts, Typed, ProcsTyped,
    FilesTyped
<1>3. UNCHANGED <<durable, disk, ref, copy, lock, ftable, ofile, cwd, call, cur, rest, ip, dp,
        puts, put, strayed>>
  BY DEF WriteBegin, At, Goto, Iputs, DropDp, Iget, Reads, Ilock, table, files, walk, locals,
    bounds, D!Begin, D!End
<1>4. /\ active' = active \cup {p} /\ pc' = [pc EXCEPT ![p] = "chunk"]
  BY <1>1, <1>2 DEF WriteBegin, At, Goto, Iputs, DropDp, Iget, Reads, Ilock, table, files, walk,
    locals, bounds, D!Begin, D!End
<1>5. /\ pc'[p] = "chunk" /\ cur'[p] = cur[p] /\ ip'[p] = ip[p] /\ dp'[p] = dp[p]
      /\ puts'[p] = puts[p] /\ put'[p] = put[p] /\ rest'[p] = rest[p] /\ call'[p] = call[p]
      /\ cwd'[p] = cwd[p]
  BY <1>1, <1>3, <1>4 DEF Typed, ProcsTyped, FilesTyped
<1>6. Others(p) BY <1>1, <1>2, <1>3, <1>4 DEF Typed, ProcsTyped, FilesTyped, Others
<1>7. ProcsTyped' BY <1>1, <1>2, <1>3, <1>4, <1>5, SeqsAre DEF Typed, ProcsTyped, Labels
<1>8. Counters' BY <1>1, <1>2, <1>3, <1>4 DEF Counters, Typed, TableTyped
<1>9. Kept
  <2>1. /\ disk' = disk /\ copy' = copy BY <1>1, <1>2, <1>3, <1>4
  <2>2. Typed BY <1>1
  <2> QED BY <2>1, <2>2, SameKeeps
<1>10. Shape(p)'
  BY <1>2, <1>3, <1>5, <1>4, SeqsAre, NoneIs DEF Shape, WithCur, WithDp, WithIp, NoPuts, Creates
<1>11. LocksStep(p) BY <1>3, <1>4 DEF LocksStep
<1>12. OwnLocks(p)'
  BY <1>1, <1>2, <1>3, <1>4, <1>5, ProcsAssumption, SeqsAre DEF Typed, TableTyped, OwnLocks,
    HoldsLock, Freeing, LocksIp, LocksDp
<1>13. (\A i \in Inums : Apart(p, i)') /\ SameBusy(p)
  BY <1>1, <1>2, <1>3, <1>4, <1>5, SeqsAre DEF Apart, SameBusy, Freeing, Truncates
<1>14. UnlinksOwn(p)' /\ PendsLess(p)
  BY <1>1, <1>2, <1>3, <1>4, <1>5, NoneIs DEF UnlinksOwn, PendsLess, Pends
<1>15. strayed => strayed' BY <1>3, <1>4
<1>16. SameFiles(p) BY <1>1, <1>2, <1>3, <1>4, <1>5 DEF SameFiles
<1>17. Sound => strayed' \/ OnPath(p)
  <2> SUFFICES ASSUME Sound, ~ strayed' PROVE OnPath(p)
    OBVIOUS
  <2>1. \A i \in Inums : copy'[i] = copy[i] \/ copy'[i] = NotRead \/ i = cur[p]
    BY <1>1, <1>2, <1>3, <1>4, IgetIs DEF Typed, TableTyped
  <2>2. Gets(p) BY <1>2, <1>3, <1>5, PutsAre, NoneIs DEF Gets, Holds
  <2>3. Comes(p) BY <1>2, <1>3, <1>5 DEF Comes, Reached
  <2>4. Rereads(p) BY <1>2, <2>1 DEF Rereads, Holds
  <2>5. Parents(p) BY <1>2, <1>3, <1>5, <1>1, InodeIs DEF Parents, Sound, Reaching, LinkedFile
  <2> QED BY <2>2, <2>3, <2>4, <2>5 DEF OnPath
<1>18. ASSUME NEW k \in Inums PROVE ref'[k] + Mine(p, k) = ref[k] + Mine(p, k)'
  <2>1. ref'[k] = ref[k] /\ ref[k] \in Int BY <1>1, <1>2, <1>3, <1>4 DEF Is, Typed, TableTyped
  <2>2. Mine(p, k) = Is(cwd[p], k) BY <1>1, <1>2, IsAre, PutsAre DEF Mine, CwdOf, IpOf
  <2>3. Mine(p, k)' = Is(cwd[p], k) BY <1>2, <1>3, <1>5, IsAre, PutsAre DEF Mine, CwdOf, IpOf
  <2>4. \A x : Is(x, k) \in Int BY IsAre
  <2> QED BY <2>1, <2>2, <2>3, <2>4
<1>19. FilesTyped' /\ active' \subseteq Procs
  BY <1>1, <1>3, <1>4 DEF Typed, FilesTyped, DiskTyped
<1> QED BY <1>3, <1>4, <1>6, <1>7, <1>8, <1>9, <1>10, <1>11, <1>12, <1>13, <1>14, <1>15, <1>16,
  <1>17, <1>18, <1>19, QuietStep

\* writei() writes a chunk.
LEMMA WriteChunkQuiet ==
  ASSUME Good, NEW p \in Procs, WriteChunk(p), UNCHANGED <<disk, ftable>>,
    Reads(ftable[call[p].f].ip), call' = [call EXCEPT ![p].left = 0]
  PROVE  Good'
<1>1. Typed /\ Shape(p) /\ Locks /\ Coherent /\ RefsOK /\ FilesOK /\ OwnLocks(p) /\ Shaped
        /\ UnlinkOK
  BY Zenon DEF Good, Core, Shaped, Locks, OwnLocks
<1>2. /\ pc[p] = "chunk" /\ puts[p] = <<>> /\ put[p] = "no" /\ cur[p] = None /\ dp[p] = None
      /\ ip[p] = None /\ p \in active /\ cwd[p] \in Inums /\ call[p].op = "write"
  BY <1>1, Zenon DEF WriteChunk, At, Typed, Shape, WithCur, WithDp, WithIp, FilesTyped
<1>3. IsCall(call[p]) /\ \E d \in Fds : ofile[p][d] = call[p].f
  BY <1>1, <1>2 DEF Typed, ProcsTyped, FilesOK
<1>4. call[p] = [op |-> "write", f |-> call[p].f, left |-> call[p].left] /\ call[p].f \in Files
  BY <1>2, <1>3 DEF IsCall
<1>5. ftable[call[p].f].ip \in Inums /\ InFile(ftable[call[p].f].ip)
  BY <1>1, <1>3, <1>4, FilesAre, DescriptorIs
<1>6. LET c == [call[p] EXCEPT !.left = 0] IN IsCall(c) /\ c.op = "write" /\ c.f = call[p].f
  BY <1>4, Z3 DEF IsCall, WithPath
<1>7. UNCHANGED <<durable, disk, active, ref, lock, ftable, ofile, cwd, cur, rest, ip, dp, puts,
        put, strayed>>
  BY Zenon DEF WriteChunk, walk
<1>8. /\ lock[ftable[call[p].f].ip] = Nobody /\ Inode(ftable[call[p].f].ip).type # "free"
      /\ copy' = [copy EXCEPT ![ftable[call[p].f].ip] = Inode(ftable[call[p].f].ip)]
      /\ pc' = [pc EXCEPT ![p] = "end"]
      /\ call' = [call EXCEPT ![p] = [call[p] EXCEPT !.left = 0]]
  BY Zenon DEF WriteChunk, Goto, Reads, Ilock
<1>9. /\ pc'[p] = "end" /\ cur'[p] = cur[p] /\ ip'[p] = ip[p] /\ dp'[p] = dp[p]
      /\ puts'[p] = puts[p] /\ put'[p] = put[p] /\ rest'[p] = rest[p]
      /\ call'[p] = [call[p] EXCEPT !.left = 0] /\ cwd'[p] = cwd[p]
      /\ lock[ftable[call[p].f].ip] = Nobody /\ Inode(ftable[call[p].f].ip).type # "free"
  BY <1>1, <1>7, <1>8 DEF Typed, ProcsTyped
<1>10. Others(p) BY <1>1, <1>7, <1>8 DEF Typed, ProcsTyped, Others
<1>11. ProcsTyped' BY <1>1, <1>4, <1>6, <1>7, <1>8 DEF Typed, ProcsTyped, Labels
<1>12. Counters' BY <1>1, <1>7 DEF Counters, Typed, TableTyped
<1>13. Kept
  <2>1. /\ disk' = disk /\ ftable[call[p].f].ip \in Inums
      /\ lock[ftable[call[p].f].ip] = Nobody /\ Inode(ftable[call[p].f].ip).type # "free"
      /\ copy' = [copy EXCEPT ![ftable[call[p].f].ip] = Inode(ftable[call[p].f].ip)]
    BY <1>5, <1>8
  <2>2. Typed BY <1>1
  <2> QED BY <2>1, <2>2, ReadsKeeps
<1>14. Shape(p)'
  BY <1>2, <1>3, <1>4, <1>5, <1>6, <1>7, <1>9, SeqsAre DEF Shape, WithCur, WithDp, WithIp,
    NoPuts
<1>15. LocksStep(p) BY <1>7 DEF LocksStep
<1>16. OwnLocks(p)' BY <1>1, <1>2, <1>7, <1>9 DEF OwnLocks, HoldsLock, Freeing, LocksIp, LocksDp
<1>17. (\A i \in Inums : Apart(p, i)') /\ SameBusy(p)
  BY <1>2, <1>8, <1>9 DEF Apart, SameBusy, Freeing, Truncates
<1>18. UnlinksOwn(p)' /\ PendsLess(p) BY <1>9 DEF UnlinksOwn, PendsLess, Pends
<1>19. strayed => strayed' BY <1>7
<1>20. SameFiles(p) BY <1>4, <1>7, <1>9 DEF SameFiles
<1>21. Sound => strayed' \/ OnPath(p)
  <2> SUFFICES ASSUME Sound, ~ strayed' PROVE OnPath(p)
    OBVIOUS
  <2>1. \A i \in Inums : copy'[i] = copy[i] \/ copy'[i] = NotRead \/ i = ftable[call[p].f].ip
    BY <1>1, <1>7, <1>8 DEF Typed, TableTyped
  <2>2. Gets(p) BY <1>2, <1>9, NoneIs DEF Gets, Holds
  <2>3. Comes(p) BY <1>2, <1>9 DEF Comes, Reached
  <2>4. Rereads(p) BY <1>5, <2>1 DEF Rereads
  <2>5. Parents(p) BY <1>2, <1>7 DEF Parents
  <2> QED BY <2>2, <2>3, <2>4, <2>5 DEF OnPath
<1>22. ASSUME NEW k \in Inums PROVE ref'[k] + Mine(p, k) = ref[k] + Mine(p, k)'
  <2>1. ref'[k] = ref[k] /\ ref[k] \in Int BY <1>1, <1>7 DEF Typed, TableTyped
  <2>2. Mine(p, k) = Is(cwd[p], k) BY <1>2, <1>3, IsAre, PutsAre DEF Mine, CwdOf, IpOf
  <2>6. pc'[p] = "end" /\ cwd'[p] = cwd[p] /\ cur'[p] = None /\ ip'[p] = None /\ dp'[p] = None
          /\ puts'[p] = <<>>
    BY <1>2, <1>9
  <2>3. Mine(p, k)' = Is(cwd[p], k) BY <2>6, IsAre, PutsAre DEF Mine, CwdOf, IpOf
  <2>4. \A x : Is(x, k) \in Int BY IsAre
  <2> QED BY <2>1, <2>2, <2>3
<1>23. FilesTyped' /\ active' \subseteq Procs BY <1>1, <1>7 DEF Typed, FilesTyped, DiskTyped
<1> QED BY <1>7, <1>10, <1>11, <1>12, <1>13, <1>14, <1>15, <1>16, <1>17, <1>18, <1>19, <1>20,
  <1>21, <1>22, <1>23, QuietStep

\* end_op().
LEMMA EndOpGood ==
  ASSUME Good, NEW p \in Procs, EndOp(p)
  PROVE  Good'
<1>1. Typed /\ Shape(p) /\ Locks /\ Coherent /\ RefsOK /\ FilesOK /\ OwnLocks(p) /\ Shaped
        /\ UnlinkOK
  BY DEF Good, Core, Shaped, Locks, OwnLocks
<1>2. /\ pc[p] = "end" /\ puts[p] = <<>> /\ put[p] = "no" /\ cur[p] = None /\ dp[p] = None
      /\ ip[p] = None /\ p \in active /\ cwd[p] \in Inums
  BY <1>1 DEF EndOp, Typed, ProcsTyped, At, Goto, Iputs, DropDp, Iget, Reads, Ilock, table,
    files, walk, locals, bounds, D!Begin, D!End, Shape, WithCur, WithDp, WithIp, NoPuts, Typed,
    ProcsTyped, FilesTyped
<1>3. UNCHANGED <<durable, disk, ref, copy, lock, ftable, ofile, cwd, cur, ip, dp, puts, put,
        strayed>>
  BY DEF EndOp, Typed, ProcsTyped, At, Goto, Iputs, DropDp, Iget, Reads, Ilock, table, files,
    walk, locals, bounds, D!Begin, D!End
<1>4. \/ /\ call[p].op = "write" /\ active' = active \ {p}
         /\ pc' = [pc EXCEPT ![p] = "writing"] /\ call' = call
         /\ rest' = [rest EXCEPT ![p] = <<>>]
      \/ /\ active' = active \ {p} /\ pc' = [pc EXCEPT ![p] = "user"]
         /\ call' = [call EXCEPT ![p] = NoCall] /\ rest' = [rest EXCEPT ![p] = <<>>]
  BY <1>1, <1>2, Zenon DEF EndOp, Typed, ProcsTyped, At, Goto, Iputs, DropDp, Iget, Reads,
    Ilock, table, files, walk, locals, bounds, D!Begin, D!End
<1>5. CASE /\ call[p].op = "write" /\ active' = active \ {p}
             /\ pc' = [pc EXCEPT ![p] = "writing"] /\ call' = call
             /\ rest' = [rest EXCEPT ![p] = <<>>]
  <2>1. /\ pc'[p] = "writing" /\ cur'[p] = cur[p] /\ ip'[p] = ip[p] /\ dp'[p] = dp[p]
        /\ puts'[p] = puts[p] /\ put'[p] = put[p] /\ rest'[p] = <<>> /\ call'[p] = call[p]
        /\ cwd'[p] = cwd[p] /\ call[p].op = "write"
    BY <1>1, <1>3, <1>5 DEF Typed, ProcsTyped, FilesTyped
  <2>2. Others(p) BY <1>1, <1>2, <1>3, <1>5 DEF Typed, ProcsTyped, FilesTyped, Others
  <2>3. ProcsTyped' BY <1>1, <1>2, <1>3, <1>5, <2>1, SeqsAre DEF Typed, ProcsTyped, Labels
  <2>4. Counters' BY <1>1, <1>2, <1>3, <1>5 DEF Counters, Typed, TableTyped
  <2>5. Kept
    <3>1. /\ disk' = disk /\ copy' = copy BY <1>1, <1>2, <1>3, <1>5
    <3>2. Typed BY <1>1
    <3> QED BY <3>1, <3>2, SameKeeps
  <2>6. Shape(p)'
    BY <1>2, <1>3, <2>1, <1>5, SeqsAre, NoneIs DEF Shape, WithCur, WithDp, WithIp, NoPuts,
      Creates
  <2>7. LocksStep(p) BY <1>3, <1>5 DEF LocksStep
  <2>8. OwnLocks(p)'
    BY <1>1, <1>2, <1>3, <1>5, <2>1, ProcsAssumption, SeqsAre DEF Typed, TableTyped, OwnLocks,
      HoldsLock, Freeing, LocksIp, LocksDp
  <2>9. (\A i \in Inums : Apart(p, i)') /\ SameBusy(p)
    BY <1>1, <1>2, <1>3, <1>5, <2>1, SeqsAre DEF Apart, SameBusy, Freeing, Truncates
  <2>10. UnlinksOwn(p)' /\ PendsLess(p)
    BY <1>1, <1>2, <1>3, <1>5, <2>1, NoneIs DEF UnlinksOwn, PendsLess, Pends
  <2>11. strayed => strayed' BY <1>3, <1>5
  <2>12. SameFiles(p) BY <1>1, <1>2, <1>3, <1>5, <2>1 DEF SameFiles
  <2>13. Sound => strayed' \/ OnPath(p)
    <3> SUFFICES ASSUME Sound, ~ strayed' PROVE OnPath(p)
      OBVIOUS
    <3>1. \A i \in Inums : copy'[i] = copy[i] \/ copy'[i] = NotRead \/ i = cur[p]
      BY <1>1, <1>2, <1>3, <1>5, IgetIs DEF Typed, TableTyped
    <3>2. Gets(p) BY <1>2, <1>3, <2>1, PutsAre, NoneIs DEF Gets, Holds
    <3>3. Comes(p) BY <1>2, <1>3, <2>1 DEF Comes, Reached
    <3>4. Rereads(p) BY <1>2, <3>1 DEF Rereads, Holds
    <3>5. Parents(p) BY <1>2, <1>3, <2>1, <1>1, InodeIs DEF Parents, Sound, Reaching, LinkedFile
    <3> QED BY <3>2, <3>3, <3>4, <3>5 DEF OnPath
  <2>14. ASSUME NEW k \in Inums PROVE ref'[k] + Mine(p, k) = ref[k] + Mine(p, k)'
    <3>1. ref'[k] = ref[k] /\ ref[k] \in Int BY <1>1, <1>2, <1>3, <1>5 DEF Is, Typed, TableTyped
    <3>2. Mine(p, k) = Is(cwd[p], k) BY <1>1, <1>2, IsAre, PutsAre DEF Mine, CwdOf, IpOf
    <3>3. Mine(p, k)' = Is(cwd[p], k) BY <1>2, <1>3, <2>1, IsAre, PutsAre DEF Mine, CwdOf, IpOf
    <3>4. \A x : Is(x, k) \in Int BY IsAre
    <3> QED BY <3>1, <3>2, <3>3, <3>4
  <2>15. FilesTyped' /\ active' \subseteq Procs
    BY <1>1, <1>2, <1>3, <1>5 DEF Typed, FilesTyped, DiskTyped
  <2> QED BY <1>3, <1>5, <2>2, <2>3, <2>4, <2>5, <2>6, <2>7, <2>8, <2>9, <2>10, <2>11, <2>12,
    <2>13, <2>14, <2>15, QuietStep
<1>6. CASE /\ active' = active \ {p} /\ pc' = [pc EXCEPT ![p] = "user"]
             /\ call' = [call EXCEPT ![p] = NoCall] /\ rest' = [rest EXCEPT ![p] = <<>>]
  <2>1. /\ pc'[p] = "user" /\ cur'[p] = cur[p] /\ ip'[p] = ip[p] /\ dp'[p] = dp[p]
        /\ puts'[p] = puts[p] /\ put'[p] = put[p] /\ rest'[p] = <<>> /\ call'[p] = NoCall
        /\ cwd'[p] = cwd[p]
    BY <1>1, <1>3, <1>6 DEF Typed, ProcsTyped, FilesTyped
  <2>2. Others(p) BY <1>1, <1>2, <1>3, <1>6 DEF Typed, ProcsTyped, FilesTyped, Others
  <2>3. ProcsTyped'
    <3>1. call' = [q \in Procs |-> call'[q]] /\ \A q \in Procs : IsCall(call'[q])
      BY <1>1, <1>6, NoCallIs DEF Typed, ProcsTyped
    <3>2. pc' \in [Procs -> Labels] /\ rest' \in [Procs -> Seq(STRING)]
      BY <1>1, <1>6 DEF Typed, ProcsTyped, Labels
    <3> QED BY <1>1, <1>3, <1>6, <3>1, <3>2 DEF Typed, ProcsTyped
  <2>4. Counters' BY <1>1, <1>2, <1>3, <1>6 DEF Counters, Typed, TableTyped
  <2>5. Kept
    <3>1. /\ disk' = disk /\ copy' = copy BY <1>1, <1>2, <1>3, <1>6
    <3>2. Typed BY <1>1
    <3> QED BY <3>1, <3>2, SameKeeps
  <2>6. Shape(p)'
    BY <1>2, <1>3, <2>1, <1>6, SeqsAre, NoneIs, NoCallIs DEF Shape, WithCur, WithDp, WithIp,
      NoPuts, Creates
  <2>7. LocksStep(p) BY <1>3, <1>6 DEF LocksStep
  <2>8. OwnLocks(p)'
    BY <1>1, <1>2, <1>3, <1>6, <2>1, ProcsAssumption, SeqsAre DEF Typed, TableTyped, OwnLocks,
      HoldsLock, Freeing, LocksIp, LocksDp
  <2>9. (\A i \in Inums : Apart(p, i)') /\ SameBusy(p)
    BY <1>1, <1>2, <1>3, <1>6, <2>1, SeqsAre DEF Apart, SameBusy, Freeing, Truncates
  <2>10. UnlinksOwn(p)' /\ PendsLess(p)
    BY <1>1, <1>2, <1>3, <1>6, <2>1, NoneIs DEF UnlinksOwn, PendsLess, Pends
  <2>11. strayed => strayed' BY <1>3, <1>6
  <2>12. SameFiles(p) BY <1>1, <1>2, <1>3, <1>6, <2>1, NoCallIs DEF SameFiles
  <2>13. Sound => strayed' \/ OnPath(p)
    <3> SUFFICES ASSUME Sound, ~ strayed' PROVE OnPath(p)
      OBVIOUS
    <3>1. \A i \in Inums : copy'[i] = copy[i] \/ copy'[i] = NotRead \/ i = cur[p]
      BY <1>1, <1>2, <1>3, <1>6, IgetIs DEF Typed, TableTyped
    <3>2. Gets(p) BY <1>2, <1>3, <2>1, PutsAre, NoneIs DEF Gets, Holds
    <3>3. Comes(p) BY <1>2, <1>3, <2>1 DEF Comes, Reached
    <3>4. Rereads(p) BY <1>2, <3>1 DEF Rereads, Holds
    <3>5. Parents(p) BY <1>2, <1>3, <2>1, <1>1, InodeIs DEF Parents, Sound, Reaching, LinkedFile
    <3> QED BY <3>2, <3>3, <3>4, <3>5 DEF OnPath
  <2>14. ASSUME NEW k \in Inums PROVE ref'[k] + Mine(p, k) = ref[k] + Mine(p, k)'
    <3>1. ref'[k] = ref[k] /\ ref[k] \in Int BY <1>1, <1>2, <1>3, <1>6 DEF Is, Typed, TableTyped
    <3>2. Mine(p, k) = Is(cwd[p], k) BY <1>1, <1>2, IsAre, PutsAre DEF Mine, CwdOf, IpOf
    <3>3. Mine(p, k)' = Is(cwd[p], k) BY <1>2, <1>3, <2>1, IsAre, PutsAre DEF Mine, CwdOf, IpOf
    <3>4. \A x : Is(x, k) \in Int BY IsAre
    <3> QED BY <3>1, <3>2, <3>3, <3>4
  <2>15. FilesTyped' /\ active' \subseteq Procs
    BY <1>1, <1>2, <1>3, <1>6 DEF Typed, FilesTyped, DiskTyped
  <2> QED BY <1>3, <1>6, <2>2, <2>3, <2>4, <2>5, <2>6, <2>7, <2>8, <2>9, <2>10, <2>11, <2>12,
    <2>13, <2>14, <2>15, QuietStep
<1> QED BY <1>4, <1>5, <1>6

\* iput() drops a reference.
LEMMA IputDropGood ==
  ASSUME Good, NEW p \in Procs, IputDrop(p)
  PROVE  Good'
<1>1. Typed /\ Shape(p) /\ Locks /\ Coherent /\ RefsOK /\ FilesOK /\ OwnLocks(p) /\ Shaped
        /\ UnlinkOK
  BY DEF Good, Core, Shaped, Locks, OwnLocks
<1>2. /\ puts[p] # <<>> /\ puts[p] \in Seq(Inums) /\ Len(puts[p]) <= 2
      /\ put[p] \in {"no", "freed"} /\ pc[p] \notin NoPuts
  BY <1>1 DEF IputDrop, Putting, At, Goto, Iputs, DropDp, Iget, Reads, Ilock, table, files,
    walk, locals, bounds, D!Begin, D!End, Shape, WithCur, WithDp, WithIp, NoPuts, Typed,
    ProcsTyped, FilesTyped
<1>3. /\ Put1(puts[p]) = Head(puts[p]) /\ Head(puts[p]) \in Inums /\ Tail(puts[p]) \in Seq(Inums)
      /\ Len(Tail(puts[p])) <= 1 /\ Put1(Tail(puts[p])) = Put2(puts[p])
      /\ Put2(Tail(puts[p])) = None
  BY <1>2, PutsAre
<1>4. UNCHANGED <<durable, disk, active, copy, lock, ftable, ofile, cwd, pc, call, cur, rest,
        ip, dp, strayed>>
  BY DEF IputDrop, Putting, At, Goto, Iputs, DropDp, Iget, Reads, Ilock, table, files, walk,
    locals, bounds, D!Begin, D!End
<1>5. /\ ref' = [ref EXCEPT ![Head(puts[p])] = @ - 1]
      /\ puts' = [puts EXCEPT ![p] = Tail(puts[p])] /\ put' = [put EXCEPT ![p] = "no"]
  BY <1>1, <1>2, <1>3 DEF IputDrop, Putting, At, Goto, Iputs, DropDp, Iget, Reads, Ilock, table,
    files, walk, locals, bounds, D!Begin, D!End
<1>6. /\ pc'[p] = pc[p] /\ cur'[p] = cur[p] /\ ip'[p] = ip[p] /\ dp'[p] = dp[p]
      /\ puts'[p] = Tail(puts[p]) /\ put'[p] = "no" /\ rest'[p] = rest[p]
      /\ call'[p] = call[p] /\ cwd'[p] = cwd[p]
  BY <1>1, <1>4, <1>5 DEF Typed, ProcsTyped, FilesTyped
<1>7. Others(p) BY <1>1, <1>2, <1>4, <1>5 DEF Typed, ProcsTyped, FilesTyped, Others
<1>8. ProcsTyped' BY <1>1, <1>2, <1>3, <1>4, <1>5, <1>6, SeqsAre DEF Typed, ProcsTyped, Labels
<1>9. Counters' BY <1>1, <1>2, <1>3, <1>4, <1>5 DEF Counters, Typed, TableTyped
<1>10. Kept
  <2>1. /\ disk' = disk /\ copy' = copy BY <1>1, <1>2, <1>3, <1>4, <1>5
  <2>2. Typed BY <1>1
  <2> QED BY <2>1, <2>2, SameKeeps
<1>11. Shape(p)'
  BY <1>2, <1>3, <1>4, <1>6, <1>1, SeqsAre, NoneIs DEF Shape, WithCur, WithDp, WithIp, NoPuts,
    Creates
<1>12. LocksStep(p) BY <1>4, <1>5 DEF LocksStep
<1>13. OwnLocks(p)'
  BY <1>1, <1>2, <1>3, <1>4, <1>5, <1>6, ProcsAssumption, SeqsAre DEF Typed, TableTyped,
    OwnLocks, HoldsLock, Freeing, LocksIp, LocksDp
<1>14. (\A i \in Inums : Apart(p, i)') /\ SameBusy(p)
  BY <1>1, <1>2, <1>3, <1>4, <1>5, <1>6, SeqsAre DEF Apart, SameBusy, Freeing, Truncates
<1>15. UnlinksOwn(p)' /\ PendsLess(p)
  BY <1>1, <1>2, <1>3, <1>4, <1>5, <1>6, NoneIs DEF UnlinksOwn, PendsLess, Pends, NoPuts
<1>16. strayed => strayed' BY <1>4, <1>5
<1>17. SameFiles(p) BY <1>1, <1>2, <1>3, <1>4, <1>5, <1>6 DEF SameFiles
<1>18. Sound => strayed' \/ OnPath(p)
  <2> SUFFICES ASSUME Sound, ~ strayed' PROVE OnPath(p)
    OBVIOUS
  <2>1. dp[p] \in Inums \cup {None} /\ ip[p] \in Inums \cup {None} BY <1>1 DEF Typed, ProcsTyped
  <2>2. \A i \in Inums : copy'[i] = copy[i] \/ copy'[i] = NotRead \/ i = cur[p]
    BY <1>1, <1>2, <1>3, <1>4, <1>5, IgetIs DEF Typed, TableTyped
  <2>3. Gets(p) BY <1>2, <1>3, <1>4, <1>6, <2>1, PutsAre, NoneIs DEF Gets, Holds
  <2>4. Comes(p) BY <1>2, <1>3, <1>4, <1>6, <2>1 DEF Comes, Reached
  <2>5. Rereads(p) BY <1>2, <1>3, <2>1, <2>2 DEF Rereads, Holds
  <2>6. Parents(p)
    BY <1>2, <1>3, <1>4, <1>6, <2>1, <1>1, InodeIs DEF Parents, Sound, Reaching, LinkedFile
  <2> QED BY <2>3, <2>4, <2>5, <2>6 DEF OnPath
<1>19. ASSUME NEW k \in Inums PROVE ref'[k] + Mine(p, k) = ref[k] + Mine(p, k)'
  <2>1. ref'[k] = ref[k] - Is(Head(puts[p]), k) /\ ref[k] \in Int
    BY <1>1, <1>2, <1>3, <1>4, <1>5 DEF Is, Typed, TableTyped
  <2>2. Mine(p, k) = Is(CwdOf(p), k) + Is(cur[p], k) + Is(IpOf(p), k) + Is(dp[p],
          k) + Is(Head(puts[p]), k) + Is(Put2(puts[p]), k)
    BY <1>1, <1>2, <1>3, IsAre, PutsAre DEF Mine, CwdOf, IpOf
  <2>3. Mine(p, k)' = Is(CwdOf(p), k) + Is(cur[p], k) + Is(IpOf(p), k) + Is(dp[p],
          k) + Is(Put2(puts[p]), k)
    BY <1>2, <1>3, <1>4, <1>6, IsAre, PutsAre DEF Mine, CwdOf, IpOf
  <2>4. \A x : Is(x, k) \in Int BY IsAre
  <2> QED BY <2>1, <2>2, <2>3, <2>4
<1>20. FilesTyped' /\ active' \subseteq Procs
  BY <1>1, <1>4, <1>5 DEF Typed, FilesTyped, DiskTyped
<1> QED BY <1>4, <1>5, <1>7, <1>8, <1>9, <1>10, <1>11, <1>12, <1>13, <1>14, <1>15, <1>16, <1>17,
  <1>18, <1>19, <1>20, QuietStep

=============================================================================
