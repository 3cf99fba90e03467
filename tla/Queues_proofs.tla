---------------------------- MODULE Queues_proofs ----------------------------
(***************************************************************************)
(* Proofs about queues: the ring of code3.c (ProdConsCV), which producers  *)
(* and consumers share under a mutex and a condition variable, the pipe of *)
(* xv6 (XvPipe), and the queues of the two schedulers (MlfqNaive, Mlfq).   *)
(***************************************************************************)
EXTENDS ProdConsCV, XvPipe, MlfqNaive, Mlfq, RingLemmas,
        SequenceTheorems, FiniteSetTheorems, WellFoundedInduction, TLAPS

-----
\* ProdConsCV, for every set of threads, every ring and every production
\* limit main() accepts.

\* increment() steps to the next cell and from the last cell back to the first.
LEMMA WrapStep ==
  ASSUME NEW x \in Slots
  PROVE  Increment(x) = IF x + 1 < BufferSize THEN x + 1 ELSE 0
BY SizeAssumption DEF Increment, Slots

-----
\* The inductive invariant.
Critical == {"check", "put", "take", "signal", "unlock", "flagLocked"}

\* Holding the mutex is being in a critical section.
Holds == \A h \in Threads \cup {Main} : line[h] \in Critical <=> mutex = h

\* The wait set of not_empty is the set of threads inside pthread_cond_wait.
Blocked == \A h \in Threads \cup {Main} : line[h] = "blocked" <=> h \in notEmpty

\* What a thread found out under the mutex still holds when it acts on it.
Checked ==
  \A p \in Producers :
    /\ line[p] \in {"check", "put"} => iter[p] \in 1..ProductionLimit
    /\ line[p] = "put" => counter < BufferSize

\* The next cell to be written follows the last occupied one.
TailCell == in_idx = IF out_idx + counter < BufferSize
                       THEN out_idx + counter ELSE out_idx + counter - BufferSize

\* FifoNoLoss, item by item.
Lines ==
  /\ Len(produced) = Len(consumed) + counter
  /\ \A k \in 1..Len(consumed) : consumed[k] = produced[k]
  /\ \A k \in 0..(counter - 1) : buffer[Cell(k)] = produced[Len(consumed) + k + 1]

CVInv == CVTypeOK /\ Holds /\ Blocked /\ Checked /\ TailCell /\ Lines

LEMMA InitCVInv == CVInit => CVInv
<1> SUFFICES ASSUME CVInit PROVE CVInv
  OBVIOUS
<1>1. CVTypeOK
  <2>1. line \in [Threads \cup {Main} -> Labels] BY DEF CVInit, Labels
  <2>2. iter \in [Threads -> Nat \ {0}] /\ mutex \in Threads \cup {Main, Free} BY DEF CVInit
  <2>3. notEmpty \subseteq Consumers /\ buffer \in [Slots -> Items \cup {NoItem}] BY DEF CVInit
  <2>4. in_idx \in Slots /\ out_idx \in Slots /\ counter \in 0..BufferSize /\ no_more_items \in BOOLEAN
    BY SizeAssumption DEF CVInit, Slots
  <2>5. produced \in Seq(Items) /\ consumed \in Seq(Items) BY DEF CVInit
  <2> QED BY <2>1, <2>2, <2>3, <2>4, <2>5 DEF CVTypeOK
<1>2. Holds /\ Blocked /\ Checked
  <2>1. Holds BY ThreadsAssumption DEF CVInit, Holds, Critical, Threads
  <2>2. Blocked BY ThreadsAssumption DEF CVInit, Blocked, Threads
  <2>3. Checked BY ThreadsAssumption DEF CVInit, Checked, Threads
  <2> QED BY <2>1, <2>2, <2>3
<1>3. TailCell /\ Lines BY SizeAssumption DEF CVInit, TailCell, Lines
<1> QED BY <1>1, <1>2, <1>3 DEF CVInv

\* put() with room in the ring keeps the ring and the output in step.
LEMMA PutKeepsLines ==
  ASSUME CVTypeOK, TailCell, Lines, counter < BufferSize,
         NEW item \in Items, Put(item)
  PROVE  /\ TailCell' /\ Lines'
         /\ buffer' \in [Slots -> Items \cup {NoItem}]
         /\ in_idx' \in Slots /\ counter' \in 0..BufferSize
         /\ produced' \in Seq(Items)
<1>1. in_idx' = IF in_idx + 1 < BufferSize THEN in_idx + 1 ELSE 0 BY WrapStep DEF Put, CVTypeOK
<1>2. TailCell'
  <2>1. counter' = counter + 1 /\ out_idx' = out_idx BY DEF Put
  <2>2. BufferSize \in Nat /\ {in_idx, out_idx} \subseteq 0..(BufferSize - 1)
        /\ counter \in 0..BufferSize
    BY SizeAssumption DEF CVTypeOK, Slots
  <2> QED BY <1>1, <2>1, <2>2 DEF TailCell
<1>3. Lines'
  <2>1. produced' = Append(produced, item) /\ Len(produced') = Len(produced) + 1
    BY DEF Put, CVTypeOK
  <2>2. \A k \in 1..Len(produced) : produced'[k] = produced[k] BY DEF Put, CVTypeOK
  <2>3. produced'[Len(produced) + 1] = item BY DEF Put, CVTypeOK
  <2>4. \A k \in 0..(counter - 1) : Cell(k) \in Slots /\ Cell(k) # in_idx
    BY SizeAssumption DEF CVTypeOK, TailCell, Cell, Slots
  <2>5. Cell(counter) = in_idx BY DEF TailCell, Cell
  <2>6. \A k \in 0..(counter - 1) : buffer'[Cell(k)] = buffer[Cell(k)] BY <2>4 DEF Put, CVTypeOK
  <2>7. buffer'[in_idx] = item BY DEF Put, CVTypeOK
  <2>8. \A k \in 0..counter : Cell(k)' = Cell(k) BY DEF Put, Cell
  <2>9. Len(consumed') = Len(consumed) /\ consumed' = consumed /\ counter' = counter + 1
        /\ Len(consumed) \in Nat
    BY DEF Put, CVTypeOK
  <2>10. Len(produced') = Len(consumed') + counter' BY <2>1, <2>9 DEF Lines, CVTypeOK
  <2>11. \A k \in 1..Len(consumed') : consumed'[k] = produced'[k]
    BY <2>2, <2>9 DEF Lines, CVTypeOK
  <2>12. \A k \in 0..(counter' - 1) :
           buffer'[Cell(k)'] = produced'[Len(consumed') + k + 1]
    <3> SUFFICES ASSUME NEW k \in 0..counter
                 PROVE  buffer'[Cell(k)] = produced'[Len(consumed) + k + 1]
      BY <2>8, <2>9 DEF CVTypeOK
    <3>1. CASE k = counter BY <3>1, <2>3, <2>5, <2>7, <2>9 DEF Lines, CVTypeOK
    <3>2. CASE k \in 0..(counter - 1) BY <3>2, <2>2, <2>6, <2>9 DEF Lines, CVTypeOK
    <3> QED BY <3>1, <3>2 DEF CVTypeOK
  <2> QED BY <2>10, <2>11, <2>12 DEF Lines
<1>4. /\ buffer' \in [Slots -> Items \cup {NoItem}]
      /\ in_idx' \in Slots /\ counter' \in 0..BufferSize
      /\ produced' \in Seq(Items)
  BY <1>1, SizeAssumption DEF Put, CVTypeOK, Slots
<1> QED BY <1>2, <1>3, <1>4

\* get() on a ring that is not empty takes the oldest item out and prints it.
LEMMA GetKeepsLines ==
  ASSUME CVTypeOK, TailCell, Lines, counter > 0, Get
  PROVE  /\ TailCell' /\ Lines'
         /\ out_idx' \in Slots /\ counter' \in 0..BufferSize
         /\ consumed' \in Seq(Items)
<1>1. out_idx' = IF out_idx + 1 < BufferSize THEN out_idx + 1 ELSE 0
  BY WrapStep DEF Get, CVTypeOK
<1>2. TailCell'
  <2>1. counter' = counter - 1 /\ in_idx' = in_idx BY DEF Get
  <2>2. BufferSize \in Nat /\ {in_idx, out_idx} \subseteq 0..(BufferSize - 1)
        /\ counter \in 0..BufferSize
    BY SizeAssumption DEF CVTypeOK, Slots
  <2> QED BY <1>1, <2>1, <2>2 DEF TailCell
<1>3. Len(consumed) \in Nat /\ Len(produced) = Len(consumed) + counter BY DEF CVTypeOK, Lines
<1>4. buffer[out_idx] = produced[Len(consumed) + 1]
  <2>1. Cell(0) = out_idx BY SizeAssumption DEF Cell, CVTypeOK, Slots
  <2>2. buffer[Cell(0)] = produced[Len(consumed) + 0 + 1] BY DEF Lines, CVTypeOK
  <2> QED BY <2>1, <2>2, <1>3
<1>5. buffer[out_idx] \in Items BY <1>3, <1>4 DEF CVTypeOK
<1>6. consumed' \in Seq(Items) /\ consumed' = Append(consumed, buffer[out_idx])
      /\ Len(consumed') = Len(consumed) + 1
  BY <1>5 DEF Get, CVTypeOK
<1>7. Lines'
  <2>1. Len(produced') = Len(consumed') + counter' BY <1>3, <1>6 DEF Get, CVTypeOK
  <2>2. \A k \in 1..Len(consumed') : consumed'[k] = produced'[k]
    <3> SUFFICES ASSUME NEW k \in 1..(Len(consumed) + 1)
                 PROVE  consumed'[k] = produced[k]
      BY <1>6 DEF Get
    <3>1. CASE k = Len(consumed) + 1 BY <3>1, <1>4, <1>6, <1>3 DEF CVTypeOK
    <3>2. CASE k \in 1..Len(consumed) BY <3>2, <1>6, <1>5 DEF CVTypeOK, Lines
    <3> QED BY <3>1, <3>2, <1>3
  <2>3. \A k \in 0..(counter' - 1) :
           buffer'[Cell(k)'] = produced'[Len(consumed') + k + 1]
    <3> SUFFICES ASSUME NEW k \in 0..(counter - 2)
                 PROVE  buffer[Cell(k)'] = produced[Len(consumed) + k + 2]
      BY <1>3, <1>6 DEF Get, CVTypeOK
    <3>1. Cell(k)' = Cell(k + 1) BY <1>1, SizeAssumption DEF Cell, CVTypeOK, Slots
    <3>2. k + 1 \in 0..(counter - 1) BY DEF CVTypeOK
    <3>3. buffer[Cell(k + 1)] = produced[Len(consumed) + (k + 1) + 1] BY <3>2 DEF Lines
    <3> QED BY <3>1, <3>3, <1>3
  <2> QED BY <2>1, <2>2, <2>3 DEF Lines
<1>8. out_idx' \in Slots /\ counter' \in 0..BufferSize
  BY <1>1, SizeAssumption DEF Get, CVTypeOK, Slots
<1> QED BY <1>2, <1>6, <1>7, <1>8

\* Every step keeps the invariant; only put() and get() touch the ring.
LEMMA StepCVInv == CVInv /\ [CVNext]_cvVars => CVInv'
<1> SUFFICES ASSUME CVInv, [CVNext]_cvVars PROVE CVInv'
  OBVIOUS
<1> USE ThreadsAssumption DEF MoveTo, LockMutex, UnlockMutex, Threads
<1>0. CVTypeOK /\ Holds /\ Blocked /\ Checked /\ TailCell /\ Lines BY DEF CVInv
<1>k. ASSUME UNCHANGED ring, UNCHANGED stdout
      PROVE  TailCell' /\ Lines'
  BY <1>0, <1>k DEF ring, stdout, TailCell, Lines, Cell
<1>1. ASSUME NEW p \in Producers, ProducerLock(p) PROVE CVInv'
  <2>1. CVTypeOK' BY <1>0, <1>1 DEF ProducerLock, CVTypeOK, Labels, ring, stdout
  <2>2. Holds' /\ Blocked' BY <1>0, <1>1 DEF ProducerLock, CVTypeOK, Holds, Blocked, Critical
  <2>3. Checked' BY <1>0, <1>1 DEF ProducerLock, CVTypeOK, Checked, Blocked, ring
  <2>4. TailCell' /\ Lines' BY <1>k, <1>1 DEF ProducerLock
  <2> QED BY <2>1, <2>2, <2>3, <2>4 DEF CVInv
<1>2. ASSUME NEW p \in Producers, ProducerGiveUp(p) PROVE CVInv'
  <2>1. CVTypeOK' BY <1>0, <1>2 DEF ProducerGiveUp, CVTypeOK, Labels, ring, stdout
  <2>2. Holds' /\ Blocked' BY <1>0, <1>2 DEF ProducerGiveUp, CVTypeOK, Holds, Blocked, Critical
  <2>3. Checked' BY <1>0, <1>2 DEF ProducerGiveUp, CVTypeOK, Checked, Blocked, ring
  <2>4. TailCell' /\ Lines' BY <1>k, <1>2 DEF ProducerGiveUp
  <2> QED BY <2>1, <2>2, <2>3, <2>4 DEF CVInv
<1>3. ASSUME NEW p \in Producers, ProducerFindsRoom(p) PROVE CVInv'
  <2>1. CVTypeOK' BY <1>0, <1>3 DEF ProducerFindsRoom, CVTypeOK, Labels, ring, stdout
  <2>2. Holds' /\ Blocked'
    BY <1>0, <1>3 DEF ProducerFindsRoom, CVTypeOK, Holds, Blocked, Critical
  <2>3. Checked' BY <1>0, <1>3, SizeAssumption DEF ProducerFindsRoom, CVTypeOK, Checked, ring
  <2>4. TailCell' /\ Lines' BY <1>k, <1>3 DEF ProducerFindsRoom
  <2> QED BY <2>1, <2>2, <2>3, <2>4 DEF CVInv
<1>4. ASSUME NEW p \in Producers, ProducerPut(p) PROVE CVInv'
  <2>a. counter < BufferSize /\ <<p, iter[p]>> \in Items
    BY <1>0, <1>4 DEF ProducerPut, Checked, Items
  <2>b. /\ TailCell' /\ Lines'
        /\ buffer' \in [Slots -> Items \cup {NoItem}]
        /\ in_idx' \in Slots /\ counter' \in 0..BufferSize
        /\ produced' \in Seq(Items)
    BY <1>0, <1>4, <2>a, PutKeepsLines DEF ProducerPut
  <2>1. CVTypeOK' BY <1>0, <1>4, <2>b DEF ProducerPut, CVTypeOK, Labels, Put
  <2>2. Holds' /\ Blocked' BY <1>0, <1>4 DEF ProducerPut, CVTypeOK, Holds, Blocked, Critical
  <2>3. Checked' BY <1>0, <1>4 DEF ProducerPut, CVTypeOK, Checked, Holds, Critical, Put
  <2> QED BY <2>1, <2>2, <2>3, <2>b DEF CVInv
<1>5. ASSUME NEW p \in Producers, ProducerSignal(p) PROVE CVInv'
  <2>1. CVTypeOK' BY <1>0, <1>5 DEF ProducerSignal, Signal, CVTypeOK, Labels, ring, stdout
  <2>2. Holds' /\ Blocked'
    BY <1>0, <1>5 DEF ProducerSignal, Signal, CVTypeOK, Holds, Blocked, Critical
  <2>3. Checked' BY <1>0, <1>5 DEF ProducerSignal, Signal, CVTypeOK, Checked, Blocked, ring
  <2>4. TailCell' /\ Lines' BY <1>k, <1>5 DEF ProducerSignal
  <2> QED BY <2>1, <2>2, <2>3, <2>4 DEF CVInv
<1>6. ASSUME NEW p \in Producers, ProducerExit(p) PROVE CVInv'
  <2>1. CVTypeOK' BY <1>0, <1>6 DEF ProducerExit, CVTypeOK, Labels, ring, stdout
  <2>2. Holds' /\ Blocked' BY <1>0, <1>6 DEF ProducerExit, CVTypeOK, Holds, Blocked, Critical
  <2>3. Checked' BY <1>0, <1>6 DEF ProducerExit, CVTypeOK, Checked, Blocked, ring
  <2>4. TailCell' /\ Lines' BY <1>k, <1>6 DEF ProducerExit
  <2> QED BY <2>1, <2>2, <2>3, <2>4 DEF CVInv
<1>7. ASSUME NEW h \in Threads, ThreadUnlock(h) PROVE CVInv'
  <2>1. CVTypeOK' BY <1>0, <1>7 DEF ThreadUnlock, CVTypeOK, Labels, ring, stdout
  <2>2. Holds' /\ Blocked' BY <1>0, <1>7 DEF ThreadUnlock, CVTypeOK, Holds, Blocked, Critical
  <2>3. Checked' BY <1>0, <1>7 DEF ThreadUnlock, CVTypeOK, Checked, Blocked, ring
  <2>4. TailCell' /\ Lines' BY <1>k, <1>7 DEF ThreadUnlock
  <2> QED BY <2>1, <2>2, <2>3, <2>4 DEF CVInv
<1>8. ASSUME NEW c \in Consumers, ConsumerLock(c) PROVE CVInv'
  <2>1. CVTypeOK' BY <1>0, <1>8 DEF ConsumerLock, CVTypeOK, Labels, ring, stdout
  <2>2. Holds' /\ Blocked' BY <1>0, <1>8 DEF ConsumerLock, CVTypeOK, Holds, Blocked, Critical
  <2>3. Checked' BY <1>0, <1>8 DEF ConsumerLock, CVTypeOK, Checked, Blocked, ring
  <2>4. TailCell' /\ Lines' BY <1>k, <1>8 DEF ConsumerLock
  <2> QED BY <2>1, <2>2, <2>3, <2>4 DEF CVInv
<1>9. ASSUME NEW c \in Consumers, ConsumerWait(c) PROVE CVInv'
  <2>1. CVTypeOK' BY <1>0, <1>9 DEF ConsumerWait, CVTypeOK, Labels, ring, stdout
  <2>2. Holds' /\ Blocked' BY <1>0, <1>9 DEF ConsumerWait, CVTypeOK, Holds, Blocked, Critical
  <2>3. Checked' BY <1>0, <1>9 DEF ConsumerWait, CVTypeOK, Checked, Blocked, ring
  <2>4. TailCell' /\ Lines' BY <1>k, <1>9 DEF ConsumerWait
  <2> QED BY <2>1, <2>2, <2>3, <2>4 DEF CVInv
<1>10. ASSUME NEW c \in Consumers, ConsumerRelock(c) PROVE CVInv'
  <2>1. CVTypeOK' BY <1>0, <1>10 DEF ConsumerRelock, CVTypeOK, Labels, ring, stdout
  <2>2. Holds' /\ Blocked' BY <1>0, <1>10 DEF ConsumerRelock, CVTypeOK, Holds, Blocked, Critical
  <2>3. Checked' BY <1>0, <1>10 DEF ConsumerRelock, CVTypeOK, Checked, Blocked, ring
  <2>4. TailCell' /\ Lines' BY <1>k, <1>10 DEF ConsumerRelock
  <2> QED BY <2>1, <2>2, <2>3, <2>4 DEF CVInv
<1>11. ASSUME NEW c \in Consumers, ConsumerLeavesWait(c) PROVE CVInv'
  <2>1. CVTypeOK' BY <1>0, <1>11 DEF ConsumerLeavesWait, CVTypeOK, Labels, ring, stdout
  <2>2. Holds' /\ Blocked'
    BY <1>0, <1>11 DEF ConsumerLeavesWait, CVTypeOK, Holds, Blocked, Critical
  <2>3. Checked' BY <1>0, <1>11 DEF ConsumerLeavesWait, CVTypeOK, Checked, Blocked, ring
  <2>4. TailCell' /\ Lines' BY <1>k, <1>11 DEF ConsumerLeavesWait
  <2> QED BY <2>1, <2>2, <2>3, <2>4 DEF CVInv
<1>12. ASSUME NEW c \in Consumers, ConsumerGet(c) PROVE CVInv'
  <2>b. /\ TailCell' /\ Lines'
        /\ out_idx' \in Slots /\ counter' \in 0..BufferSize
        /\ consumed' \in Seq(Items)
    BY <1>0, <1>12, GetKeepsLines DEF ConsumerGet
  <2>1. CVTypeOK' BY <1>0, <1>12, <2>b DEF ConsumerGet, CVTypeOK, Labels, Get
  <2>2. Holds' /\ Blocked' BY <1>0, <1>12 DEF ConsumerGet, CVTypeOK, Holds, Blocked, Critical
  <2>3. Checked' BY <1>0, <1>12 DEF ConsumerGet, CVTypeOK, Checked, Holds, Critical, Get
  <2> QED BY <2>1, <2>2, <2>3, <2>b DEF CVInv
<1>13. ASSUME NEW c \in Consumers, ConsumerSkip(c) PROVE CVInv'
  <2>1. CVTypeOK' BY <1>0, <1>13 DEF ConsumerSkip, CVTypeOK, Labels, ring, stdout
  <2>2. Holds' /\ Blocked' BY <1>0, <1>13 DEF ConsumerSkip, CVTypeOK, Holds, Blocked, Critical
  <2>3. Checked' BY <1>0, <1>13 DEF ConsumerSkip, CVTypeOK, Checked, Blocked, ring
  <2>4. TailCell' /\ Lines' BY <1>k, <1>13 DEF ConsumerSkip
  <2> QED BY <2>1, <2>2, <2>3, <2>4 DEF CVInv
<1>14. ASSUME NEW c \in Consumers, ConsumerExit(c) PROVE CVInv'
  <2>1. CVTypeOK' BY <1>0, <1>14 DEF ConsumerExit, CVTypeOK, Labels, ring, stdout
  <2>2. Holds' /\ Blocked' BY <1>0, <1>14 DEF ConsumerExit, CVTypeOK, Holds, Blocked, Critical
  <2>3. Checked' BY <1>0, <1>14 DEF ConsumerExit, CVTypeOK, Checked, Blocked, ring
  <2>4. TailCell' /\ Lines' BY <1>k, <1>14 DEF ConsumerExit
  <2> QED BY <2>1, <2>2, <2>3, <2>4 DEF CVInv
<1>15. ASSUME NEW c \in Consumers, SpuriousWakeup(c) PROVE CVInv'
  <2>1. CVTypeOK' BY <1>0, <1>15 DEF SpuriousWakeup, CVTypeOK, Labels, ring, stdout
  <2>2. Holds' /\ Blocked' BY <1>0, <1>15 DEF SpuriousWakeup, CVTypeOK, Holds, Blocked, Critical
  <2>3. Checked' BY <1>0, <1>15 DEF SpuriousWakeup, CVTypeOK, Checked, Blocked, ring
  <2>4. TailCell' /\ Lines' BY <1>k, <1>15 DEF SpuriousWakeup
  <2> QED BY <2>1, <2>2, <2>3, <2>4 DEF CVInv
<1>16. ASSUME NEW h \in Threads, MainCreate(h) PROVE CVInv'
  <2>1. CVTypeOK' BY <1>0, <1>16 DEF MainCreate, CVTypeOK, Labels, ring, stdout
  <2>2. Holds' /\ Blocked' BY <1>0, <1>16 DEF MainCreate, CVTypeOK, Holds, Blocked, Critical
  <2>3. Checked' BY <1>0, <1>16 DEF MainCreate, CVTypeOK, Checked, Blocked, ring
  <2>4. TailCell' /\ Lines' BY <1>k, <1>16 DEF MainCreate
  <2> QED BY <2>1, <2>2, <2>3, <2>4 DEF CVInv
<1>17. ASSUME MainJoinProducers PROVE CVInv'
  <2>1. CVTypeOK' BY <1>0, <1>17 DEF MainJoinProducers, CVTypeOK, Labels, ring, stdout
  <2>2. Holds' /\ Blocked'
    BY <1>0, <1>17 DEF MainJoinProducers, CVTypeOK, Holds, Blocked, Critical
  <2>3. Checked' BY <1>0, <1>17 DEF MainJoinProducers, CVTypeOK, Checked, Blocked, ring
  <2>4. TailCell' /\ Lines' BY <1>k, <1>17 DEF MainJoinProducers
  <2> QED BY <2>1, <2>2, <2>3, <2>4 DEF CVInv
<1>18. ASSUME MainLock PROVE CVInv'
  <2>1. CVTypeOK' BY <1>0, <1>18 DEF MainLock, CVTypeOK, Labels, ring, stdout
  <2>2. Holds' /\ Blocked' BY <1>0, <1>18 DEF MainLock, CVTypeOK, Holds, Blocked, Critical
  <2>3. Checked' BY <1>0, <1>18 DEF MainLock, CVTypeOK, Checked, Blocked, ring
  <2>4. TailCell' /\ Lines' BY <1>k, <1>18 DEF MainLock
  <2> QED BY <2>1, <2>2, <2>3, <2>4 DEF CVInv
<1>19. ASSUME MainSetFlag PROVE CVInv'
  <2>1. CVTypeOK' BY <1>0, <1>19 DEF MainSetFlag, CVTypeOK, Labels, ring, stdout
  <2>2. Holds' /\ Blocked' BY <1>0, <1>19 DEF MainSetFlag, CVTypeOK, Holds, Blocked, Critical
  <2>3. Checked' BY <1>0, <1>19 DEF MainSetFlag, CVTypeOK, Checked, Blocked, ring
  <2>4. TailCell' /\ Lines' BY <1>k, <1>19 DEF MainSetFlag
  <2> QED BY <2>1, <2>2, <2>3, <2>4 DEF CVInv
<1>20. ASSUME MainOver PROVE CVInv'
  <2>1. CVTypeOK' BY <1>0, <1>20 DEF MainOver, CVTypeOK, Labels, ring, stdout
  <2>2. Holds' /\ Blocked' BY <1>0, <1>20 DEF MainOver, CVTypeOK, Holds, Blocked, Critical
  <2>3. Checked' BY <1>0, <1>20 DEF MainOver, CVTypeOK, Checked, Blocked, ring
  <2>4. TailCell' /\ Lines' BY <1>k, <1>20 DEF MainOver
  <2> QED BY <2>1, <2>2, <2>3, <2>4 DEF CVInv
<1>21. CASE UNCHANGED cvVars
  <2>1. CVTypeOK' /\ Holds' /\ Blocked' /\ Checked'
    BY <1>0, <1>21 DEF cvVars, ring, stdout, CVTypeOK, Holds, Blocked, Checked
  <2>2. TailCell' /\ Lines' BY <1>k, <1>21 DEF cvVars
  <2> QED BY <2>1, <2>2 DEF CVInv
<1> QED
  BY <1>1, <1>2, <1>3, <1>4, <1>5, <1>6, <1>7, <1>8, <1>9, <1>10, <1>11, <1>12, <1>13, <1>14,
    <1>15, <1>16, <1>17, <1>18, <1>19, <1>20, <1>21 DEF CVNext, Producer, Consumer, MainThread,
    Ended

LEMMA Invariant == CVSpec => []CVInv
BY InitCVInv, StepCVInv, PTL DEF CVSpec

-----
\* A sequence that starts with s and goes on with t is their concatenation.
LEMMA ConcatPointwise ==
  ASSUME NEW S, NEW s \in Seq(S), NEW h \in Seq(S), NEW u \in Seq(S),
         Len(u) = Len(s) + Len(h),
         \A k \in 1..Len(s) : s[k] = u[k],
         \A k \in 1..Len(h) : h[k] = u[Len(s) + k]
  PROVE  u = s \o h
<1>1. Len(s) \in Nat /\ Len(h) \in Nat /\ Len(u) \in Nat BY LenProperties
<1>2. s \o h \in Seq(S) /\ Len(s \o h) = Len(u) BY ConcatProperties
<1>3. \A k \in 1..Len(u) : u[k] = (s \o h)[k]
  <2> SUFFICES ASSUME NEW k \in 1..Len(u) PROVE u[k] = (s \o h)[k]
    OBVIOUS
  <2>1. (s \o h)[k] = IF k <= Len(s) THEN s[k] ELSE h[k - Len(s)] BY ConcatProperties, <1>2
  <2>2. CASE k <= Len(s) BY <2>1, <2>2, <1>1
  <2>3. CASE k > Len(s)
    <3>1. k - Len(s) \in 1..Len(h) BY <2>3, <1>1
    <3>2. h[k - Len(s)] = u[Len(s) + (k - Len(s))] BY <3>1
    <3> QED BY <2>1, <2>3, <3>2, <1>1
  <2> QED BY <2>2, <2>3, <1>1
<1> QED BY <1>2, <1>3, SeqEqual

\* code3.c never leaves the ring: the indices, the counter and every printed
\* item stay in range for every number of threads.
THEOREM CVTypeCorrect == CVSpec => []CVTypeOK
BY Invariant, PTL DEF CVInv

\* The owner of the mutex is the one thread in a critical section.
THEOREM Exclusion == CVSpec => []MutexOwnership
<1>1. CVInv => MutexOwnership
  BY ThreadsAssumption DEF CVInv, CVTypeOK, Holds, MutexOwnership, InCriticalSection, Critical,
    Threads
<1> QED BY <1>1, Invariant, PTL

\* Items leave the ring in the order they entered it, each exactly once.
THEOREM Fifo == CVSpec => []FifoNoLoss
<1>1. ASSUME CVInv PROVE FifoNoLoss
  <2>a. produced \in Seq(Items) /\ consumed \in Seq(Items) /\ counter \in Nat
    BY <1>1, SizeAssumption DEF CVInv, CVTypeOK
  <2>b. Len(consumed) \in Nat /\ Len(produced) \in Nat BY <2>a, LenProperties
  <2>c. Lines BY <1>1 DEF CVInv
  <2>1. /\ produced \in Seq(Items) /\ consumed \in Seq(Items) /\ counter \in Nat
        /\ Len(consumed) \in Nat /\ Len(produced) \in Nat
        /\ Len(produced) = Len(consumed) + counter
        /\ \A k \in 1..Len(consumed) : consumed[k] = produced[k]
        /\ \A k \in 0..(counter - 1) : buffer[Cell(k)] = produced[Len(consumed) + k + 1]
    BY <2>a, <2>b, <2>c DEF Lines
  <2>2. \A k \in 1..counter : Queue[k] = produced[Len(consumed) + k]
    <3> SUFFICES ASSUME NEW k \in 1..counter
                 PROVE  buffer[Cell(k - 1)] = produced[Len(consumed) + k]
      BY DEF Queue
    <3>1. k - 1 \in 0..(counter - 1) BY <2>1
    <3>2. buffer[Cell(k - 1)] = produced[Len(consumed) + (k - 1) + 1] BY <2>1, <3>1
    <3> QED BY <3>2, <2>1
  <2>3. Queue \in Seq(Items) /\ Len(Queue) = counter
    <3>1. \A k \in 1..counter : Queue[k] \in Items BY <2>1, <2>2
    <3>2. Queue \in [1..counter -> Items] BY <3>1 DEF Queue
    <3>3. Queue \in Seq(Items) BY <3>1, <2>1 DEF Queue
    <3>4. Len(Queue) = counter BY <3>2, <3>3, <2>1, LenProperties
    <3> QED BY <3>3, <3>4
  <2>4. \A k \in 1..Len(Queue) : Queue[k] = produced[Len(consumed) + k] BY <2>2, <2>3
  <2>5. Len(produced) = Len(consumed) + Len(Queue) BY <2>1, <2>3
  <2> QED BY <2>1, <2>3, <2>4, <2>5, ConcatPointwise DEF FifoNoLoss
<1> QED BY <1>1, Invariant, PTL

-----
\* XvPipe: whatever the number of processes, the size of the pipe, the
\* length of a call and the width of the counters, a pipe is a bounded
\* queue of bytes that ends with its last writer, nobody sleeps on a
\* condition that holds, and its page outlives its users.

Writing == {"writeLock", "write", "writeSleep"}
Reading == {"readLock", "read", "copy", "readSleep"}
Busy    == {"write", "read", "copy"}

\* Who is not forked yet or has left holds no end and is in no call.
Members == \A p \in Procs : p \notin alive => holds[p] = {} /\ pc[p] = "user"

\* A call of read() or write() is made through an end that its process holds.
Rights ==
  \A p \in Procs :
    /\ pc[p] \in Writing => "write" \in holds[p]
    /\ pc[p] \in Reading => "read" \in holds[p]

\* Who is about to close an end of the pipe was its last holder.
Closers ==
  \A p, q \in Procs :
    /\ pc[p] = "writeClose" => "write" \notin holds[q] /\ (pc[q] = "writeClose" => q = p)
    /\ pc[p] = "readClose" => "read" \notin holds[q] /\ (pc[q] = "readClose" => q = p)

\* An end is open while somebody holds it or is still to close it.
OpenEnds ==
  /\ \A p \in Procs :
       /\ "write" \in holds[p] \/ pc[p] = "writeClose" => writeopen
       /\ "read" \in holds[p] \/ pc[p] = "readClose" => readopen
  /\ freed => ~ readopen /\ ~ writeopen

\* pi->lock is held by the one process inside pipewrite() or piperead().
Locked == \A p \in Procs : lock = p <=> pc[p] \in Busy

\* A call under way asks for at least one byte and has moved no more than that.
Started == \A p \in Procs : pc[p] \in Writing \cup Reading => n[p] > 0 /\ i[p] <= n[p]

\* Who sleeps has reason to, unless the process inside is about to wake him.
Waiting ==
  \A p \in Procs :
    /\ pc[p] = "readSleep" =>
         /\ writeopen
         /\ \/ Empty \/ unannounced
            \/ \E q \in Procs : pc[q] = "write" /\ i[q] > 0
    /\ pc[p] = "writeSleep" =>
         /\ readopen
         /\ Full \/ \E q \in Procs : pc[q] = "copy"

\* A reader that has no byte yet finds one, or the end of the pipe.
Fresh == \A p \in Procs : pc[p] = "copy" /\ i[p] = 0 => ~ Empty \/ ~ writeopen

\* The counters are at most a round apart.
Room == Ahead(Wrap, nread, nwrite) <= PIPESIZE

\* The inductive invariant.
Control == Members /\ Rights /\ Closers /\ OpenEnds /\ Locked /\ Started
IInv == TypeOK /\ Control /\ Waiting /\ Fresh /\ Room

-----
LEMMA Sizes ==
  /\ PIPESIZE \in Nat \ {0} /\ Wrap \in Nat \ {0} /\ PIPESIZE < Wrap
  /\ Wrap % PIPESIZE = 0 /\ Nobody \notin Procs /\ Creator \in Procs
BY PipeAssumption

\* Empty and Full of pipe.c, told by how far the counters are apart.
LEMMA RingLevels ==
  ASSUME TypeOK
  PROVE  /\ Empty <=> Ahead(Wrap, nread, nwrite) = 0
         /\ Full <=> Ahead(Wrap, nread, nwrite) = PIPESIZE
         /\ Ahead(Wrap, nread, nwrite) \in 0 .. Wrap - 1
<1>1. nread \in 0 .. Wrap - 1 /\ nwrite \in 0 .. Wrap - 1 BY DEF TypeOK
<1>2. Ahead(Wrap, nread, nwrite) = Gap(Wrap, nread, nwrite) BY <1>1, Sizes, Distance, Zenon
<1>3. Full <=> Ahead(Wrap, nread, nwrite) = PIPESIZE
  <2>1. \A from, to \in 0 .. Wrap - 1 :
          Ahead(Wrap, from, to) = PIPESIZE <=> to = (from + PIPESIZE) % Wrap
    BY Sizes, FullRing, Zenon
  <2> QED BY <1>1, <2>1, Zenon DEF Full
<1>4. Wrap \in Nat \ {0} BY Sizes
<1>5. /\ Empty <=> Gap(Wrap, nread, nwrite) = 0
      /\ Gap(Wrap, nread, nwrite) \in 0 .. Wrap - 1
  BY <1>1, <1>4 DEF Empty, Gap
<1> QED BY <1>2, <1>3, <1>5, Zenon

\* What WriteByte and ReadByte do to the bytes between the counters.
LEMMA ByteIn ==
  ASSUME TypeOK, Room, ~ Full, NEW b \in Bytes,
         data' = [data EXCEPT ![nwrite % PIPESIZE] = b],
         nwrite' = Inc(nwrite), nread' = nread
  PROVE  /\ Contents' = Append(Contents, b) /\ Len(Contents) < PIPESIZE
         /\ Room' /\ nwrite' \in 0 .. Wrap - 1
         /\ data' \in [0 .. PIPESIZE - 1 -> Bytes]
<1>1. nread \in 0 .. Wrap - 1 /\ nwrite \in 0 .. Wrap - 1 /\ data \in [0 .. PIPESIZE - 1 -> Bytes]
  BY DEF TypeOK
<1>2. Ahead(Wrap, nread, nwrite) < PIPESIZE /\ Ahead(Wrap, nread, nwrite) \in 0 .. Wrap - 1
  BY RingLevels, Sizes DEF Room
<1>3. /\ Ahead(Wrap, nread, nwrite') = Ahead(Wrap, nread, nwrite) + 1
      /\ Held(data', PIPESIZE, Wrap, nread, nwrite')
           = Append(Held(data, PIPESIZE, Wrap, nread, nwrite), b)
      /\ data' \in [0 .. PIPESIZE - 1 -> Bytes] /\ nwrite' \in 0 .. Wrap - 1
  <2> DEFINE step == (nwrite + 1) % Wrap
             data2 == Stored(data, PIPESIZE, nwrite, b)
  <2>1. /\ Ahead(Wrap, nread, step) = Ahead(Wrap, nread, nwrite) + 1
        /\ Held(data2, PIPESIZE, Wrap, nread, step)
             = Append(Held(data, PIPESIZE, Wrap, nread, nwrite), b)
        /\ data2 \in [0 .. PIPESIZE - 1 -> Bytes] /\ step \in 0 .. Wrap - 1
    <3>1. Appends(Bytes, PIPESIZE, Wrap) BY Sizes, HeldAppend, Zenon
    <3> QED BY <1>1, <1>2, <3>1, Zenon DEF Appends
  <2>2. nwrite' = step /\ data' = data2 BY DEF Inc, Stored
  <2> HIDE DEF step, data2
  <2> QED BY <2>1, <2>2
<1>4. Contents = Held(data, PIPESIZE, Wrap, nread, nwrite) BY DEF Contents, Held, Ahead
<1>5. Contents' = Held(data', PIPESIZE, Wrap, nread, nwrite') BY DEF Contents, Held, Ahead
<1>6. Len(Contents) = Ahead(Wrap, nread, nwrite) BY <1>2 DEF Contents, Ahead
<1> QED BY <1>2, <1>3, <1>4, <1>5, <1>6, Sizes DEF Room

LEMMA ByteOut ==
  ASSUME TypeOK, Room, ~ Empty,
         data' = data, nread' = Inc(nread), nwrite' = nwrite
  PROVE  /\ Contents' = Tail(Contents) /\ Contents # <<>>
         /\ Room' /\ nread' \in 0 .. Wrap - 1
<1>1. nread \in 0 .. Wrap - 1 /\ nwrite \in 0 .. Wrap - 1 /\ data \in [0 .. PIPESIZE - 1 -> Bytes]
      /\ nread # nwrite
  BY DEF TypeOK, Empty
<1>2. Ahead(Wrap, nread, nwrite) \in 0 .. Wrap - 1 BY RingLevels
<1>3. /\ Ahead(Wrap, nread', nwrite) = Ahead(Wrap, nread, nwrite) - 1
      /\ Held(data, PIPESIZE, Wrap, nread', nwrite)
           = Tail(Held(data, PIPESIZE, Wrap, nread, nwrite))
      /\ Held(data, PIPESIZE, Wrap, nread, nwrite) # <<>> /\ nread' \in 0 .. Wrap - 1
  <2> DEFINE step == (nread + 1) % Wrap
  <2>0. \A from, to \in 0 .. Wrap - 1, cells \in [0 .. PIPESIZE - 1 -> Bytes] :
          from # to =>
            /\ Ahead(Wrap, (from + 1) % Wrap, to) = Ahead(Wrap, from, to) - 1
            /\ Held(cells, PIPESIZE, Wrap, (from + 1) % Wrap, to)
                 = Tail(Held(cells, PIPESIZE, Wrap, from, to))
            /\ Held(cells, PIPESIZE, Wrap, from, to) # <<>>
            /\ (from + 1) % Wrap \in 0 .. Wrap - 1
    BY Sizes, HeldTail, ZenonT(60)
  <2>1. /\ Ahead(Wrap, step, nwrite) = Ahead(Wrap, nread, nwrite) - 1
        /\ Held(data, PIPESIZE, Wrap, step, nwrite)
             = Tail(Held(data, PIPESIZE, Wrap, nread, nwrite))
        /\ Held(data, PIPESIZE, Wrap, nread, nwrite) # <<>> /\ step \in 0 .. Wrap - 1
    BY <1>1, <2>0, Zenon
  <2>2. nread' = step BY DEF Inc
  <2> HIDE DEF step
  <2> QED BY <2>1, <2>2
<1>4. Contents = Held(data, PIPESIZE, Wrap, nread, nwrite) BY DEF Contents, Held, Ahead
<1>5. Contents' = Held(data, PIPESIZE, Wrap, nread', nwrite) BY DEF Contents, Held, Ahead
<1> QED BY <1>2, <1>3, <1>4, <1>5, Sizes DEF Room

LEMMA NothingHeld ==
  ASSUME TypeOK, Empty
  PROVE  Contents = <<>>
<1>1. (nwrite - nread) % Wrap = 0 BY RingLevels DEF Ahead
<1> QED BY <1>1 DEF Contents

-----
LEMMA InitIInv == Init => IInv
<1> SUFFICES ASSUME Init PROVE IInv
  OBVIOUS
<1> USE Sizes, PipeAssumption
<1>1. TypeOK
  <2>1. Junk \in Bytes BY DEF Junk
  <2>2. data \in [0 .. PIPESIZE - 1 -> Bytes] /\ {nread, nwrite} \subseteq 0 .. Wrap - 1
    BY <2>1 DEF Init
  <2>3. /\ {readopen, writeopen, freed, ended, unannounced} \subseteq BOOLEAN
        /\ lock \in Procs \cup {Nobody} /\ alive \subseteq Procs
        /\ holds \in [Procs -> SUBSET Ends] /\ killed \in [Procs -> BOOLEAN]
    BY DEF Init
  <2>4. /\ i \in [Procs -> 0 .. MaxN] /\ n \in [Procs -> 0 .. MaxN]
        /\ calls \in 0 .. MaxCalls /\ kills \in 0 .. MaxKills
    BY DEF Init
  <2> QED BY <2>2, <2>3, <2>4 DEF Init, TypeOK
<1>2. Control
  BY DEF Init, Control, Members, Rights, Closers, OpenEnds, Locked, Started, Writing, Reading,
    Busy
<1>3. Waiting /\ Fresh BY DEF Init, Waiting, Fresh
<1>4. Empty BY DEF Init, Empty
<1>5. Room BY <1>1, <1>4, RingLevels DEF Room
<1> QED BY <1>1, <1>2, <1>3, <1>5 DEF IInv

\* One lemma for each action: it preserves the inductive invariant.

LEMMA KeepsCallForWrite ==
  ASSUME IInv, NEW p \in Procs, Call(p, "write", "writeLock")
  PROVE  IInv'
<1> USE Sizes, PipeAssumption DEF IInv, Call, At, Goto, pipe, locals, hist, bounds
<1>1. TypeOK' BY DEF TypeOK
<1>2. Control'
  <2> USE DEF Control
  <2>1. Members' BY <1>1 DEF TypeOK, Members, Ends
  <2>2. Rights' BY <1>1 DEF TypeOK, Rights, Members, Writing, Reading
  <2>3. Closers' BY <1>1 DEF TypeOK, Closers, Members
  <2>4. OpenEnds' BY <1>1 DEF TypeOK, OpenEnds, Members, Closers
  <2>5. Locked' BY <1>1 DEF TypeOK, Locked, Busy
  <2>6. Started' BY <1>1 DEF TypeOK, Started, Writing, Reading
  <2> QED BY <2>1, <2>2, <2>3, <2>4, <2>5, <2>6
<1>3. Waiting' BY <1>1 DEF TypeOK, Control, Waiting, Locked, Busy, Empty, Full
<1>4. Fresh' BY <1>1 DEF TypeOK, Control, Fresh, Locked, Busy, Started, Writing, Reading, Empty
<1>5. Room' BY DEF Room
<1> QED BY <1>1, <1>2, <1>3, <1>4, <1>5

LEMMA KeepsCallForRead ==
  ASSUME IInv, NEW p \in Procs, Call(p, "read", "readLock")
  PROVE  IInv'
<1> USE Sizes, PipeAssumption DEF IInv, Call, At, Goto, pipe, locals, hist, bounds
<1>1. TypeOK' BY DEF TypeOK
<1>2. Control'
  <2> USE DEF Control
  <2>1. Members' BY <1>1 DEF TypeOK, Members, Ends
  <2>2. Rights' BY <1>1 DEF TypeOK, Rights, Members, Writing, Reading
  <2>3. Closers' BY <1>1 DEF TypeOK, Closers, Members
  <2>4. OpenEnds' BY <1>1 DEF TypeOK, OpenEnds, Members, Closers
  <2>5. Locked' BY <1>1 DEF TypeOK, Locked, Busy
  <2>6. Started' BY <1>1 DEF TypeOK, Started, Writing, Reading
  <2> QED BY <2>1, <2>2, <2>3, <2>4, <2>5, <2>6
<1>3. Waiting' BY <1>1 DEF TypeOK, Control, Waiting, Locked, Busy, Empty, Full
<1>4. Fresh' BY <1>1 DEF TypeOK, Control, Fresh, Locked, Busy, Started, Writing, Reading, Empty
<1>5. Room' BY DEF Room
<1> QED BY <1>1, <1>2, <1>3, <1>4, <1>5

LEMMA KeepsAcquireForWrite ==
  ASSUME IInv, NEW p \in Procs, Acquire(p, "writeLock", "write")
  PROVE  IInv'
<1> USE Sizes, PipeAssumption DEF IInv, Acquire, At, Goto, pipe, locals, hist, bounds
<1>1. TypeOK' BY DEF TypeOK
<1>2. Control'
  <2> USE DEF Control
  <2>1. Members' BY <1>1 DEF TypeOK, Members, Ends
  <2>2. Rights' BY <1>1 DEF TypeOK, Rights, Members, Writing, Reading
  <2>3. Closers' BY <1>1 DEF TypeOK, Closers, Members
  <2>4. OpenEnds' BY <1>1 DEF TypeOK, OpenEnds, Members, Closers
  <2>5. Locked' BY <1>1 DEF TypeOK, Locked, Busy
  <2>6. Started' BY <1>1 DEF TypeOK, Started, Writing, Reading
  <2> QED BY <2>1, <2>2, <2>3, <2>4, <2>5, <2>6
<1>3. Waiting' BY <1>1 DEF TypeOK, Control, Waiting, Locked, Busy, Empty, Full
<1>4. Fresh' BY <1>1 DEF TypeOK, Control, Fresh, Locked, Busy, Started, Writing, Reading, Empty
<1>5. Room' BY DEF Room
<1> QED BY <1>1, <1>2, <1>3, <1>4, <1>5

LEMMA KeepsAcquireForRead ==
  ASSUME IInv, NEW p \in Procs, Acquire(p, "readLock", "read")
  PROVE  IInv'
<1> USE Sizes, PipeAssumption DEF IInv, Acquire, At, Goto, pipe, locals, hist, bounds
<1>1. TypeOK' BY DEF TypeOK
<1>2. Control'
  <2> USE DEF Control
  <2>1. Members' BY <1>1 DEF TypeOK, Members, Ends
  <2>2. Rights' BY <1>1 DEF TypeOK, Rights, Members, Writing, Reading
  <2>3. Closers' BY <1>1 DEF TypeOK, Closers, Members
  <2>4. OpenEnds' BY <1>1 DEF TypeOK, OpenEnds, Members, Closers
  <2>5. Locked' BY <1>1 DEF TypeOK, Locked, Busy
  <2>6. Started' BY <1>1 DEF TypeOK, Started, Writing, Reading
  <2> QED BY <2>1, <2>2, <2>3, <2>4, <2>5, <2>6
<1>3. Waiting' BY <1>1 DEF TypeOK, Control, Waiting, Locked, Busy, Empty, Full
<1>4. Fresh' BY <1>1 DEF TypeOK, Control, Fresh, Locked, Busy, Started, Writing, Reading, Empty
<1>5. Room' BY DEF Room
<1> QED BY <1>1, <1>2, <1>3, <1>4, <1>5

LEMMA KeepsWriteFails ==
  ASSUME IInv, NEW p \in Procs, WriteFails(p)
  PROVE  IInv'
<1> USE Sizes, PipeAssumption DEF IInv, WriteFails, At, Goto, Return, pipe, locals, hist, bounds
<1>1. TypeOK' BY DEF TypeOK
<1>2. Control'
  <2> USE DEF Control
  <2>1. Members' BY <1>1 DEF TypeOK, Members, Ends
  <2>2. Rights' BY <1>1 DEF TypeOK, Rights, Members, Writing, Reading
  <2>3. Closers' BY <1>1 DEF TypeOK, Closers, Members
  <2>4. OpenEnds' BY <1>1 DEF TypeOK, OpenEnds, Members, Closers
  <2>5. Locked' BY <1>1 DEF TypeOK, Locked, Busy
  <2>6. Started' BY <1>1 DEF TypeOK, Started, Writing, Reading
  <2> QED BY <2>1, <2>2, <2>3, <2>4, <2>5, <2>6
<1>3. Waiting' BY <1>1 DEF TypeOK, Control, Waiting, Locked, Busy, Empty, Full
<1>4. Fresh' BY <1>1 DEF TypeOK, Control, Fresh, Locked, Busy, Started, Writing, Reading, Empty
<1>5. Room' BY DEF Room
<1> QED BY <1>1, <1>2, <1>3, <1>4, <1>5

LEMMA KeepsWriteWaits ==
  ASSUME IInv, NEW p \in Procs, WriteWaits(p)
  PROVE  IInv'
<1> USE Sizes, PipeAssumption DEF IInv, WriteWaits, At, Wakes, pipe, locals, hist, bounds
<1>1. TypeOK' BY DEF TypeOK
<1>2. Control'
  <2> USE DEF Control
  <2>1. Members' BY <1>1 DEF TypeOK, Members, Ends
  <2>2. Rights' BY <1>1 DEF TypeOK, Rights, Members, Writing, Reading
  <2>3. Closers' BY <1>1 DEF TypeOK, Closers, Members
  <2>4. OpenEnds' BY <1>1 DEF TypeOK, OpenEnds, Members, Closers
  <2>5. Locked' BY <1>1 DEF TypeOK, Locked, Busy
  <2>6. Started' BY <1>1 DEF TypeOK, Started, Writing, Reading
  <2> QED BY <2>1, <2>2, <2>3, <2>4, <2>5, <2>6
<1>3. Waiting' BY <1>1 DEF TypeOK, Control, Waiting, Locked, Busy, Empty, Full
<1>4. Fresh' BY <1>1 DEF TypeOK, Control, Fresh, Locked, Busy, Started, Writing, Reading, Empty
<1>5. Room' BY DEF Room
<1> QED BY <1>1, <1>2, <1>3, <1>4, <1>5

LEMMA KeepsWriteByte ==
  ASSUME IInv, NEW p \in Procs, WriteByte(p)
  PROVE  IInv'
<1> USE Sizes, PipeAssumption DEF IInv
<1>0. Room' /\ nwrite' \in 0 .. Wrap - 1 /\ data' \in [0 .. PIPESIZE - 1 -> Bytes]
  <2>1. PICK b \in Bytes : data' = [data EXCEPT ![nwrite % PIPESIZE] = b] BY DEF WriteByte
  <2>2. ~ Full /\ nwrite' = Inc(nwrite) /\ nread' = nread BY DEF WriteByte
  <2> QED BY <2>1, <2>2, ByteIn
<1>a. /\ UNCHANGED <<nread, readopen, writeopen, freed, lock, holds, alive>>
      /\ UNCHANGED <<pc, n, killed, ended, unannounced, calls, kills>>
  BY DEF WriteByte, hist, bounds
<1>b. pc[p] = "write" /\ i' \in [Procs -> 0 .. MaxN]
      /\ i'[p] = i[p] + 1 /\ (\A q \in Procs : q # p => i'[q] = i[q])
  BY DEF TypeOK, WriteByte, At
<1>1. TypeOK' BY <1>0, <1>a, <1>b DEF TypeOK
<1>2. Control'
  <2> USE DEF Control
  <2>1. Members' BY <1>1 DEF TypeOK, Members, Ends, WriteByte, At, pipe, locals, hist, bounds
  <2>2. Rights'
    BY <1>1 DEF TypeOK, Rights, Members, Writing, Reading, WriteByte, At, pipe, locals, hist,
      bounds
  <2>3. Closers' BY <1>1 DEF TypeOK, Closers, Members, WriteByte, At, pipe, locals, hist, bounds
  <2>4. OpenEnds'
    BY <1>1 DEF TypeOK, OpenEnds, Members, Closers, WriteByte, At, pipe, locals, hist, bounds
  <2>5. Locked' BY <1>1 DEF TypeOK, Locked, Busy, WriteByte, At, pipe, locals, hist, bounds
  <2>6. Started'
    BY <1>1 DEF TypeOK, Started, Writing, Reading, WriteByte, At, pipe, locals, hist, bounds
  <2> QED BY <2>1, <2>2, <2>3, <2>4, <2>5, <2>6
<1>3. Waiting'
  <2>1. \A q \in Procs : pc[q] = "copy" => q = p BY <1>b DEF Control, Locked, Busy
  <2>2. ~ Full BY DEF WriteByte
  <2>3. \A q \in Procs : pc[q] # "writeSleep" BY <1>b, <2>1, <2>2 DEF Waiting
  <2>4. \A q \in Procs : pc'[q] = "readSleep" => writeopen' BY <1>a DEF Waiting
  <2>5. pc'[p] = "write" /\ i'[p] > 0 BY <1>a, <1>b DEF TypeOK
  <2> QED BY <1>a, <2>3, <2>4, <2>5 DEF Waiting
<1>4. Fresh'
  BY <1>1 DEF TypeOK, Control, Fresh, Locked, Busy, Started, Writing, Reading, Empty, WriteByte,
    At, pipe, locals, hist, bounds
<1> QED BY <1>0, <1>1, <1>2, <1>3, <1>4

LEMMA KeepsWriteReturns ==
  ASSUME IInv, NEW p \in Procs, WriteReturns(p)
  PROVE  IInv'
<1> USE Sizes, PipeAssumption DEF IInv
<1>1. TypeOK'
  <2> USE DEF TypeOK, WriteReturns, At, Return, pipe, locals, hist, bounds
  <2>1. i' \in [Procs -> 0 .. MaxN] /\ n' \in [Procs -> 0 .. MaxN] OBVIOUS
  <2>2. pc' \in [Procs -> {"user", "writeLock", "write", "writeSleep", "readLock", "read",
                          "copy", "readSleep", "writeClose", "readClose"}]
    BY DEF Wakes
  <2> QED BY <2>1, <2>2
<1>2. Control'
  <2> USE DEF Control
  <2>1. Members'
    BY <1>1 DEF TypeOK, Members, Ends, WriteReturns, At, Wakes, Return, pipe, locals, hist,
      bounds
  <2>2. Rights'
    BY <1>1 DEF TypeOK, Rights, Members, Writing, Reading, WriteReturns, At, Wakes, Return,
      pipe, locals, hist, bounds
  <2>3. Closers'
    BY <1>1 DEF TypeOK, Closers, Members, WriteReturns, At, Wakes, Return, pipe, locals, hist,
      bounds
  <2>4. OpenEnds'
    BY <1>1 DEF TypeOK, OpenEnds, Members, Closers, WriteReturns, At, Wakes, Return, pipe,
      locals, hist, bounds
  <2>5. Locked'
    BY <1>1 DEF TypeOK, Locked, Busy, WriteReturns, At, Wakes, Return, pipe, locals, hist,
      bounds
  <2>6. Started'
    BY <1>1 DEF TypeOK, Started, Writing, Reading, WriteReturns, At, Wakes, Return, pipe,
      locals, hist, bounds
  <2> QED BY <2>1, <2>2, <2>3, <2>4, <2>5, <2>6
<1>3. Waiting'
  BY <1>1 DEF TypeOK, Control, Waiting, Locked, Busy, Empty, Full, WriteReturns, At, Wakes,
    Return, pipe, locals, hist, bounds
<1>4. Fresh'
  BY <1>1 DEF TypeOK, Control, Fresh, Locked, Busy, Started, Writing, Reading, Empty,
    WriteReturns, At, Wakes, Return, pipe, locals, hist, bounds
<1>5. Room' BY DEF Room, WriteReturns, At, Wakes, Return, pipe, locals, hist, bounds
<1> QED BY <1>1, <1>2, <1>3, <1>4, <1>5

LEMMA KeepsReadKilled ==
  ASSUME IInv, NEW p \in Procs, ReadKilled(p)
  PROVE  IInv'
<1> USE Sizes, PipeAssumption DEF IInv, ReadKilled, At, Goto, Return, pipe, locals, hist, bounds
<1>1. TypeOK' BY DEF TypeOK
<1>2. Control'
  <2> USE DEF Control
  <2>1. Members' BY <1>1 DEF TypeOK, Members, Ends
  <2>2. Rights' BY <1>1 DEF TypeOK, Rights, Members, Writing, Reading
  <2>3. Closers' BY <1>1 DEF TypeOK, Closers, Members
  <2>4. OpenEnds' BY <1>1 DEF TypeOK, OpenEnds, Members, Closers
  <2>5. Locked' BY <1>1 DEF TypeOK, Locked, Busy
  <2>6. Started' BY <1>1 DEF TypeOK, Started, Writing, Reading
  <2> QED BY <2>1, <2>2, <2>3, <2>4, <2>5, <2>6
<1>3. Waiting' BY <1>1 DEF TypeOK, Control, Waiting, Locked, Busy, Empty, Full
<1>4. Fresh' BY <1>1 DEF TypeOK, Control, Fresh, Locked, Busy, Started, Writing, Reading, Empty
<1>5. Room' BY DEF Room
<1> QED BY <1>1, <1>2, <1>3, <1>4, <1>5

LEMMA KeepsReadWaits ==
  ASSUME IInv, NEW p \in Procs, ReadWaits(p)
  PROVE  IInv'
<1> USE Sizes, PipeAssumption DEF IInv, ReadWaits, At, Goto, pipe, locals, hist, bounds
<1>1. TypeOK' BY DEF TypeOK
<1>2. Control'
  <2> USE DEF Control
  <2>1. Members' BY <1>1 DEF TypeOK, Members, Ends
  <2>2. Rights' BY <1>1 DEF TypeOK, Rights, Members, Writing, Reading
  <2>3. Closers' BY <1>1 DEF TypeOK, Closers, Members
  <2>4. OpenEnds' BY <1>1 DEF TypeOK, OpenEnds, Members, Closers
  <2>5. Locked' BY <1>1 DEF TypeOK, Locked, Busy
  <2>6. Started' BY <1>1 DEF TypeOK, Started, Writing, Reading
  <2> QED BY <2>1, <2>2, <2>3, <2>4, <2>5, <2>6
<1>3. Waiting' BY <1>1 DEF TypeOK, Control, Waiting, Locked, Busy, Empty, Full
<1>4. Fresh' BY <1>1 DEF TypeOK, Control, Fresh, Locked, Busy, Started, Writing, Reading, Empty
<1>5. Room' BY DEF Room
<1> QED BY <1>1, <1>2, <1>3, <1>4, <1>5

LEMMA KeepsReadStarts ==
  ASSUME IInv, NEW p \in Procs, ReadStarts(p)
  PROVE  IInv'
<1> USE Sizes, PipeAssumption DEF IInv, ReadStarts, At, Goto, pipe, locals, hist, bounds
<1>1. TypeOK' BY DEF TypeOK
<1>2. Control'
  <2> USE DEF Control
  <2>1. Members' BY <1>1 DEF TypeOK, Members, Ends
  <2>2. Rights' BY <1>1 DEF TypeOK, Rights, Members, Writing, Reading
  <2>3. Closers' BY <1>1 DEF TypeOK, Closers, Members
  <2>4. OpenEnds' BY <1>1 DEF TypeOK, OpenEnds, Members, Closers
  <2>5. Locked' BY <1>1 DEF TypeOK, Locked, Busy
  <2>6. Started' BY <1>1 DEF TypeOK, Started, Writing, Reading
  <2> QED BY <2>1, <2>2, <2>3, <2>4, <2>5, <2>6
<1>3. Waiting' BY <1>1 DEF TypeOK, Control, Waiting, Locked, Busy, Empty, Full
<1>4. Fresh' BY <1>1 DEF TypeOK, Control, Fresh, Locked, Busy, Started, Writing, Reading, Empty
<1>5. Room' BY DEF Room
<1> QED BY <1>1, <1>2, <1>3, <1>4, <1>5

LEMMA KeepsReadByte ==
  ASSUME IInv, NEW p \in Procs, ReadByte(p)
  PROVE  IInv'
<1> USE Sizes, PipeAssumption DEF IInv
<1>0. Room' /\ nread' \in 0 .. Wrap - 1 BY ByteOut DEF ReadByte
<1>1. TypeOK' BY <1>0 DEF TypeOK, ReadByte, At, pipe, locals, hist, bounds
<1>2. Control'
  <2> USE DEF Control
  <2>1. Members' BY <1>1 DEF TypeOK, Members, Ends, ReadByte, At, pipe, locals, hist, bounds
  <2>2. Rights'
    BY <1>1 DEF TypeOK, Rights, Members, Writing, Reading, ReadByte, At, pipe, locals, hist,
      bounds
  <2>3. Closers' BY <1>1 DEF TypeOK, Closers, Members, ReadByte, At, pipe, locals, hist, bounds
  <2>4. OpenEnds'
    BY <1>1 DEF TypeOK, OpenEnds, Members, Closers, ReadByte, At, pipe, locals, hist, bounds
  <2>5. Locked' BY <1>1 DEF TypeOK, Locked, Busy, ReadByte, At, pipe, locals, hist, bounds
  <2>6. Started'
    BY <1>1 DEF TypeOK, Started, Writing, Reading, ReadByte, At, pipe, locals, hist, bounds
  <2> QED BY <2>1, <2>2, <2>3, <2>4, <2>5, <2>6
<1>3. Waiting'
  BY <1>1 DEF TypeOK, Control, Waiting, Locked, Busy, Empty, Full, ReadByte, At, pipe, locals,
    hist, bounds
<1>4. Fresh'
  BY <1>1 DEF TypeOK, Control, Fresh, Locked, Busy, Started, Writing, Reading, Empty, ReadByte,
    At, pipe, locals, hist, bounds
<1> QED BY <1>0, <1>1, <1>2, <1>3, <1>4

LEMMA KeepsReadByteLost ==
  ASSUME IInv, NEW p \in Procs, ReadByteLost(p)
  PROVE  IInv'
<1> USE Sizes, PipeAssumption DEF IInv
<1>0. Room' /\ nread' \in 0 .. Wrap - 1 BY ByteOut DEF ReadByteLost
<1>a. i' \in [Procs -> 0 .. MaxN] /\ n' \in [Procs -> 0 .. MaxN]
  BY DEF TypeOK, ReadByteLost, Return
<1>b. /\ pc' \in [Procs -> {"user", "writeLock", "write", "writeSleep", "readLock", "read",
                            "copy", "readSleep", "writeClose", "readClose"}]
      /\ lock' \in Procs \cup {Nobody}
  BY DEF TypeOK, ReadByteLost, Wakes, Return
<1>1. TypeOK' BY <1>0, <1>a, <1>b DEF TypeOK, ReadByteLost, pipe, hist, bounds
<1>2. Control'
  <2> USE DEF Control
  <2>1. Members'
    BY <1>1 DEF TypeOK, Members, Ends, ReadByteLost, At, Wakes, Return, pipe, locals, hist,
      bounds
  <2>2. Rights'
    BY <1>1 DEF TypeOK, Rights, Members, Writing, Reading, ReadByteLost, At, Wakes, Return,
      pipe, locals, hist, bounds
  <2>3. Closers'
    BY <1>1 DEF TypeOK, Closers, Members, ReadByteLost, At, Wakes, Return, pipe, locals, hist,
      bounds
  <2>4. OpenEnds'
    BY <1>1 DEF TypeOK, OpenEnds, Members, Closers, ReadByteLost, At, Wakes, Return, pipe,
      locals, hist, bounds
  <2>5. Locked'
    BY <1>1 DEF TypeOK, Locked, Busy, ReadByteLost, At, Wakes, Return, pipe, locals, hist,
      bounds
  <2>6. Started'
    BY <1>1 DEF TypeOK, Started, Writing, Reading, ReadByteLost, At, Wakes, Return, pipe,
      locals, hist, bounds
  <2> QED BY <2>1, <2>2, <2>3, <2>4, <2>5, <2>6
<1>3. Waiting'
  BY <1>1 DEF TypeOK, Control, Waiting, Locked, Busy, Empty, Full, ReadByteLost, At, Wakes,
    Return, pipe, locals, hist, bounds
<1>4. Fresh'
  BY <1>1 DEF TypeOK, Control, Fresh, Locked, Busy, Started, Writing, Reading, Empty,
    ReadByteLost, At, Wakes, Return, pipe, locals, hist, bounds
<1> QED BY <1>0, <1>1, <1>2, <1>3, <1>4

LEMMA KeepsReadReturns ==
  ASSUME IInv, NEW p \in Procs, ReadReturns(p)
  PROVE  IInv'
<1> USE Sizes, PipeAssumption DEF IInv
<1>a. i' \in [Procs -> 0 .. MaxN] /\ n' \in [Procs -> 0 .. MaxN]
  BY DEF TypeOK, ReadReturns, Return
<1>b. /\ pc' \in [Procs -> {"user", "writeLock", "write", "writeSleep", "readLock", "read",
                            "copy", "readSleep", "writeClose", "readClose"}]
      /\ lock' \in Procs \cup {Nobody}
  BY DEF TypeOK, ReadReturns, Wakes, Return
<1>1. TypeOK' BY <1>a, <1>b DEF TypeOK, ReadReturns, pipe, hist, bounds
<1>2. Control'
  <2> USE DEF Control
  <2>1. Members'
    BY <1>1 DEF TypeOK, Members, Ends, ReadReturns, At, Wakes, Return, pipe, locals, hist,
      bounds
  <2>2. Rights'
    BY <1>1 DEF TypeOK, Rights, Members, Writing, Reading, ReadReturns, At, Wakes, Return, pipe,
      locals, hist, bounds
  <2>3. Closers'
    BY <1>1 DEF TypeOK, Closers, Members, ReadReturns, At, Wakes, Return, pipe, locals, hist,
      bounds
  <2>4. OpenEnds'
    BY <1>1 DEF TypeOK, OpenEnds, Members, Closers, ReadReturns, At, Wakes, Return, pipe,
      locals, hist, bounds
  <2>5. Locked'
    BY <1>1 DEF TypeOK, Locked, Busy, ReadReturns, At, Wakes, Return, pipe, locals, hist, bounds
  <2>6. Started'
    BY <1>1 DEF TypeOK, Started, Writing, Reading, ReadReturns, At, Wakes, Return, pipe, locals,
      hist, bounds
  <2> QED BY <2>1, <2>2, <2>3, <2>4, <2>5, <2>6
<1>3. Waiting'
  BY <1>1 DEF TypeOK, Control, Waiting, Locked, Busy, Empty, Full, ReadReturns, At, Wakes,
    Return, pipe, locals, hist, bounds
<1>4. Fresh'
  BY <1>1 DEF TypeOK, Control, Fresh, Locked, Busy, Started, Writing, Reading, Empty,
    ReadReturns, At, Wakes, Return, pipe, locals, hist, bounds
<1>5. Room' BY DEF Room, ReadReturns, At, Wakes, Return, pipe, locals, hist, bounds
<1> QED BY <1>1, <1>2, <1>3, <1>4, <1>5

LEMMA KeepsPipeCloseWrite ==
  ASSUME IInv, NEW p \in Procs, PipeCloseWrite(p)
  PROVE  IInv'
<1> USE Sizes, PipeAssumption DEF IInv, PipeCloseWrite, At, Wakes, pipe, locals, hist, bounds
<1>1. TypeOK' BY DEF TypeOK
<1>2. Control'
  <2> USE DEF Control
  <2>1. Members' BY <1>1 DEF TypeOK, Members, Ends
  <2>2. Rights' BY <1>1 DEF TypeOK, Rights, Members, Writing, Reading
  <2>3. Closers' BY <1>1 DEF TypeOK, Closers, Members
  <2>4. OpenEnds' BY <1>1 DEF TypeOK, OpenEnds, Members, Closers
  <2>5. Locked' BY <1>1 DEF TypeOK, Locked, Busy
  <2>6. Started' BY <1>1 DEF TypeOK, Started, Writing, Reading
  <2> QED BY <2>1, <2>2, <2>3, <2>4, <2>5, <2>6
<1>3. Waiting' BY <1>1 DEF TypeOK, Control, Waiting, Locked, Busy, Empty, Full
<1>4. Fresh' BY <1>1 DEF TypeOK, Control, Fresh, Locked, Busy, Started, Writing, Reading, Empty
<1>5. Room' BY DEF Room
<1> QED BY <1>1, <1>2, <1>3, <1>4, <1>5

LEMMA KeepsPipeCloseRead ==
  ASSUME IInv, NEW p \in Procs, PipeCloseRead(p)
  PROVE  IInv'
<1> USE Sizes, PipeAssumption DEF IInv, PipeCloseRead, At, Wakes, pipe, locals, hist, bounds
<1>1. TypeOK' BY DEF TypeOK
<1>2. Control'
  <2> USE DEF Control
  <2>1. Members' BY <1>1 DEF TypeOK, Members, Ends
  <2>2. Rights' BY <1>1 DEF TypeOK, Rights, Members, Writing, Reading
  <2>3. Closers' BY <1>1 DEF TypeOK, Closers, Members
  <2>4. OpenEnds' BY <1>1 DEF TypeOK, OpenEnds, Members, Closers
  <2>5. Locked' BY <1>1 DEF TypeOK, Locked, Busy
  <2>6. Started' BY <1>1 DEF TypeOK, Started, Writing, Reading
  <2> QED BY <2>1, <2>2, <2>3, <2>4, <2>5, <2>6
<1>3. Waiting' BY <1>1 DEF TypeOK, Control, Waiting, Locked, Busy, Empty, Full
<1>4. Fresh' BY <1>1 DEF TypeOK, Control, Fresh, Locked, Busy, Started, Writing, Reading, Empty
<1>5. Room' BY DEF Room
<1> QED BY <1>1, <1>2, <1>3, <1>4, <1>5

LEMMA KeepsFork ==
  ASSUME IInv, NEW p \in Procs, NEW q \in Procs, Fork(p, q)
  PROVE  IInv'
<1> USE Sizes, PipeAssumption DEF IInv, Fork, At, pipe, locals, hist, bounds
<1>1. TypeOK' BY DEF TypeOK
<1>2. Control'
  <2> USE DEF Control
  <2>1. Members' BY <1>1 DEF TypeOK, Members, Ends
  <2>2. Rights' BY <1>1 DEF TypeOK, Rights, Members, Writing, Reading
  <2>3. Closers' BY <1>1 DEF TypeOK, Closers, Members
  <2>4. OpenEnds' BY <1>1 DEF TypeOK, OpenEnds, Members, Closers
  <2>5. Locked' BY <1>1 DEF TypeOK, Locked, Busy
  <2>6. Started' BY <1>1 DEF TypeOK, Started, Writing, Reading
  <2> QED BY <2>1, <2>2, <2>3, <2>4, <2>5, <2>6
<1>3. Waiting' BY <1>1 DEF TypeOK, Control, Waiting, Locked, Busy, Empty, Full
<1>4. Fresh' BY <1>1 DEF TypeOK, Control, Fresh, Locked, Busy, Started, Writing, Reading, Empty
<1>5. Room' BY DEF Room
<1> QED BY <1>1, <1>2, <1>3, <1>4, <1>5

LEMMA KeepsClose ==
  ASSUME IInv, NEW p \in Procs, NEW end \in Ends, Close(p, end)
  PROVE  IInv'
<1> USE Sizes, PipeAssumption DEF IInv
<1>1. TypeOK' BY DEF TypeOK, Close, Closing, At, Goto, Holders, pipe, locals, hist, bounds
<1>2. Control'
  <2> USE DEF Control
  <2>1. Members'
    BY <1>1 DEF TypeOK, Members, Ends, Close, Closing, At, Goto, Holders, pipe, locals, hist,
      bounds
  <2>2. Rights'
    BY <1>1 DEF TypeOK, Rights, Members, Writing, Reading, Close, Closing, At, Goto, Holders,
      pipe, locals, hist, bounds
  <2>3. Closers'
    <3>1. CASE Holders(end) # {p}
      <4>1. \A q \in Procs : holds'[q] \subseteq holds[q] /\ (q # p => pc'[q] = pc[q])
        BY DEF TypeOK, Close, Closing, At, Goto
      <4>2. pc'[p] = "user"
        <5>1. pc' = [pc EXCEPT ![p] = "user"] /\ pc[p] = "user" BY <3>1 DEF Close, Goto, At
        <5> QED BY <5>1 DEF TypeOK
      <4> QED BY <4>1, <4>2 DEF Closers
    <3>2. CASE Holders(end) = {p}
      <4>1. \A q \in Procs : holds'[q] \subseteq holds[q] /\ end \notin holds'[q]
        BY <3>2 DEF TypeOK, Close, Closing, At, Goto, Holders
      <4>2. /\ \A q \in Procs : q # p => pc'[q] = pc[q]
            /\ pc'[p] = IF end = "write" THEN "writeClose" ELSE "readClose"
        BY <3>2 DEF TypeOK, Close, Closing, At, Goto
      <4>3. end = "write" \/ end = "read" BY DEF Ends
      <4>4. /\ end = "write" => \A q \in Procs : pc[q] # "writeClose"
            /\ end = "read" => \A q \in Procs : pc[q] # "readClose"
        BY DEF Closers, Close
      <4> QED BY <4>1, <4>2, <4>3, <4>4 DEF Closers
    <3> QED BY <3>1, <3>2
  <2>4. OpenEnds'
    <3>1. \A q \in Procs : holds'[q] \subseteq holds[q] /\ (q # p => pc'[q] = pc[q])
      BY DEF TypeOK, Close, Closing, At, Goto
    <3>2. /\ pc'[p] = "writeClose" => "write" \in holds[p]
          /\ pc'[p] = "readClose" => "read" \in holds[p]
      BY DEF TypeOK, Close, Closing, At, Goto, Ends
    <3>3. UNCHANGED <<readopen, writeopen, freed>> BY DEF Close, pipe
    <3> QED BY <3>1, <3>2, <3>3 DEF OpenEnds
  <2>5. Locked'
    BY <1>1 DEF TypeOK, Locked, Busy, Close, Closing, At, Goto, Holders, pipe, locals, hist,
      bounds
  <2>6. Started'
    BY <1>1 DEF TypeOK, Started, Writing, Reading, Close, Closing, At, Goto, Holders, pipe,
      locals, hist, bounds
  <2> QED BY <2>1, <2>2, <2>3, <2>4, <2>5, <2>6
<1>3. Waiting'
  BY <1>1 DEF TypeOK, Control, Waiting, Locked, Busy, Empty, Full, Close, Closing, At, Goto,
    Holders, pipe, locals, hist, bounds
<1>4. Fresh'
  BY <1>1 DEF TypeOK, Control, Fresh, Locked, Busy, Started, Writing, Reading, Empty, Close,
    Closing, At, Goto, Holders, pipe, locals, hist, bounds
<1>5. Room' BY DEF Room, Close, Closing, At, Goto, Holders, pipe, locals, hist, bounds
<1> QED BY <1>1, <1>2, <1>3, <1>4, <1>5

LEMMA KeepsKill ==
  ASSUME IInv, NEW p \in Procs, Kill(p)
  PROVE  IInv'
<1> USE Sizes, PipeAssumption DEF IInv
<1>0. /\ UNCHANGED <<data, nread, nwrite, readopen, writeopen, freed>>
      /\ UNCHANGED <<lock, holds, alive, i, n, ended, unannounced, calls>>
  BY DEF Kill, pipe, locals, hist
<1>1. p \in alive /\ kills' \in 0 .. MaxKills /\ killed' \in [Procs -> BOOLEAN]
  <2>1. kills \in 0 .. MaxKills /\ kills < MaxKills /\ kills' = kills + 1 /\ p \in alive
    BY DEF TypeOK, Kill
  <2>2. killed \in [Procs -> BOOLEAN] /\ killed' = [killed EXCEPT ![p] = TRUE]
    BY DEF TypeOK, Kill
  <2> QED BY <2>1, <2>2
<1>2. /\ pc' \in [Procs -> {"user", "writeLock", "write", "writeSleep", "readLock", "read",
                            "copy", "readSleep", "writeClose", "readClose"}]
      /\ \A q \in Procs : \/ pc'[q] = pc[q]
                          \/ q = p /\ pc[q] = "writeSleep" /\ pc'[q] = "writeLock"
                          \/ q = p /\ pc[q] = "readSleep" /\ pc'[q] = "readLock"
  <2> DEFINE next == CASE pc[p] = "writeSleep" -> "writeLock"
                       [] pc[p] = "readSleep" -> "readLock"
                       [] OTHER -> pc[p]
  <2>1. /\ pc' = [pc EXCEPT ![p] = next]
        /\ pc \in [Procs -> {"user", "writeLock", "write", "writeSleep", "readLock", "read",
                             "copy", "readSleep", "writeClose", "readClose"}]
    BY DEF TypeOK, Kill, Goto
  <2>2. \/ pc[p] = "writeSleep" /\ next = "writeLock"
        \/ pc[p] = "readSleep" /\ next = "readLock"
        \/ next = pc[p]
    OBVIOUS
  <2> HIDE DEF next
  <2> QED BY <2>1, <2>2
<1>3. TypeOK' BY <1>0, <1>1, <1>2 DEF TypeOK
<1>4. Control'
  <2>1. Members' BY <1>0, <1>1, <1>2 DEF Control, Members
  <2>2. Rights' BY <1>0, <1>2 DEF Control, Rights, Writing, Reading
  <2>3. Closers' BY <1>0, <1>2 DEF Control, Closers
  <2>4. OpenEnds' BY <1>0, <1>2 DEF Control, OpenEnds
  <2>5. Locked' BY <1>0, <1>2 DEF Control, Locked, Busy
  <2>6. Started' BY <1>0, <1>2 DEF Control, Started, Writing, Reading
  <2> QED BY <2>1, <2>2, <2>3, <2>4, <2>5, <2>6 DEF Control
<1>5. Waiting' BY <1>0, <1>2 DEF Waiting, Empty, Full
<1>6. Fresh' BY <1>0, <1>2 DEF Fresh, Empty
<1>7. Room' BY <1>0 DEF Room
<1> QED BY <1>3, <1>4, <1>5, <1>6, <1>7

LEMMA KeepsExit ==
  ASSUME IInv, NEW p \in Procs, Exit(p)
  PROVE  IInv'
<1> USE Sizes, PipeAssumption DEF IInv, Exit, At, pipe, locals, hist, bounds
<1>1. TypeOK' BY DEF TypeOK
<1>2. Control'
  <2> USE DEF Control
  <2>1. Members' BY <1>1 DEF TypeOK, Members, Ends
  <2>2. Rights' BY <1>1 DEF TypeOK, Rights, Members, Writing, Reading
  <2>3. Closers' BY <1>1 DEF TypeOK, Closers, Members
  <2>4. OpenEnds' BY <1>1 DEF TypeOK, OpenEnds, Members, Closers
  <2>5. Locked' BY <1>1 DEF TypeOK, Locked, Busy
  <2>6. Started' BY <1>1 DEF TypeOK, Started, Writing, Reading
  <2> QED BY <2>1, <2>2, <2>3, <2>4, <2>5, <2>6
<1>3. Waiting' BY <1>1 DEF TypeOK, Control, Waiting, Locked, Busy, Empty, Full
<1>4. Fresh' BY <1>1 DEF TypeOK, Control, Fresh, Locked, Busy, Started, Writing, Reading, Empty
<1>5. Room' BY DEF Room
<1> QED BY <1>1, <1>2, <1>3, <1>4, <1>5

LEMMA NextIInv == IInv /\ [Next]_vars => IInv'
<1> SUFFICES ASSUME IInv, [Next]_vars PROVE IInv'
  OBVIOUS
<1>1. CASE Next
  <2>1. PICK p \in Procs :
          \/ Call(p, "write", "writeLock") \/ Call(p, "read", "readLock")
          \/ InKernel(p)
          \/ \E q \in Procs : Fork(p, q)
          \/ \E end \in Ends : Close(p, end)
          \/ Kill(p) \/ Exit(p)
    BY <1>1 DEF Next
  <2>2. CASE Call(p, "write", "writeLock") \/ Call(p, "read", "readLock")
    BY <2>2, KeepsCallForWrite, KeepsCallForRead
  <2>3. CASE InKernel(p)
    BY <2>3, KeepsAcquireForWrite, KeepsAcquireForRead, KeepsWriteFails, KeepsWriteWaits,
      KeepsWriteByte, KeepsWriteReturns, KeepsReadKilled, KeepsReadWaits, KeepsReadStarts,
      KeepsReadByte, KeepsReadByteLost, KeepsReadReturns, KeepsPipeCloseWrite,
      KeepsPipeCloseRead DEF InKernel
  <2>4. CASE \E q \in Procs : Fork(p, q) BY <2>4, KeepsFork
  <2>5. CASE \E end \in Ends : Close(p, end) BY <2>5, KeepsClose
  <2>6. CASE Kill(p) \/ Exit(p) BY <2>6, KeepsKill, KeepsExit
  <2> QED BY <2>1, <2>2, <2>3, <2>4, <2>5, <2>6
<1>2. CASE UNCHANGED vars
  BY <1>2 DEF IInv, TypeOK, Control, Members, Rights, Closers, OpenEnds, Locked, Started,
    Waiting, Fresh, Room, Empty, Full, vars, pipe, locals, hist, bounds
<1> QED BY <1>1, <1>2

LEMMA Inductive == Spec => []IInv
BY InitIInv, NextIInv, PTL DEF Spec

-----
\* The theorems
\* Counters, ends, owner of the lock and locals of the calls stay in range.
THEOREM TypeCorrect == Spec => []TypeOK
<1>1. IInv => TypeOK BY DEF IInv
<1> QED BY <1>1, Inductive, PTL

\* With pi->lock free, nobody sleeps on a condition of piperead() or pipewrite()
\* that holds, but for the writer killed half way that the property names.
THEOREM Awake == Spec => []NobodyStranded
<1>1. ASSUME IInv, lock = Nobody, NEW p \in Procs
      PROVE  /\ pc[p] = "readSleep" => writeopen /\ (Empty \/ unannounced)
             /\ pc[p] = "writeSleep" => readopen /\ Full
  <2>1. \A q \in Procs : pc[q] \notin Busy BY <1>1, Sizes DEF IInv, Control, Locked
  <2> QED BY <1>1, <2>1 DEF IInv, Waiting, Busy
<1>2. IInv => NobodyStranded BY <1>1 DEF NobodyStranded
<1> QED BY <1>2, Inductive, PTL

\* pipeclose() frees the page after its last use, and an end that a process
\* holds is open.
THEOREM FreedLast == Spec => []FreedUnused
<1>1. ASSUME IInv, freed, NEW p \in Procs
      PROVE  holds[p] = {} /\ pc[p] = "user"
  <2>1. ~ readopen /\ ~ writeopen BY <1>1 DEF IInv, Control, OpenEnds
  <2>2. holds[p] = {}
    <3>1. "read" \notin holds[p] /\ "write" \notin holds[p]
      BY <1>1, <2>1 DEF IInv, Control, OpenEnds
    <3>2. holds[p] \subseteq Ends BY <1>1 DEF IInv, TypeOK
    <3> QED BY <3>1, <3>2 DEF Ends
  <2>3. pc[p] \notin Writing \cup Reading \cup {"writeClose", "readClose"}
    BY <1>1, <2>1, <2>2 DEF IInv, Control, Rights, OpenEnds
  <2> QED BY <1>1, <2>2, <2>3 DEF IInv, TypeOK, Writing, Reading
<1>2. ASSUME IInv, NEW end \in Ends, Holders(end) # {}
      PROVE  IF end = "read" THEN readopen ELSE writeopen
  BY <1>2 DEF IInv, Control, OpenEnds, Holders, Ends
<1>3. IInv => FreedUnused BY <1>1, <1>2 DEF FreedUnused
<1> QED BY <1>3, Inductive, PTL

-----
\* The refinement
LEMMA QueueInit == Init => ByteQ!Init
<1> SUFFICES ASSUME Init PROVE ByteQ!Init
  OBVIOUS
<1>1. TypeOK /\ Empty BY InitIInv DEF Init, IInv, Empty
<1>2. Contents = <<>> BY <1>1, NothingHeld
<1> QED BY <1>2 DEF Init, ByteQ!Init

LEMMA QueueNext == IInv /\ [Next]_vars => [ByteQ!Next]_(ByteQ!vars)
<1> SUFFICES ASSUME IInv, [Next]_vars PROVE [ByteQ!Next]_(ByteQ!vars)
  OBVIOUS
<1>1. ASSUME UNCHANGED <<data, nread, nwrite>> PROVE Contents' = Contents BY <1>1 DEF Contents
<1>2. ASSUME UNCHANGED <<pipe, ended>> PROVE UNCHANGED ByteQ!vars
  BY <1>1, <1>2 DEF pipe, ByteQ!vars
<1>3. ASSUME NEW p \in Procs, WriteByte(p) PROVE ByteQ!Next
  <2>1. PICK b \in Bytes : data' = [data EXCEPT ![nwrite % PIPESIZE] = b] BY <1>3 DEF WriteByte
  <2>2. ~ Full /\ nwrite' = Inc(nwrite) /\ nread' = nread BY <1>3 DEF WriteByte
  <2>3. Contents' = Append(Contents, b) /\ Len(Contents) < PIPESIZE
    BY <2>1, <2>2, ByteIn DEF IInv
  <2>4. writeopen BY <1>3 DEF WriteByte, At, IInv, Control, Rights, OpenEnds, Writing
  <2>5. writeopen' = writeopen /\ ended' = ended BY <1>3 DEF WriteByte, hist
  <2>6. ByteQ!Put(b) BY <2>3, <2>4, <2>5 DEF ByteQ!Put
  <2> QED BY <2>6 DEF ByteQ!Next
<1>4. ASSUME NEW p \in Procs, ReadByte(p) \/ ReadByteLost(p) PROVE ByteQ!Next
  <2>1. /\ ~ Empty /\ data' = data /\ nread' = Inc(nread) /\ nwrite' = nwrite
        /\ writeopen' = writeopen /\ ended' = ended
    BY <1>4 DEF ReadByte, ReadByteLost, hist
  <2>2. Contents' = Tail(Contents) /\ Contents # <<>> BY <2>1, ByteOut DEF IInv
  <2>3. ByteQ!Get BY <2>1, <2>2 DEF ByteQ!Get
  <2> QED BY <2>3 DEF ByteQ!Next
<1>5. ASSUME NEW p \in Procs, PipeCloseWrite(p) PROVE ByteQ!Next
  <2>1. Contents' = Contents BY <1>1, <1>5 DEF PipeCloseWrite
  <2> QED BY <1>5, <2>1 DEF PipeCloseWrite, ByteQ!Next, ByteQ!Close
<1>6. ASSUME NEW p \in Procs, ReadReturns(p) PROVE [ByteQ!Next]_(ByteQ!vars)
  <2>1. Contents' = Contents /\ writeopen' = writeopen BY <1>1, <1>6 DEF ReadReturns, pipe
  <2>2. CASE i[p] # 0
    <3>1. ended' = ended BY <1>6, <2>2 DEF ReadReturns, IInv, TypeOK
    <3> QED BY <2>1, <3>1 DEF ByteQ!vars
  <2>3. CASE i[p] = 0
    <3>1. n[p] > 0 /\ pc[p] = "copy"
      BY <1>6 DEF ReadReturns, At, IInv, Control, Started, Reading
    <3>2. Empty /\ ~ writeopen BY <1>6, <2>3, <3>1 DEF ReadReturns, IInv, Fresh
    <3>3. Contents = <<>> BY <3>2, NothingHeld DEF IInv
    <3>4. ended' = TRUE BY <1>6, <2>3 DEF ReadReturns
    <3> QED BY <2>1, <3>2, <3>3, <3>4 DEF ByteQ!Next, ByteQ!End
  <2> QED BY <2>2, <2>3
<1>7. ASSUME NEW p \in Procs, PipeCloseRead(p) PROVE UNCHANGED ByteQ!vars
  <2>1. Contents' = Contents BY <1>1, <1>7 DEF PipeCloseRead
  <2> QED BY <1>7, <2>1 DEF PipeCloseRead, hist, ByteQ!vars
<1>8. CASE Next
  <2>1. PICK p \in Procs :
          \/ Call(p, "write", "writeLock") \/ Call(p, "read", "readLock")
          \/ InKernel(p)
          \/ \E q \in Procs : Fork(p, q)
          \/ \E end \in Ends : Close(p, end)
          \/ Kill(p) \/ Exit(p)
    BY <1>8 DEF Next
  <2>2. CASE InKernel(p)
    <3>1. CASE \/ Acquire(p, "writeLock", "write") \/ Acquire(p, "readLock", "read")
               \/ WriteFails(p) \/ WriteWaits(p) \/ WriteReturns(p)
               \/ ReadKilled(p) \/ ReadWaits(p) \/ ReadStarts(p)
      <4>1. UNCHANGED <<pipe, ended>>
        BY <3>1 DEF Acquire, WriteFails, WriteWaits, WriteReturns, ReadKilled, ReadWaits,
          ReadStarts, hist
      <4> QED BY <4>1, <1>2
    <3> QED BY <2>2, <3>1, <1>3, <1>4, <1>5, <1>6, <1>7 DEF InKernel
  <2>3. CASE ~ InKernel(p)
    <3>1. UNCHANGED <<pipe, ended>> BY <2>1, <2>3 DEF Call, Fork, Close, Kill, Exit, hist
    <3> QED BY <3>1, <1>2
  <2> QED BY <2>2, <2>3
<1>9. CASE UNCHANGED vars BY <1>2, <1>9 DEF vars, hist
<1> QED BY <1>8, <1>9

\* pipe.c implements a bounded queue of bytes with an end: what pipewrite() puts
\* in leaves in order, once, and read() returns 0 only after the last writer.
THEOREM Refinement == Spec => IsByteQueue
<1>1. Init => ByteQ!Init BY QueueInit
<1>2. IInv /\ [Next]_vars => [ByteQ!Next]_(ByteQ!vars) BY QueueNext
<1> QED BY <1>1, <1>2, Inductive, PTL DEF Spec, IsByteQueue, ByteQ!Spec

-----
\* Arrangements: queues made of others by sorting and leaving out.
\* A strict total order of S.
Orders(before, S) ==
  /\ \A x \in S : <<x, x>> \notin before
  /\ \A x, y \in S : x = y \/ <<x, y>> \in before \/ <<y, x>> \in before
  /\ \A x, y, z \in S : <<x, y>> \in before /\ <<y, z>> \in before => <<x, z>> \in before

\* In an arrangement of S each member has one place, and the places are in order.
LEMMA ArrangedIs ==
  ASSUME NEW S, IsFiniteSet(S), NEW before, Orders(before, S)
  PROVE  LET a == Arranged(S, before)
         IN  /\ a \in Seq(S) /\ Len(a) = Cardinality(S)
             /\ \A x \in S : \E k \in DOMAIN a : a[k] = x
             /\ \A u, j \in DOMAIN a : u < j <=> <<a[u], a[j]>> \in before
             /\ \A u, j \in DOMAIN a : a[u] = a[j] => u = j
             /\ \A k \in DOMAIN a : Cardinality({y \in S : <<y, a[k]>> \in before}) = k - 1
<1> DEFINE Below(x) == {y \in S : <<y, x>> \in before}
           v == Cardinality(S)
<1>1. v \in Nat /\ IsFiniteSet(S) BY FS_CardinalityType
<1>2. \A x : Below(x) \subseteq S /\ \A y \in S : y \in Below(x) <=> <<y, x>> \in before
  OBVIOUS
<1> HIDE DEF Below
<1>3. ASSUME NEW x \in S
      PROVE  IsFiniteSet(Below(x)) /\ Cardinality(Below(x)) \in Nat /\ Cardinality(Below(x)) + 1 \in 1 .. v
  <2>1. IsFiniteSet(Below(x)) /\ Cardinality(Below(x)) \in Nat
    BY <1>1, <1>2, FS_Subset, FS_CardinalityType
  <2>2. IsFiniteSet(S \ {x}) /\ Cardinality(S \ {x}) = v - 1 BY <1>1, FS_RemoveElement
  <2>3. Below(x) \in SUBSET (S \ {x}) BY <1>2 DEF Orders
  <2>4. Cardinality(Below(x)) <= Cardinality(S \ {x}) BY <2>2, <2>3, FS_Subset
  <2> HIDE DEF v
  <2> QED BY <1>1, <2>1, <2>2, <2>4
<1> HIDE DEF v
<1>4. ASSUME NEW x \in S, NEW y \in S, <<x, y>> \in before
      PROVE  Cardinality(Below(x)) < Cardinality(Below(y))
  <2>1. Below(x) \cup {x} \in SUBSET Below(y) /\ x \notin Below(x)
    <3>1. x \notin Below(x) /\ x \in Below(y) BY <1>2, <1>4 DEF Orders
    <3>2. ASSUME NEW z \in Below(x) PROVE z \in Below(y) BY <1>2, <1>4 DEF Orders
    <3> QED BY <3>1, <3>2
  <2>2. Cardinality(Below(x) \cup {x}) = Cardinality(Below(x)) + 1 BY <1>3, <2>1, FS_AddElement
  <2>3. Cardinality(Below(x) \cup {x}) <= Cardinality(Below(y)) BY <1>3, <2>1, FS_Subset
  <2> QED BY <1>3, <2>2, <2>3
<1> DEFINE f == [x \in S |-> Cardinality(Below(x)) + 1]
<1>5. f \in [S -> 1 .. v] /\ \A x \in S : f[x] = Cardinality(Below(x)) + 1 BY <1>3
<1> HIDE DEF f
<1>6. ASSUME NEW x \in S, NEW y \in S, <<x, y>> \in before PROVE f[x] < f[y]
  BY <1>3, <1>4, <1>5, <1>6
<1>7. ASSUME NEW x \in S, NEW y \in S, f[x] = f[y] PROVE x = y
  <2>1. ~ f[x] < f[y] /\ ~ f[y] < f[x] BY <1>1, <1>5, <1>7
  <2>2. x = y \/ <<x, y>> \in before \/ <<y, x>> \in before BY DEF Orders
  <2> QED BY <1>6, <2>1, <2>2
<1>8. f \in Injection(S, 1 .. v) BY <1>5, <1>7 DEF Injection, IsInjective
<1>9. IsFiniteSet(1 .. v) /\ Cardinality(1 .. v) = Cardinality(S) BY <1>1, FS_Interval DEF v
<1>10. f \in Surjection(S, 1 .. v) BY <1>8, <1>9, FS_Injection
<1>11. \A k \in 1 .. v : \E x \in S : f[x] = k BY <1>10 DEF Surjection
<1> DEFINE a == Arranged(S, before)
<1>12. a = [k \in 1 .. v |-> CHOOSE x \in S : Cardinality(Below(x)) = k - 1]
  BY DEF Arranged, v, Below
<1> HIDE DEF a
<1>13. ASSUME NEW k \in 1 .. v PROVE a[k] \in S /\ f[a[k]] = k /\ Cardinality(Below(a[k])) = k - 1
  <2>1. PICK x \in S : f[x] = k BY <1>11
  <2>2. Cardinality(Below(x)) = k - 1 BY <1>1, <1>3, <1>5, <2>1
  <2>3. a[k] = CHOOSE z \in S : Cardinality(Below(z)) = k - 1 BY <1>12
  <2>4. a[k] \in S /\ Cardinality(Below(a[k])) = k - 1 BY <2>2, <2>3
  <2> QED BY <1>1, <1>5, <2>4
<1>14. DOMAIN a = 1 .. v /\ a = [k \in 1 .. v |-> a[k]] BY <1>12
<1>15. a \in Seq(S) /\ Len(a) = v BY <1>1, <1>13, <1>14
<1>16. \A x \in S : \E k \in 1 .. v : a[k] = x BY <1>5, <1>7, <1>13
<1>17. ASSUME NEW u \in 1 .. v, NEW j \in 1 .. v PROVE u < j <=> <<a[u], a[j]>> \in before
  <2>1. a[u] \in S /\ a[j] \in S /\ f[a[u]] = u /\ f[a[j]] = j BY <1>13
  <2>2. a[u] = a[j] \/ <<a[u], a[j]>> \in before \/ <<a[j], a[u]>> \in before BY <2>1 DEF Orders
  <2>3. CASE <<a[u], a[j]>> \in before BY <1>6, <2>1, <2>3
  <2>4. CASE a[u] = a[j] BY <1>1, <2>1, <2>4 DEF Orders
  <2>5. CASE <<a[j], a[u]>> \in before
    <3>1. f[a[j]] < f[a[u]] BY <1>6, <2>1, <2>5
    <3>2. <<a[u], a[j]>> \notin before BY <2>1, <2>5 DEF Orders
    <3> QED BY <1>1, <2>1, <3>1, <3>2
  <2> QED BY <2>2, <2>3, <2>4, <2>5
<1>18. \A u, j \in 1 .. v : a[u] = a[j] => u = j BY <1>13
<1>19. \A k \in 1 .. v : Cardinality({y \in S : <<y, a[k]>> \in before}) = k - 1
  BY <1>13 DEF Below
<1> QED BY <1>14, <1>15, <1>16, <1>17, <1>18, <1>19 DEF a, v

\* Leaving elements out keeps the others, each once, in their order.
LEMMA KeptIs ==
  ASSUME NEW T, NEW s \in Seq(T), NEW K, K \subseteq DOMAIN s
  PROVE  LET q == Kept(s, K)
         IN  /\ q \in Seq(T)
             /\ \E at \in [DOMAIN q -> K] :
                  /\ \A k \in DOMAIN q : q[k] = s[at[k]]
                  /\ \A u \in K : \E k \in DOMAIN q : at[k] = u
                  /\ \A u, j \in DOMAIN q : u < j <=> at[u] < at[j]
<1> DEFINE before == {w \in K \X K : w[1] < w[2]}
           at == Arranged(K, before)
           q == Kept(s, K)
<1>1. K \subseteq 1 .. Len(s) /\ Len(s) \in Nat OBVIOUS
<1>2. IsFiniteSet(K)
  <2>1. IsFiniteSet(1 .. Len(s)) BY <1>1, FS_Interval
  <2> QED BY <1>1, <2>1, FS_Subset
<1>3. \A u, j \in K : <<u, j>> \in before <=> u < j OBVIOUS
<1>4. Orders(before, K)
  <2>1. \A u \in K : u \in Int BY <1>1
  <2> HIDE DEF before
  <2> QED BY <1>3, <2>1 DEF Orders
<1> HIDE DEF before
<1>5. /\ at \in Seq(K)
      /\ \A x \in K : \E k \in DOMAIN at : at[k] = x
      /\ \A u, j \in DOMAIN at : u < j <=> <<at[u], at[j]>> \in before
      /\ \A k \in DOMAIN at : Cardinality({y \in K : <<y, at[k]>> \in before}) = k - 1
      /\ Len(at) = Cardinality(K)
  BY <1>2, <1>4, ArrangedIs
<1>6. q = [k \in DOMAIN at |-> s[at[k]]]
  <2> HIDE DEF at
  <2>1. DOMAIN at = 1 .. Cardinality(K) BY <1>5
  <2>2. \A u \in K : {j \in K : <<j, u>> \in before} = {j \in K : j < u} BY <1>3
  <2>3. \A k \in DOMAIN at : at[k] \in K /\ Cardinality({j \in K : j < at[k]}) = k - 1
    BY <1>5, <2>2
  <2> DEFINE Pos(k) == CHOOSE u \in K : Cardinality({j \in K : j < u}) = k - 1
  <2>4. ASSUME NEW k \in DOMAIN at
        PROVE  at[k] = Pos(k)
    <3>1. PICK c : c = Pos(k) OBVIOUS
    <3>2. c \in K /\ Cardinality({j \in K : j < c}) = k - 1 BY <2>3, <3>1
    <3>3. PICK m \in DOMAIN at : at[m] = c BY <1>5, <3>2
    <3>4. k \in Int /\ m \in Int /\ m - 1 = k - 1 BY <2>1, <2>3, <3>2, <3>3
    <3>5. m = k BY <3>4
    <3> HIDE DEF Pos
    <3> QED BY <3>1, <3>3, <3>5
  <2>5. q = [k \in 1 .. Cardinality(K) |-> s[Pos(k)]] BY DEF Kept
  <2> HIDE DEF Pos, q
  <2> QED BY <2>1, <2>4, <2>5
<1> HIDE DEF at, q
<1>7. DOMAIN at = 1 .. Len(at) /\ Len(at) \in Nat /\ at \in [DOMAIN at -> K] BY <1>5
<1>8. DOMAIN q = DOMAIN at /\ \A k \in DOMAIN q : q[k] = s[at[k]] /\ at[k] \in K BY <1>6, <1>7
<1>9. q \in Seq(T)
  <2>1. \A k \in DOMAIN at : s[at[k]] \in T BY <1>1, <1>8
  <2> QED BY <1>6, <1>7, <2>1
<1>10. \A u, j \in DOMAIN q : u < j <=> at[u] < at[j] BY <1>3, <1>5, <1>8
<1>11. at \in [DOMAIN q -> K] BY <1>7, <1>8
<1> QED BY <1>5, <1>8, <1>9, <1>10, <1>11 DEF q

\* A set of numbers has a smallest one.
LEMMA Smallest ==
  ASSUME NEW S, S \subseteq Nat, S # {}
  PROVE  \E x \in S : \A y \in S : x <= y
<1> DEFINE R == OpToRel(<, Nat)
<1>1. IsWellFoundedOn(R, Nat) BY NatLessThanWellFounded, Zenon
<1> HIDE DEF R
<1>2. PICK x \in S : \A y \in S : ~ (<<y, x>> \in R) BY <1>1, WFMin, Zenon
<1>3. \A y \in S : ~ (y < x) BY <1>2 DEF R, OpToRel
<1> QED BY <1>3

-----
\* MlfqNaive, for every input file and every quantum and threshold.  A
\* process at level 4 waits for those ahead of it, each for a quantum at
\* most, and for one that may have the CPU to its end.
\* Those who have arrived and not finished, and what a queue may hold.
Live == scheduled \ finished
Copies == [id : Processes, remaining : Nat, justin : BOOLEAN]

\* The types of the state; no process is twice in the list.
NaiveTypeOK ==
  /\ processList \in Seq(Ids) /\ \A u, j \in DOMAIN processList : processList[u] = processList[j] => u = j
  /\ currLevel \in [Processes -> Levels] /\ remainingTime \in [Processes -> Nat]
  /\ timeSinceLastRun \in [Processes -> Nat] /\ runningSince \in [Processes -> Nat \cup {NotRunning}]
  /\ scheduled \subseteq Processes /\ finished \subseteq scheduled
  /\ Q \in [Levels -> Seq(Copies)]
  /\ t \in Nat /\ part \in {"insert", "start", "run", "age", "order"}

\* The copies of a queue are of the processes S, one of each.
HasCopies(q, S) ==
  /\ \A k \in DOMAIN q : q[k].id \in S
  /\ \A p \in S : \E k \in DOMAIN q : q[k].id = p
  /\ \A u, j \in DOMAIN q : q[u].id = q[j].id => u = j

\* The copies of a queue are of its level's processes; those of all but the one that runs
\* tell the remaining time of the table.
Placed == \A l \in Levels : HasCopies(Q[l], {p \in Live : currLevel[p] = l})
UpToDate ==
  \A l \in Levels : \A k \in DOMAIN Q[l] :
    Q[l][k].id \notin Running => Q[l][k].remaining = remainingTime[Q[l][k].id]
OneRuns == Running \subseteq Live /\ \A p, r \in Running : p = r

\* The inductive invariant of the queues.
QueuesInv == NaiveTypeOK /\ Placed /\ UpToDate /\ OneRuns

\* Every copy of s is one of q.
From(s, q) == \A k \in DOMAIN s : \E u \in DOMAIN q : s[k] = q[u]

\* In q the copy of a is ahead of that of b.
Before(q, a, b) == \E u, j \in DOMAIN q : u < j /\ q[u].id = a /\ q[j].id = b

-----
\* What is known of a queue that is made of another.
LEMMA KeptCopies ==
  ASSUME NEW T, NEW q \in Seq(T), NEW S, HasCopies(q, S), NEW K, K \subseteq DOMAIN q
  PROVE  LET s == Kept(q, K)
         IN  /\ s \in Seq(T)
             /\ HasCopies(s, {q[k].id : k \in K})
             /\ From(s, q)
             /\ \A a, b : Before(s, a, b) => Before(q, a, b)
             /\ \A a, b : (\E u, j \in K : u < j /\ q[u].id = a /\ q[j].id = b) <=> Before(s, a, b)
<1> DEFINE s == Kept(q, K)
<1>1. /\ s \in Seq(T)
      /\ \E at \in [DOMAIN s -> K] :
           /\ \A k \in DOMAIN s : s[k] = q[at[k]]
           /\ \A u \in K : \E k \in DOMAIN s : at[k] = u
           /\ \A u, j \in DOMAIN s : u < j <=> at[u] < at[j]
  BY KeptIs
<1> HIDE DEF s
<1>2. PICK at \in [DOMAIN s -> K] :
           /\ \A k \in DOMAIN s : s[k] = q[at[k]]
           /\ \A u \in K : \E k \in DOMAIN s : at[k] = u
           /\ \A u, j \in DOMAIN s : u < j <=> at[u] < at[j]
  BY <1>1
<1>3. DOMAIN s \subseteq Int /\ DOMAIN q \subseteq Int BY <1>1
<1>4. \A k \in DOMAIN s : at[k] \in K /\ at[k] \in DOMAIN q /\ s[k] = q[at[k]] BY <1>2
<1>5. HasCopies(s, {q[k].id : k \in K})
  <2>1. ASSUME NEW u \in DOMAIN s, NEW j \in DOMAIN s, s[u].id = s[j].id PROVE u = j
    <3>1. at[u] = at[j] BY <1>4, <2>1 DEF HasCopies
    <3>2. ~ at[u] < at[j] /\ ~ at[j] < at[u] BY <1>3, <1>4, <3>1
    <3>3. ~ u < j /\ ~ j < u BY <1>2, <3>2
    <3> QED BY <1>3, <3>3
  <2>2. \A k \in DOMAIN s : s[k].id \in {q[u].id : u \in K} BY <1>4
  <2>3. \A p \in {q[u].id : u \in K} : \E k \in DOMAIN s : s[k].id = p BY <1>2
  <2> QED BY <2>1, <2>2, <2>3 DEF HasCopies
<1>6. From(s, q) BY <1>4 DEF From
<1>7. ASSUME NEW a, NEW b, Before(s, a, b)
      PROVE  \E u, j \in K : u < j /\ q[u].id = a /\ q[j].id = b
  <2>1. PICK u \in DOMAIN s, j \in DOMAIN s : u < j /\ s[u].id = a /\ s[j].id = b
    BY <1>7 DEF Before
  <2>2. at[u] < at[j] BY <1>2, <2>1
  <2> QED BY <1>4, <2>1, <2>2
<1>8. ASSUME NEW a, NEW b, NEW u \in K, NEW j \in K, u < j /\ q[u].id = a /\ q[j].id = b
      PROVE  Before(s, a, b)
  <2>1. PICK k \in DOMAIN s : at[k] = u BY <1>2
  <2>2. PICK m \in DOMAIN s : at[m] = j BY <1>2
  <2>3. k < m BY <1>2, <1>8, <2>1, <2>2
  <2> QED BY <1>4, <1>8, <2>1, <2>2, <2>3 DEF Before
<1>9. ASSUME NEW a, NEW b, Before(s, a, b)
      PROVE  Before(q, a, b)
  <2>1. PICK u \in K, j \in K : u < j /\ q[u].id = a /\ q[j].id = b BY <1>7, <1>9
  <2> QED BY <2>1 DEF Before
<1> QED BY <1>1, <1>5, <1>6, <1>7, <1>8, <1>9 DEF s

\* Two queues of different processes, one behind the other.
LEMMA JoinedCopies ==
  ASSUME NEW T, NEW q \in Seq(T), NEW r \in Seq(T), NEW S, NEW U,
         HasCopies(q, S), HasCopies(r, U), S \cap U = {}
  PROVE  /\ q \o r \in Seq(T)
         /\ HasCopies(q \o r, S \cup U)
         /\ \A k \in DOMAIN (q \o r) : \/ k \in DOMAIN q /\ (q \o r)[k] = q[k]
                                       \/ k - Len(q) \in DOMAIN r /\ (q \o r)[k] = r[k - Len(q)]
         /\ \A a, b : Before(q \o r, a, b) => \/ b \in U
                                              \/ a \in S /\ b \in S /\ Before(q, a, b)
<1> DEFINE s == q \o r
<1>1. /\ s \in Seq(T) /\ Len(s) = Len(q) + Len(r) /\ Len(q) \in Nat /\ Len(r) \in Nat
      /\ DOMAIN s = 1 .. Len(s) /\ DOMAIN q = 1 .. Len(q) /\ DOMAIN r = 1 .. Len(r)
  OBVIOUS
<1>2. \A k \in 1 .. Len(q) : s[k] = q[k] BY <1>1
<1>3. \A k \in 1 .. Len(r) : k + Len(q) \in DOMAIN s /\ s[k + Len(q)] = r[k] BY <1>1
<1>4. ASSUME NEW k \in DOMAIN s
      PROVE  \/ k \in DOMAIN q /\ s[k] = q[k]
             \/ k \notin DOMAIN q /\ k - Len(q) \in DOMAIN r /\ s[k] = r[k - Len(q)]
  <2>1. CASE k <= Len(q) BY <1>1, <1>2, <2>1
  <2>2. CASE k > Len(q)
    <3>1. k - Len(q) \in 1 .. Len(r) /\ (k - Len(q)) + Len(q) = k BY <1>1, <2>2
    <3>2. s[(k - Len(q)) + Len(q)] = r[k - Len(q)] BY <1>3, <3>1
    <3> QED BY <1>1, <2>2, <3>1, <3>2
  <2> QED BY <1>1, <2>1, <2>2
<1> HIDE DEF s
<1>5. HasCopies(s, S \cup U)
  <2>1. \A k \in DOMAIN s : s[k].id \in S \cup U BY <1>4 DEF HasCopies
  <2>2. \A p \in S \cup U : \E k \in DOMAIN s : s[k].id = p
    <3>1. ASSUME NEW p \in S PROVE \E k \in DOMAIN s : s[k].id = p
      <4>1. PICK k \in DOMAIN q : q[k].id = p BY DEF HasCopies
      <4> QED BY <1>1, <1>2, <4>1
    <3>2. ASSUME NEW p \in U PROVE \E k \in DOMAIN s : s[k].id = p
      <4>1. PICK k \in DOMAIN r : r[k].id = p BY DEF HasCopies
      <4> QED BY <1>1, <1>3, <4>1
    <3> QED BY <3>1, <3>2
  <2>3. ASSUME NEW u \in DOMAIN s, NEW j \in DOMAIN s, s[u].id = s[j].id PROVE u = j
    <3>1. CASE u \in DOMAIN q /\ j \in DOMAIN q BY <1>4, <2>3, <3>1 DEF HasCopies
    <3>2. CASE u \notin DOMAIN q /\ j \notin DOMAIN q
      <4>1. u - Len(q) = j - Len(q) BY <1>4, <2>3, <3>2 DEF HasCopies
      <4> QED BY <1>1, <4>1
    <3>3. CASE (u \in DOMAIN q) # (j \in DOMAIN q) BY <1>4, <2>3, <3>3 DEF HasCopies
    <3> QED BY <3>1, <3>2, <3>3
  <2> QED BY <2>1, <2>2, <2>3 DEF HasCopies
<1>6. ASSUME NEW a, NEW b, Before(s, a, b), b \notin U
      PROVE  a \in S /\ b \in S /\ Before(q, a, b)
  <2>1. PICK u \in DOMAIN s, j \in DOMAIN s : u < j /\ s[u].id = a /\ s[j].id = b
    BY <1>6 DEF Before
  <2>2. j \in DOMAIN q /\ s[j] = q[j] BY <1>4, <1>6, <2>1 DEF HasCopies
  <2>3. u \in DOMAIN q /\ s[u] = q[u] BY <1>1, <1>2, <2>1, <2>2
  <2> QED BY <2>1, <2>2, <2>3 DEF HasCopies, Before
<1> QED BY <1>1, <1>4, <1>5, <1>6 DEF s

\* What is left of a queue without some processes: the copies of the others, in their order.
LEMMA WithoutIs ==
  ASSUME NEW T, NEW l \in Levels, Q[l] \in Seq(T), NEW S, HasCopies(Q[l], S), NEW ps
  PROVE  /\ Without(l, ps) \in Seq(T)
         /\ HasCopies(Without(l, ps), S \ ps)
         /\ From(Without(l, ps), Q[l])
         /\ \A a, b : Before(Without(l, ps), a, b) => Before(Q[l], a, b)
<1>1. PICK q : q = Q[l] OBVIOUS
<1>2. PICK K : K = {k \in DOMAIN q : q[k].id \notin ps} OBVIOUS
<1>3. q \in Seq(T) /\ HasCopies(q, S) /\ K \subseteq DOMAIN q /\ Without(l, ps) = Kept(q, K)
  BY <1>1, <1>2 DEF Without
<1>4. {q[k].id : k \in K} = S \ ps BY <1>2, <1>3 DEF HasCopies
<1>5. /\ Kept(q, K) \in Seq(T)
      /\ HasCopies(Kept(q, K), {q[k].id : k \in K})
      /\ From(Kept(q, K), q)
      /\ \A a, b : Before(Kept(q, K), a, b) => Before(q, a, b)
  <2>1. Kept(q, K) \in Seq(T) BY <1>3, KeptCopies
  <2>2. HasCopies(Kept(q, K), {q[k].id : k \in K}) BY <1>3, KeptCopies
  <2>3. From(Kept(q, K), q) /\ \A a, b : Before(Kept(q, K), a, b) => Before(q, a, b)
    BY <1>3, KeptCopies, Zenon
  <2> QED BY <2>1, <2>2, <2>3
<1> QED BY <1>1, <1>3, <1>4, <1>5

\* New copies are of the processes asked for, with the remaining times of the table.
LEMMA CopiesOfIs ==
  ASSUME NaiveTypeOK, NEW ps \in SUBSET Processes
  PROVE  /\ CopiesOf(ps) \in Seq(Copies)
         /\ HasCopies(CopiesOf(ps), ps)
         /\ \A k \in DOMAIN CopiesOf(ps) :
              CopiesOf(ps)[k] = Copy(CopiesOf(ps)[k].id, remainingTime[CopiesOf(ps)[k].id])
<1> DEFINE K == {k \in DOMAIN processList : processList[k] \in ps}
           list == Kept(processList, K)
<1>1. K \subseteq DOMAIN processList /\ processList \in Seq(Ids) BY DEF NaiveTypeOK
<1>2. CopiesOf(ps) = [k \in DOMAIN list |-> Copy(list[k], remainingTime[list[k]])]
  BY DEF CopiesOf
<1>3. /\ list \in Seq(Ids)
      /\ \E at \in [DOMAIN list -> K] :
           /\ \A k \in DOMAIN list : list[k] = processList[at[k]]
           /\ \A u \in K : \E k \in DOMAIN list : at[k] = u
           /\ \A u, j \in DOMAIN list : u < j <=> at[u] < at[j]
  <2> HIDE DEF K
  <2> QED BY <1>1, KeptIs
<1> HIDE DEF list
<1>4. PICK at \in [DOMAIN list -> K] :
           /\ \A k \in DOMAIN list : list[k] = processList[at[k]]
           /\ \A u \in K : \E k \in DOMAIN list : at[k] = u
           /\ \A u, j \in DOMAIN list : u < j <=> at[u] < at[j]
  BY <1>3
<1>5. \A k \in DOMAIN list : at[k] \in DOMAIN processList /\ list[k] \in ps /\ list[k] = processList[at[k]]
  BY <1>4
<1>6. DOMAIN list = 1 .. Len(list) /\ Len(list) \in Nat /\ DOMAIN processList \subseteq Int
  BY <1>1, <1>3
<1>7. ASSUME NEW u \in DOMAIN list, NEW j \in DOMAIN list, list[u] = list[j] PROVE u = j
  <2>1. at[u] = at[j] BY <1>5, <1>7 DEF NaiveTypeOK
  <2>2. ~ at[u] < at[j] /\ ~ at[j] < at[u] BY <1>5, <1>6, <2>1
  <2>3. ~ u < j /\ ~ j < u BY <1>4, <2>2
  <2> QED BY <1>6, <2>3
<1>8. ASSUME NEW p \in ps PROVE \E k \in DOMAIN list : list[k] = p
  <2>1. p \in Processes OBVIOUS
  <2>2. PICK u \in DOMAIN processList : processList[u] = p BY <2>1 DEF Processes, ToSet
  <2>3. u \in K BY <2>2
  <2> QED BY <1>4, <2>2, <2>3
<1>9. \A k \in DOMAIN list : Copy(list[k], remainingTime[list[k]]) \in Copies
  BY <1>5 DEF Copy, Copies, NaiveTypeOK
<1>10. CopiesOf(ps) \in Seq(Copies) /\ DOMAIN CopiesOf(ps) = DOMAIN list BY <1>2, <1>6, <1>9
<1>11. \A k \in DOMAIN list : /\ CopiesOf(ps)[k] = Copy(list[k], remainingTime[list[k]])
                             /\ CopiesOf(ps)[k].id = list[k]
  BY <1>2 DEF Copy
<1> QED BY <1>5, <1>7, <1>8, <1>10, <1>11 DEF HasCopies

\* The first of the shortest of a queue that is not empty.
LEMMA ShortestIs ==
  ASSUME NEW q \in Seq(Copies), q # <<>>
  PROVE  \E k \in DOMAIN q : Shortest(q) = q[k].id
<1> DEFINE S == {q[k].remaining : k \in DOMAIN q}
           First(k) == /\ \A m \in DOMAIN q : q[k].remaining <= q[m].remaining
                       /\ \A m \in 1 .. k - 1 : q[k].remaining < q[m].remaining
<1>1. /\ DOMAIN q = 1 .. Len(q) /\ Len(q) \in Nat /\ 1 \in DOMAIN q
      /\ \A k \in DOMAIN q : q[k].remaining \in Nat
  <2>1. DOMAIN q = 1 .. Len(q) /\ Len(q) \in Nat /\ Len(q) # 0 OBVIOUS
  <2>2. \A k \in DOMAIN q : q[k] \in Copies OBVIOUS
  <2> QED BY <2>1, <2>2 DEF Copies
<1>2. S \subseteq Nat /\ S # {} BY <1>1
<1>3. PICK x \in S : \A y \in S : x <= y
  <2> HIDE DEF S
  <2> QED BY <1>2, Smallest
<1> DEFINE K == {k \in DOMAIN q : q[k].remaining = x}
<1>4. K \subseteq Nat /\ K # {} BY <1>1
<1>5. PICK k \in K : \A m \in K : k <= m
  <2> HIDE DEF K
  <2> QED BY <1>4, Smallest
<1>6. \A m \in DOMAIN q : q[m].remaining \in S /\ x <= q[m].remaining BY <1>3
<1>7. k \in DOMAIN q /\ q[k].remaining = x /\ x \in Nat BY <1>2
<1>8. ASSUME NEW m \in 1 .. k - 1 PROVE q[k].remaining < q[m].remaining
  <2>1. m \in DOMAIN q /\ m < k BY <1>1, <1>7
  <2>2. m \notin K BY <1>1, <1>5, <1>7, <2>1
  <2> QED BY <1>1, <1>6, <1>7, <2>1, <2>2
<1>9. First(k) BY <1>6, <1>7, <1>8
<1>10. (CHOOSE u \in DOMAIN q : First(u)) \in DOMAIN q
  <2> HIDE DEF First
  <2> QED BY <1>7, <1>9
<1> QED BY <1>10 DEF Shortest

\* Before the first tick the queues are empty and nobody has arrived.
LEMMA NaiveInitIs ==
  ASSUME NaiveInit
  PROVE  QueuesInv
<1>1. PICK S \in SUBSET Ids : processList \in SetToSeqs(S) BY DEF NaiveInit
<1>2. IsFiniteSet(S) /\ Cardinality(S) \in Nat BY NaiveAssumption, FS_Subset, FS_CardinalityType
<1>3. /\ processList \in [1 .. Cardinality(S) -> S]
      /\ \A u, j \in 1 .. Cardinality(S) : u # j => processList[u] # processList[j]
  BY <1>1 DEF SetToSeqs
<1>4. processList \in Seq(Ids) /\ DOMAIN processList = 1 .. Cardinality(S) BY <1>2, <1>3
<1>5. Live = {} /\ Running = {} BY DEF NaiveInit, Live, Running
<1>6. NaiveTypeOK
  <2>1. /\ currLevel \in [Processes -> Levels] /\ remainingTime \in [Processes -> Nat]
        /\ timeSinceLastRun \in [Processes -> Nat] /\ runningSince \in [Processes -> Nat \cup {NotRunning}]
    BY NaiveAssumption DEF NaiveInit
  <2>2. Q \in [Levels -> Seq(Copies)] BY DEF NaiveInit
  <2>3. scheduled \subseteq Processes /\ finished \subseteq scheduled /\ t \in Nat /\ part = "insert"
    BY DEF NaiveInit
  <2> QED BY <1>3, <1>4, <2>1, <2>2, <2>3 DEF NaiveTypeOK
<1>7. \A l \in Levels : Q[l] = <<>> BY DEF NaiveInit
<1>8. Placed BY <1>5, <1>7 DEF Placed, HasCopies
<1>9. UpToDate BY <1>7 DEF UpToDate
<1> QED BY <1>5, <1>6, <1>8, <1>9 DEF QueuesInv, OneRuns

\* Who arrives is put into one queue, that of its level.
LEMMA InsertKeeps ==
  ASSUME QueuesInv, Insert
  PROVE  QueuesInv'
<1> DEFINE arrive == {p \in Processes \ scheduled : arrivalTime[p] = t}
           Come(l) == {p \in arrive : currLevel[p] = l}
<1>1. /\ Q' = [l \in Levels |-> Q[l] \o CopiesOf(Come(l))]
      /\ scheduled' = scheduled \cup arrive /\ part' = "start"
      /\ UNCHANGED <<processList, arrivalTime, currLevel, remainingTime, timeSinceLastRun,
                     runningSince, finished, t>>
  BY DEF Insert
<1>2. Processes' = Processes /\ Running' = Running /\ Copies' = Copies
  BY <1>1 DEF Processes, Running, Copies
<1>3. arrive \subseteq Processes /\ arrive \cap scheduled = {} OBVIOUS
<1>4. Live' = Live \cup arrive /\ Live \cap arrive = {}
  BY <1>1, <1>3 DEF QueuesInv, NaiveTypeOK, Live
<1> HIDE DEF arrive
<1>5. ASSUME NEW l \in Levels
      PROVE  /\ Q'[l] \in Seq(Copies)
             /\ HasCopies(Q'[l], {p \in Live' : currLevel'[p] = l})
             /\ \A k \in DOMAIN Q'[l] :
                  Q'[l][k].id \notin Running => Q'[l][k].remaining = remainingTime[Q'[l][k].id]
  <2>1. PICK q : q = Q[l] OBVIOUS
  <2>2. PICK r : r = CopiesOf(Come(l)) OBVIOUS
  <2>3. PICK S : S = {p \in Live : currLevel[p] = l} OBVIOUS
  <2>4. PICK U : U = Come(l) OBVIOUS
  <2>5. q \in Seq(Copies) /\ HasCopies(q, S) BY <2>1, <2>3 DEF QueuesInv, NaiveTypeOK, Placed
  <2>6. /\ r \in Seq(Copies) /\ HasCopies(r, U)
        /\ \A k \in DOMAIN r : r[k] = Copy(r[k].id, remainingTime[r[k].id])
    <3>1. U \subseteq Processes BY <1>3, <2>4
    <3> QED BY <2>2, <2>4, <3>1, CopiesOfIs DEF QueuesInv
  <2>7. \A k \in DOMAIN q : q[k].id \notin Running => q[k].remaining = remainingTime[q[k].id]
    BY <2>1 DEF QueuesInv, UpToDate
  <2>8. Q'[l] = q \o r BY <1>1, <2>1, <2>2
  <2>9. S \cap U = {} /\ S \cup U = {p \in Live' : currLevel'[p] = l} BY <1>1, <1>4, <2>3, <2>4
  <2>10. \A k \in DOMAIN r : r[k].remaining = remainingTime[r[k].id] BY <2>6 DEF Copy
  <2>11. /\ q \o r \in Seq(Copies)
         /\ HasCopies(q \o r, S \cup U)
         /\ \A k \in DOMAIN (q \o r) : \/ k \in DOMAIN q /\ (q \o r)[k] = q[k]
                                       \/ k - Len(q) \in DOMAIN r /\ (q \o r)[k] = r[k - Len(q)]
    BY <2>5, <2>6, <2>9, JoinedCopies
  <2>12. \A k \in DOMAIN (q \o r) :
           (q \o r)[k].id \notin Running => (q \o r)[k].remaining = remainingTime[(q \o r)[k].id]
    BY <2>7, <2>10, <2>11
  <2> QED BY <2>8, <2>9, <2>11, <2>12
<1>6. NaiveTypeOK'
  <2>1. Q' \in [Levels -> Seq(Copies)] BY <1>1, <1>5
  <2>2. scheduled' \subseteq Processes /\ finished' \subseteq scheduled'
    BY <1>1, <1>3 DEF QueuesInv, NaiveTypeOK
  <2> QED BY <1>1, <1>2, <2>1, <2>2 DEF QueuesInv, NaiveTypeOK
<1>7. Placed' /\ UpToDate' BY <1>1, <1>2, <1>5 DEF Placed, UpToDate
<1>8. OneRuns' BY <1>2, <1>4 DEF QueuesInv, OneRuns
<1> QED BY <1>6, <1>7, <1>8 DEF QueuesInv

\* Who is to run is in a queue.
LEMMA NextIs ==
  ASSUME QueuesInv,
         NEW top \in Levels, Q[top] # <<>>, \A m \in Levels : Q[m] # <<>> => m <= top,
         NEW next,
         next = IF top = 4 THEN NextOf(Q[4]) ELSE IF top = 1 THEN Q[1][1].id ELSE Shortest(Q[top])
  PROVE  /\ next \in Live /\ currLevel[next] = top
         /\ Q[4] # <<>> => top = 4
         /\ \E k \in DOMAIN Q[top] : next = Q[top][k].id
<1>4. Q[top] \in Seq(Copies) /\ (Q[4] # <<>> => top = 4) BY DEF Levels, QueuesInv, NaiveTypeOK
<1>5. 1 \in DOMAIN Q[top] /\ (Len(Q[top]) > 1 => 2 \in DOMAIN Q[top])
  <2>1. DOMAIN Q[top] = 1 .. Len(Q[top]) /\ Len(Q[top]) \in Nat /\ Len(Q[top]) # 0 BY <1>4
  <2> QED BY <2>1
<1>6. \E k \in DOMAIN Q[top] : next = Q[top][k].id
  <2>1. CASE top = 4
    <3>1. next = Q[top][IF Len(Q[top]) > 1 /\ Q[top][1].justin THEN 2 ELSE 1].id
      BY <2>1 DEF NextOf
    <3>2. (IF Len(Q[top]) > 1 /\ Q[top][1].justin THEN 2 ELSE 1) \in DOMAIN Q[top] BY <1>5
    <3> QED BY <3>1, <3>2
  <2>2. CASE top \in {2, 3}
    <3>1. next = Shortest(Q[top]) BY <2>2
    <3> QED BY <1>4, <3>1, ShortestIs
  <2>3. CASE top = 1
    <3>1. next = Q[top][1].id BY <2>3
    <3> QED BY <1>5, <3>1
  <2> QED BY <2>1, <2>2, <2>3 DEF Levels
<1>7. HasCopies(Q[top], {p \in Live : currLevel[p] = top}) BY <1>4 DEF QueuesInv, Placed
<1>8. \A k \in DOMAIN Q[top] : Q[top][k].id \in {p \in Live : currLevel[p] = top}
  BY <1>7 DEF HasCopies
<1>9. next \in Live /\ currLevel[next] = top BY <1>6, <1>8
<1> QED BY <1>4, <1>6, <1>9

\* The process that starts is one of a queue.
LEMMA StartKeeps ==
  ASSUME QueuesInv, Start
  PROVE  QueuesInv'
<1>1. /\ t' = t + 1 /\ part' = "run"
      /\ UNCHANGED <<processList, arrivalTime, currLevel, remainingTime, timeSinceLastRun,
                     scheduled, finished, Q>>
  BY DEF Start
<1>2. Processes' = Processes /\ Live' = Live /\ Copies' = Copies
  BY <1>1 DEF Processes, Live, Copies
<1>3. \/ runningSince' = runningSince
      \/ Running = {} /\ \E p \in Live : runningSince' = [runningSince EXCEPT ![p] = t]
  <2> DEFINE nonempty == {l \in Levels : Q[l] # <<>>}
             top == CHOOSE l \in nonempty : \A m \in nonempty : m <= l
             next == IF top = 4 THEN NextOf(Q[4]) ELSE IF top = 1 THEN Q[1][1].id ELSE Shortest(Q[top])
  <2>1. runningSince' = IF Running = {} /\ nonempty # {}
                        THEN [runningSince EXCEPT ![next] = t] ELSE runningSince
    BY DEF Start
  <2>2. ASSUME nonempty # {} PROVE next \in Live
    <3>1. \E l \in nonempty : \A m \in nonempty : m <= l BY <2>2 DEF Levels
    <3>2. top \in nonempty /\ \A m \in nonempty : m <= top
      <4> HIDE DEF nonempty
      <4> QED BY <3>1
    <3>3. top \in Levels /\ Q[top] # <<>> /\ \A m \in Levels : Q[m] # <<>> => m <= top BY <3>2
    <3> HIDE DEF top
    <3> QED BY <3>3, NextIs
  <2> HIDE DEF nonempty, next
  <2> QED BY <2>1, <2>2
<1>4. Live \subseteq Processes /\ t \in Nat /\ NotRunning \notin Nat
  BY DEF Live, QueuesInv, NaiveTypeOK, NotRunning
<1>5. runningSince' \in [Processes -> Nat \cup {NotRunning}]
  BY <1>3, <1>4 DEF QueuesInv, NaiveTypeOK
<1>6. NaiveTypeOK' BY <1>1, <1>2, <1>5 DEF QueuesInv, NaiveTypeOK
<1>7. Running \subseteq Running' BY <1>2, <1>3, <1>4 DEF Running, QueuesInv, NaiveTypeOK
<1>8. Placed' /\ UpToDate' BY <1>1, <1>2, <1>7 DEF Placed, UpToDate, QueuesInv
<1>9. OneRuns'
  <2>1. CASE runningSince' = runningSince
    <3>1. Running' = Running BY <1>2, <2>1 DEF Running
    <3> QED BY <1>2, <3>1 DEF QueuesInv, OneRuns
  <2>2. ASSUME Running = {}, NEW p \in Live, runningSince' = [runningSince EXCEPT ![p] = t]
        PROVE  OneRuns'
    <3>1. Running' = {p} BY <1>2, <1>4, <2>2 DEF Running, QueuesInv, NaiveTypeOK
    <3> QED BY <1>2, <3>1 DEF OneRuns
  <2> QED BY <1>3, <2>1, <2>2
<1> QED BY <1>6, <1>8, <1>9 DEF QueuesInv

\* The process that ran ends, goes to the back of level 4 with a new copy, or keeps the CPU.
LEMMA RunKeeps ==
  ASSUME QueuesInv, Run
  PROVE  QueuesInv'
<1>1. /\ part' = "age"
      /\ UNCHANGED <<processList, arrivalTime, currLevel, timeSinceLastRun, scheduled, t>>
  BY DEF Run
<1>2. Processes' = Processes /\ Copies' = Copies BY <1>1 DEF Processes, Copies
<1>3. CASE Running = {} /\ UNCHANGED <<remainingTime, runningSince, finished, Q>>
  <2>1. Live' = Live /\ Running' = Running BY <1>1, <1>2, <1>3 DEF Live, Running
  <2>2. NaiveTypeOK' BY <1>1, <1>2, <1>3 DEF QueuesInv, NaiveTypeOK
  <2>3. Placed' /\ UpToDate' /\ OneRuns'
    BY <1>1, <1>3, <2>1 DEF QueuesInv, Placed, UpToDate, OneRuns
  <2> QED BY <2>2, <2>3 DEF QueuesInv
<1>4. ASSUME NEW p \in Running, remainingTime' = [remainingTime EXCEPT ![p] = @ - 1],
             Finish(p) \/ Expire(p) \/ GoOn(p)
      PROVE  QueuesInv'
  <2>1. p \in Live /\ p \in Processes /\ p \in scheduled /\ Running = {p} /\ currLevel[p] \in Levels
    BY DEF QueuesInv, OneRuns, Live, NaiveTypeOK
  <2>2. remainingTime[p] \in Nat /\ remainingTime[p] >= 1
    BY <1>4, <2>1 DEF Finish, Expire, GoOn, QueuesInv, NaiveTypeOK
  <2>3. remainingTime' \in [Processes -> Nat] /\ \A r \in Processes \ {p} : remainingTime'[r] = remainingTime[r]
    BY <1>4, <2>1, <2>2 DEF QueuesInv, NaiveTypeOK
  <2>4. remainingTime'[p] = remainingTime[p] - 1 BY <1>4, <2>1 DEF QueuesInv, NaiveTypeOK
  <2>5. \A l \in Levels : /\ Q[l] \in Seq(Copies) /\ HasCopies(Q[l], {r \in Live : currLevel[r] = l})
                          /\ \A k \in DOMAIN Q[l] : Q[l][k].id \in Live
    BY DEF QueuesInv, NaiveTypeOK, Placed, HasCopies
  <2>6. ASSUME NEW l \in Levels, NEW k \in DOMAIN Q[l], Q[l][k].id # p
        PROVE  Q[l][k].remaining = remainingTime'[Q[l][k].id]
    <3>1. Q[l][k].id \in Processes \ {p} BY <2>5, <2>6 DEF Live, QueuesInv, NaiveTypeOK
    <3> QED BY <2>1, <2>3, <2>6, <3>1 DEF QueuesInv, UpToDate
  <2>7. \A l \in Levels \ {currLevel[p]} : \A k \in DOMAIN Q[l] : Q[l][k].id # p
    BY <2>5 DEF HasCopies
  <2>8. Q \in [Levels -> Seq(Copies)] BY DEF QueuesInv, NaiveTypeOK
  <2>9. ASSUME Finish(p) PROVE QueuesInv'
    <3>1. /\ runningSince' = [runningSince EXCEPT ![p] = NotRunning]
          /\ finished' = finished \cup {p}
          /\ Q' = [Q EXCEPT ![currLevel[p]] = Without(currLevel[p], {p})]
      BY <2>9 DEF Finish
    <3>2. Live' = Live \ {p} /\ Running' = {}
      BY <1>1, <1>2, <2>1, <3>1 DEF Live, Running, QueuesInv, NaiveTypeOK
    <3>3. PICK l : l = currLevel[p] OBVIOUS
    <3>4. PICK S : S = {r \in Live : currLevel[r] = l} OBVIOUS
    <3>5. l \in Levels /\ HasCopies(Q[l], S) BY <2>1, <2>5, <3>3, <3>4
    <3>6. /\ Without(l, {p}) \in Seq(Copies)
          /\ HasCopies(Without(l, {p}), S \ {p})
          /\ \A k \in DOMAIN Without(l, {p}) : \E u \in DOMAIN Q[l] : Without(l, {p})[k] = Q[l][u]
      <4>1. PICK ps : ps = {p} OBVIOUS
      <4>2. /\ Without(l, ps) \in Seq(Copies)
            /\ HasCopies(Without(l, ps), S \ ps)
            /\ From(Without(l, ps), Q[l])
        BY <2>5, <3>5, WithoutIs
      <4> QED BY <4>1, <4>2 DEF From
    <3>7. PICK s : s = Without(l, {p}) OBVIOUS
    <3>8. Q'[l] = s /\ \A m \in Levels \ {l} : Q'[m] = Q[m] BY <2>8, <3>1, <3>3, <3>5, <3>7
    <3>9. s \in Seq(Copies) /\ HasCopies(s, S \ {p}) /\ \A k \in DOMAIN s : \E u \in DOMAIN Q[l] : s[k] = Q[l][u]
      BY <3>6, <3>7
    <3>10. Q' \in [Levels -> Seq(Copies)] BY <2>8, <3>1, <3>3, <3>7, <3>9
    <3>11. Placed'
      <4>1. ASSUME NEW m \in Levels PROVE HasCopies(Q'[m], {r \in Live' : currLevel'[r] = m})
        <5>1. CASE m = l
          <6>1. {r \in Live' : currLevel'[r] = m} = S \ {p} BY <1>1, <3>2, <3>4, <5>1
          <6> QED BY <3>8, <3>9, <5>1, <6>1
        <5>2. CASE m # l
          <6>1. {r \in Live' : currLevel'[r] = m} = {r \in Live : currLevel[r] = m}
            BY <1>1, <3>2, <3>3, <5>2
          <6> QED BY <2>5, <3>8, <5>2, <6>1
        <5> QED BY <5>1, <5>2
      <4> QED BY <4>1 DEF Placed
    <3>12. UpToDate'
      <4>1. ASSUME NEW m \in Levels, NEW k \in DOMAIN Q'[m]
            PROVE  Q'[m][k].remaining = remainingTime'[Q'[m][k].id]
        <5>1. CASE m = l
          <6>1. PICK u \in DOMAIN Q[l] : s[k] = Q[l][u] BY <3>8, <3>9, <4>1, <5>1
          <6>2. Q[l][u].id # p BY <3>8, <3>9, <4>1, <5>1, <6>1 DEF HasCopies
          <6> QED BY <2>6, <3>5, <3>8, <5>1, <6>1, <6>2
        <5>2. CASE m # l BY <2>6, <2>7, <3>3, <3>8, <4>1, <5>2
        <5> QED BY <5>1, <5>2
      <4> QED BY <4>1 DEF UpToDate
    <3>13. NaiveTypeOK'
      <4>1. runningSince' \in [Processes -> Nat \cup {NotRunning}]
        BY <3>1 DEF QueuesInv, NaiveTypeOK
      <4> QED BY <1>1, <1>2, <2>1, <2>3, <3>1, <3>10, <4>1 DEF QueuesInv, NaiveTypeOK
    <3> QED BY <3>2, <3>11, <3>12, <3>13 DEF QueuesInv, OneRuns
  <2>10. ASSUME Expire(p) PROVE QueuesInv'
    <3>1. /\ runningSince' = [runningSince EXCEPT ![p] = NotRunning]
          /\ finished' = finished /\ currLevel[p] = 4
          /\ Q' = [Q EXCEPT ![4] = Append(Without(4, {p}), Copy(p, remainingTime[p] - 1))]
      BY <2>10 DEF Expire
    <3>2. Live' = Live /\ Running' = {}
      BY <1>1, <1>2, <2>1, <3>1 DEF Live, Running, QueuesInv, NaiveTypeOK
    <3>3. PICK S : S = {r \in Live : currLevel[r] = 4} OBVIOUS
    <3>4. 4 \in Levels /\ HasCopies(Q[4], S) /\ p \in S BY <2>1, <2>5, <3>1, <3>3 DEF Levels
    <3>5. /\ Without(4, {p}) \in Seq(Copies)
          /\ HasCopies(Without(4, {p}), S \ {p})
          /\ \A k \in DOMAIN Without(4, {p}) : \E u \in DOMAIN Q[4] : Without(4, {p})[k] = Q[4][u]
      <4>1. PICK ps : ps = {p} OBVIOUS
      <4>2. /\ Without(4, ps) \in Seq(Copies)
            /\ HasCopies(Without(4, ps), S \ ps)
            /\ From(Without(4, ps), Q[4])
        BY <2>5, <3>4, WithoutIs
      <4> QED BY <4>1, <4>2 DEF From
    <3>6. PICK s : s = Without(4, {p}) OBVIOUS
    <3>7. PICK c : c = Copy(p, remainingTime[p] - 1) OBVIOUS
    <3>8. s \in Seq(Copies) /\ HasCopies(s, S \ {p}) /\ \A k \in DOMAIN s : \E u \in DOMAIN Q[4] : s[k] = Q[4][u]
      BY <3>5, <3>6
    <3>9. c \in Copies /\ c.id = p /\ c.remaining = remainingTime'[p]
      BY <2>1, <2>2, <2>4, <3>7 DEF Copy, Copies
    <3>10. <<c>> \in Seq(Copies) /\ HasCopies(<<c>>, {p}) /\ Len(<<c>>) = 1
      BY <3>9 DEF HasCopies
    <3>11. /\ s \o <<c>> \in Seq(Copies)
           /\ HasCopies(s \o <<c>>, (S \ {p}) \cup {p})
           /\ \A k \in DOMAIN (s \o <<c>>) : \/ k \in DOMAIN s /\ (s \o <<c>>)[k] = s[k]
                                             \/ k - Len(s) \in DOMAIN <<c>> /\ (s \o <<c>>)[k] = <<c>>[k - Len(s)]
      <4>1. PICK U : U = S \ {p} OBVIOUS
      <4>2. PICK V : V = {p} OBVIOUS
      <4>3. PICK r : r = <<c>> OBVIOUS
      <4>4. HasCopies(s, U) /\ HasCopies(r, V) /\ U \cap V = {} /\ s \in Seq(Copies) /\ r \in Seq(Copies)
        BY <3>8, <3>10, <4>1, <4>2, <4>3
      <4>5. /\ s \o r \in Seq(Copies)
            /\ HasCopies(s \o r, U \cup V)
            /\ \A k \in DOMAIN (s \o r) : \/ k \in DOMAIN s /\ (s \o r)[k] = s[k]
                                          \/ k - Len(s) \in DOMAIN r /\ (s \o r)[k] = r[k - Len(s)]
        BY <4>4, JoinedCopies
      <4> QED BY <4>1, <4>2, <4>3, <4>5
    <3>12. PICK q : q = s \o <<c>> OBVIOUS
    <3>13. q \in Seq(Copies) /\ HasCopies(q, S) BY <3>4, <3>11, <3>12
    <3>14. \A k \in DOMAIN q : q[k] = c \/ \E u \in DOMAIN Q[4] : q[k] = Q[4][u] /\ q[k].id # p
      BY <3>8, <3>11, <3>12 DEF HasCopies
    <3>15. Append(s, c) = q BY <3>8, <3>9, <3>12
    <3>16. Q'[4] = q /\ \A m \in Levels \ {4} : Q'[m] = Q[m]
      BY <2>8, <3>1, <3>4, <3>6, <3>7, <3>15
    <3>17. Q' \in [Levels -> Seq(Copies)] BY <2>8, <3>1, <3>6, <3>7, <3>13, <3>15
    <3>18. Placed'
      <4>1. ASSUME NEW m \in Levels PROVE HasCopies(Q'[m], {r \in Live' : currLevel'[r] = m})
        <5>1. {r \in Live' : currLevel'[r] = m} = {r \in Live : currLevel[r] = m} BY <1>1, <3>2
        <5>2. CASE m = 4 BY <3>3, <3>13, <3>16, <5>1, <5>2
        <5>3. CASE m # 4 BY <2>5, <3>16, <5>1, <5>3
        <5> QED BY <5>2, <5>3
      <4> QED BY <4>1 DEF Placed
    <3>19. UpToDate'
      <4>1. ASSUME NEW m \in Levels, NEW k \in DOMAIN Q'[m]
            PROVE  Q'[m][k].remaining = remainingTime'[Q'[m][k].id]
        <5>1. CASE m = 4
          <6>1. CASE q[k] = c BY <3>9, <3>16, <5>1, <6>1
          <6>2. ASSUME NEW u \in DOMAIN Q[4], q[k] = Q[4][u] /\ q[k].id # p
                PROVE  Q'[m][k].remaining = remainingTime'[Q'[m][k].id]
            BY <2>6, <3>4, <3>16, <5>1, <6>2
          <6> QED BY <3>14, <3>16, <4>1, <5>1, <6>1, <6>2
        <5>2. CASE m # 4 BY <2>6, <2>7, <3>1, <3>16, <4>1, <5>2
        <5> QED BY <5>1, <5>2
      <4> QED BY <4>1 DEF UpToDate
    <3>20. NaiveTypeOK'
      <4>1. runningSince' \in [Processes -> Nat \cup {NotRunning}]
        BY <3>1 DEF QueuesInv, NaiveTypeOK
      <4> QED BY <1>1, <1>2, <2>3, <3>1, <3>17, <4>1 DEF QueuesInv, NaiveTypeOK
    <3> QED BY <3>2, <3>18, <3>19, <3>20 DEF QueuesInv, OneRuns
  <2>11. ASSUME GoOn(p) PROVE QueuesInv'
    <3>1. UNCHANGED <<runningSince, finished, Q>> BY <2>11 DEF GoOn
    <3>2. Live' = Live /\ Running' = Running BY <1>1, <1>2, <3>1 DEF Live, Running
    <3>3. UpToDate' BY <2>1, <2>6, <3>1, <3>2 DEF UpToDate
    <3>4. Placed' /\ OneRuns' BY <1>1, <3>1, <3>2 DEF QueuesInv, Placed, OneRuns
    <3>5. NaiveTypeOK' BY <1>1, <1>2, <2>3, <3>1 DEF QueuesInv, NaiveTypeOK
    <3> QED BY <3>3, <3>4, <3>5 DEF QueuesInv
  <2> QED BY <1>4, <2>9, <2>10, <2>11
<1> QED BY <1>3, <1>4 DEF Run

\* Who moves up leaves its queue and joins the next.
LEMMA AgeKeeps ==
  ASSUME QueuesInv, Age
  PROVE  QueuesInv'
<1>1. PICK wait : wait = scheduled \ (finished \cup Running) OBVIOUS
<1>2. PICK up : up = {p \in wait : currLevel[p] < 4 /\ timeSinceLastRun[p] + 1 >= Threshold}
  OBVIOUS
<1>3. /\ timeSinceLastRun' = [p \in Processes |->
              IF p \in up \cup Running THEN 0
              ELSE timeSinceLastRun[p] + (IF p \in wait THEN 1 ELSE 0)]
      /\ currLevel' = [p \in Processes |-> IF p \in up THEN currLevel[p] + 1 ELSE currLevel[p]]
      /\ Q' = [l \in Levels |-> Without(l, up) \o CopiesOf({p \in up : currLevel[p] + 1 = l})]
      /\ part' = "order"
      /\ UNCHANGED <<processList, arrivalTime, remainingTime, runningSince, scheduled, finished, t>>
  BY <1>1, <1>2 DEF Age
<1>4. Processes' = Processes /\ Running' = Running /\ Copies' = Copies /\ Live' = Live
  BY <1>3 DEF Processes, Running, Copies, Live
<1>5. up \subseteq Live /\ up \subseteq Processes /\ Live \subseteq Processes
  BY <1>1, <1>2 DEF QueuesInv, NaiveTypeOK, Live
<1>6. currLevel' \in [Processes -> Levels]
  <2>1. \A p \in Processes : currLevel[p] \in Levels BY DEF QueuesInv, NaiveTypeOK
  <2>2. \A p \in up : currLevel[p] + 1 \in Levels BY <1>2, <1>5, <2>1 DEF Levels
  <2> QED BY <1>3, <2>1, <2>2
<1>7. timeSinceLastRun' \in [Processes -> Nat]
  <2>1. \A p \in Processes : timeSinceLastRun[p] \in Nat BY DEF QueuesInv, NaiveTypeOK
  <2>2. \A p \in Processes : (IF p \in up \cup Running THEN 0
              ELSE timeSinceLastRun[p] + (IF p \in wait THEN 1 ELSE 0)) \in Nat
    BY <2>1
  <2> QED BY <1>3, <2>2
<1>8. ASSUME NEW l \in Levels
      PROVE  /\ Q'[l] \in Seq(Copies)
             /\ HasCopies(Q'[l], {p \in Live' : currLevel'[p] = l})
             /\ \A k \in DOMAIN Q'[l] :
                  Q'[l][k].id \notin Running => Q'[l][k].remaining = remainingTime[Q'[l][k].id]
  <2>1. PICK q : q = Without(l, up) OBVIOUS
  <2>2. PICK U : U = {p \in up : currLevel[p] + 1 = l} OBVIOUS
  <2>3. PICK r : r = CopiesOf(U) OBVIOUS
  <2>4. PICK S : S = {p \in Live : currLevel[p] = l} OBVIOUS
  <2>5. Q[l] \in Seq(Copies) /\ HasCopies(Q[l], S) BY <2>4 DEF QueuesInv, NaiveTypeOK, Placed
  <2>6. q \in Seq(Copies) /\ HasCopies(q, S \ up) /\ From(q, Q[l]) BY <2>1, <2>5, WithoutIs
  <2>7. /\ r \in Seq(Copies) /\ HasCopies(r, U)
        /\ \A k \in DOMAIN r : r[k] = Copy(r[k].id, remainingTime[r[k].id])
    <3>1. U \subseteq Processes BY <1>5, <2>2
    <3> QED BY <2>3, <3>1, CopiesOfIs DEF QueuesInv
  <2>8. Q'[l] = q \o r BY <1>3, <2>1, <2>2, <2>3
  <2>9. (S \ up) \cap U = {} BY <2>2
  <2>10. (S \ up) \cup U = {p \in Live' : currLevel'[p] = l} BY <1>3, <1>4, <1>5, <2>2, <2>4
  <2>11. \A k \in DOMAIN q : q[k].id \notin Running => q[k].remaining = remainingTime[q[k].id]
    BY <2>6 DEF QueuesInv, UpToDate, From
  <2>12. \A k \in DOMAIN r : r[k].remaining = remainingTime[r[k].id] BY <2>7 DEF Copy
  <2>13. PICK W : W = S \ up OBVIOUS
  <2>14. HasCopies(q, W) /\ W \cap U = {} BY <2>6, <2>9, <2>13
  <2>15. /\ q \o r \in Seq(Copies)
         /\ HasCopies(q \o r, W \cup U)
         /\ \A k \in DOMAIN (q \o r) : \/ k \in DOMAIN q /\ (q \o r)[k] = q[k]
                                       \/ k - Len(q) \in DOMAIN r /\ (q \o r)[k] = r[k - Len(q)]
    BY <2>6, <2>7, <2>14, JoinedCopies
  <2>16. \A k \in DOMAIN (q \o r) :
           (q \o r)[k].id \notin Running => (q \o r)[k].remaining = remainingTime[(q \o r)[k].id]
    BY <2>11, <2>12, <2>15
  <2> QED BY <2>8, <2>10, <2>13, <2>15, <2>16
<1>9. NaiveTypeOK'
  <2>1. Q' \in [Levels -> Seq(Copies)] BY <1>3, <1>8
  <2> QED BY <1>3, <1>4, <1>6, <1>7, <2>1 DEF QueuesInv, NaiveTypeOK
<1>10. Placed' /\ UpToDate' BY <1>3, <1>4, <1>8 DEF Placed, UpToDate
<1>11. OneRuns' BY <1>4 DEF QueuesInv, OneRuns
<1> QED BY <1>9, <1>10, <1>11 DEF QueuesInv

-----
\* That no copy is new any more changes nothing else of a queue.
LEMMA SettledIs ==
  ASSUME NEW q \in Seq(Copies), NEW S, HasCopies(q, S)
  PROVE  /\ Settled(q) \in Seq(Copies) /\ DOMAIN Settled(q) = DOMAIN q
         /\ HasCopies(Settled(q), S)
         /\ \A k \in DOMAIN q : /\ Settled(q)[k].id = q[k].id
                                /\ Settled(q)[k].remaining = q[k].remaining
                                /\ Settled(q)[k].justin = FALSE
         /\ \A a, b : Before(Settled(q), a, b) => Before(q, a, b)
<1>1. DOMAIN q = 1 .. Len(q) /\ Len(q) \in Nat /\ \A k \in DOMAIN q : q[k] \in Copies OBVIOUS
<1>2. ASSUME NEW k \in DOMAIN q
      PROVE  /\ Settled(q)[k] \in Copies
             /\ Settled(q)[k].id = q[k].id
             /\ Settled(q)[k].remaining = q[k].remaining
             /\ Settled(q)[k].justin = FALSE
  <2>1. Settled(q)[k] = [q[k] EXCEPT !.justin = FALSE] BY DEF Settled
  <2>2. q[k] \in Copies BY <1>1
  <2> QED BY <2>1, <2>2 DEF Copies
<1>3. DOMAIN Settled(q) = DOMAIN q BY DEF Settled
<1>4. Settled(q) \in Seq(Copies)
  <2>1. PICK s : s = Settled(q) OBVIOUS
  <2>2. s = [k \in 1 .. Len(q) |-> s[k]] BY <1>1, <2>1 DEF Settled
  <2>3. \A k \in 1 .. Len(q) : s[k] \in Copies BY <1>1, <1>2, <2>1
  <2> QED BY <1>1, <2>1, <2>2, <2>3
<1>5. PICK s : s = Settled(q) OBVIOUS
<1>6. DOMAIN s = DOMAIN q /\ \A k \in DOMAIN q : s[k].id = q[k].id BY <1>2, <1>3, <1>5
<1>7. HasCopies(s, S) BY <1>6 DEF HasCopies
<1>8. \A a, b : Before(s, a, b) => Before(q, a, b) BY <1>6 DEF Before
<1> QED BY <1>2, <1>3, <1>4, <1>5, <1>7, <1>8

\* The new copies of level 4 by ID are its new copies.
LEMMA ByIDIs ==
  ASSUME Q[4] \in Seq(Copies), NEW S, HasCopies(Q[4], S), NaiveTypeOK
  PROVE  /\ ByID \in Seq(Copies)
         /\ HasCopies(ByID, {Q[4][k].id : k \in {k \in DOMAIN Q[4] : Q[4][k].justin}})
         /\ From(ByID, Q[4])
<1>1. PICK q : q = Q[4] OBVIOUS
<1>2. PICK new : new = {k \in DOMAIN q : q[k].justin} OBVIOUS
<1>3. PICK before : before = {w \in new \X new : q[w[1]].id < q[w[2]].id} OBVIOUS
<1>4. q \in Seq(Copies) /\ HasCopies(q, S) /\ new \subseteq DOMAIN q BY <1>1, <1>2
<1>5. \A k \in DOMAIN q : q[k] \in Copies /\ q[k].id \in Nat
  <2>1. \A k \in DOMAIN q : q[k] \in Copies BY <1>4
  <2>2. Processes \subseteq Nat
    <3>1. \A k \in DOMAIN processList : processList[k] \in Ids BY DEF NaiveTypeOK
    <3>2. Ids \subseteq Nat BY NaiveAssumption
    <3> QED BY <3>1, <3>2 DEF Processes, ToSet
  <2> QED BY <2>1, <2>2 DEF Copies
<1>6. IsFiniteSet(new)
  <2>1. DOMAIN q = 1 .. Len(q) /\ Len(q) \in Nat BY <1>4
  <2>2. IsFiniteSet(1 .. Len(q)) BY <2>1, FS_Interval
  <2> QED BY <1>4, <2>1, <2>2, FS_Subset
<1>7. Orders(before, new)
  <2>1. \A x, y \in new : <<x, y>> \in before <=> q[x].id < q[y].id BY <1>3
  <2>2. \A x \in new : q[x].id \in Nat BY <1>4, <1>5
  <2>3. \A x, y \in new : q[x].id = q[y].id => x = y BY <1>4 DEF HasCopies
  <2> QED BY <2>1, <2>2, <2>3 DEF Orders
<1>8. PICK a : a = Arranged(new, before) OBVIOUS
<1>9. /\ a \in Seq(new)
      /\ \A x \in new : \E k \in DOMAIN a : a[k] = x
      /\ \A u, j \in DOMAIN a : a[u] = a[j] => u = j
  BY <1>6, <1>7, <1>8, ArrangedIs
<1>10. ByID = [k \in DOMAIN a |-> q[a[k]]] BY <1>1, <1>2, <1>3, <1>8 DEF ByID
<1>11. DOMAIN a = 1 .. Len(a) /\ Len(a) \in Nat /\ \A k \in DOMAIN a : a[k] \in new /\ a[k] \in DOMAIN q
  BY <1>4, <1>9
<1>12. PICK s : s = ByID OBVIOUS
<1>13. DOMAIN s = DOMAIN a /\ \A k \in DOMAIN a : s[k] = q[a[k]] /\ s[k] \in Copies
  BY <1>5, <1>10, <1>11, <1>12
<1>14. s \in Seq(Copies)
  <2>1. s = [k \in 1 .. Len(a) |-> s[k]] BY <1>10, <1>11, <1>12
  <2> QED BY <1>11, <1>13, <2>1
<1>15. From(s, q) BY <1>11, <1>13 DEF From
<1>16. HasCopies(s, {q[k].id : k \in new})
  <2>1. \A k \in DOMAIN s : s[k].id \in {q[u].id : u \in new} BY <1>11, <1>13
  <2>2. \A p \in {q[u].id : u \in new} : \E k \in DOMAIN s : s[k].id = p BY <1>9, <1>13
  <2>3. \A u, j \in DOMAIN s : s[u].id = s[j].id => u = j
    <3>1. \A u, j \in DOMAIN q : q[u].id = q[j].id => u = j BY <1>4 DEF HasCopies
    <3> QED BY <1>9, <1>11, <1>13, <3>1
  <2> QED BY <2>1, <2>2, <2>3 DEF HasCopies
<1> QED BY <1>1, <1>2, <1>12, <1>14, <1>15, <1>16

\* The processes of a queue that checkOrdering() has settled, and those that are new.
OldOf(q) == {q[k].id : k \in {k \in DOMAIN q : ~ q[k].justin}}
NewOf(q) == {q[k].id : k \in {k \in DOMAIN q : q[k].justin}}

\* Level 4 once it is ordered.
LEMMA OrderedIs ==
  ASSUME NaiveTypeOK, NEW S, HasCopies(Q[4], S), NEW q,
         q = Kept(Q[4], {k \in DOMAIN Q[4] : ~ Q[4][k].justin}) \o ByID
  PROVE  /\ q \in Seq(Copies) /\ HasCopies(q, S) /\ From(q, Q[4])
         /\ OldOf(Q[4]) \cap NewOf(Q[4]) = {}
         /\ \A a, b : Before(q, a, b) /\ b \notin NewOf(Q[4]) => Before(Q[4], a, b)
<1>1. PICK z : z = Q[4] OBVIOUS
<1>2. z \in Seq(Copies) /\ HasCopies(z, S) BY <1>1 DEF NaiveTypeOK, Levels
<1>3. PICK K : K = {k \in DOMAIN z : ~ z[k].justin} OBVIOUS
<1>4. K \subseteq DOMAIN z BY <1>3
<1>5. PICK o : o = Kept(z, K) OBVIOUS
<1>6. {z[k].id : k \in K} = OldOf(z) BY <1>3 DEF OldOf
<1>7. o \in Seq(Copies) BY <1>2, <1>4, <1>5, KeptCopies
<1>8. HasCopies(o, {z[k].id : k \in K}) BY <1>2, <1>4, <1>5, KeptCopies
<1>9. From(o, z) /\ \A a, b : Before(o, a, b) => Before(z, a, b)
  BY <1>2, <1>4, <1>5, KeptCopies, Zenon
<1>10. PICK r : r = ByID OBVIOUS
<1>11. r \in Seq(Copies) /\ HasCopies(r, NewOf(z)) /\ From(r, z)
  BY <1>1, <1>2, <1>10, ByIDIs DEF NewOf
<1>12. HasCopies(o, OldOf(z)) BY <1>6, <1>8
<1>13. OldOf(z) \cap NewOf(z) = {} /\ OldOf(z) \cup NewOf(z) = S
  BY <1>2 DEF HasCopies, OldOf, NewOf
<1>14. q = o \o r BY <1>1, <1>3, <1>5, <1>10
<1>15. PICK A : A = OldOf(z) OBVIOUS
<1>16. PICK B : B = NewOf(z) OBVIOUS
<1>17. HasCopies(o, A) /\ HasCopies(r, B) /\ A \cap B = {} /\ A \cup B = S
  BY <1>11, <1>12, <1>13, <1>15, <1>16
<1>18. /\ o \o r \in Seq(Copies)
       /\ HasCopies(o \o r, A \cup B)
       /\ \A k \in DOMAIN (o \o r) : \/ k \in DOMAIN o /\ (o \o r)[k] = o[k]
                                     \/ k - Len(o) \in DOMAIN r /\ (o \o r)[k] = r[k - Len(o)]
  BY <1>7, <1>11, <1>17, JoinedCopies
<1>19. \A a, b : Before(o \o r, a, b) => b \in B \/ Before(o, a, b)
  BY <1>7, <1>11, <1>17, JoinedCopies, Zenon
<1>20. From(o \o r, z)
  <2>1. ASSUME NEW k \in DOMAIN (o \o r) PROVE \E u \in DOMAIN z : (o \o r)[k] = z[u]
    <3>1. CASE k \in DOMAIN o /\ (o \o r)[k] = o[k] BY <1>9, <3>1 DEF From
    <3>2. CASE k - Len(o) \in DOMAIN r /\ (o \o r)[k] = r[k - Len(o)] BY <1>11, <3>2 DEF From
    <3> QED BY <1>18, <3>1, <3>2
  <2> QED BY <2>1 DEF From
<1> QED BY <1>1, <1>9, <1>13, <1>14, <1>16, <1>17, <1>18, <1>19, <1>20

\* checkOrdering() loses no copy and makes none.
LEMMA OrderKeeps ==
  ASSUME QueuesInv, Order
  PROVE  QueuesInv'
<1>1. PICK level4 : level4 = Kept(Q[4], {k \in DOMAIN Q[4] : ~ Q[4][k].justin}) \o ByID OBVIOUS
<1>2. /\ Q' = [l \in Levels |-> Settled(IF l = 4 THEN level4 ELSE Q[l])]
      /\ part' = "insert"
      /\ UNCHANGED <<processList, arrivalTime, currLevel, remainingTime, timeSinceLastRun,
                     runningSince, scheduled, finished, t>>
  BY <1>1 DEF Order
<1>3. Processes' = Processes /\ Running' = Running /\ Copies' = Copies /\ Live' = Live
  BY <1>2 DEF Processes, Running, Copies, Live
<1>4. ASSUME NEW l \in Levels
      PROVE  /\ Q'[l] \in Seq(Copies)
             /\ HasCopies(Q'[l], {p \in Live : currLevel[p] = l})
             /\ \A k \in DOMAIN Q'[l] :
                  Q'[l][k].id \notin Running => Q'[l][k].remaining = remainingTime[Q'[l][k].id]
  <2>1. PICK S : S = {p \in Live : currLevel[p] = l} OBVIOUS
  <2>2. PICK q : q = IF l = 4 THEN level4 ELSE Q[l] OBVIOUS
  <2>3. NaiveTypeOK /\ Q[l] \in Seq(Copies) /\ HasCopies(Q[l], S)
    BY <2>1 DEF QueuesInv, NaiveTypeOK, Placed
  <2>4. q \in Seq(Copies) /\ HasCopies(q, S) /\ From(q, Q[l])
    <3>1. CASE l = 4
      <4>1. q = level4 /\ HasCopies(Q[4], S) BY <2>2, <2>3, <3>1
      <4>2. level4 \in Seq(Copies) /\ HasCopies(level4, S) /\ From(level4, Q[4])
        BY <1>1, <2>3, <4>1, OrderedIs
      <4> QED BY <3>1, <4>1, <4>2
    <3>2. CASE l # 4 BY <2>2, <2>3, <3>2 DEF From
    <3> QED BY <3>1, <3>2
  <2>5. Q'[l] = Settled(q) BY <1>2, <2>2
  <2>6. /\ Settled(q) \in Seq(Copies) /\ DOMAIN Settled(q) = DOMAIN q
        /\ HasCopies(Settled(q), S)
        /\ \A k \in DOMAIN q : Settled(q)[k].id = q[k].id /\ Settled(q)[k].remaining = q[k].remaining
    BY <2>4, SettledIs
  <2>7. \A k \in DOMAIN q : q[k].id \notin Running => q[k].remaining = remainingTime[q[k].id]
    BY <2>4 DEF QueuesInv, UpToDate, From
  <2>8. \A k \in DOMAIN Settled(q) :
          Settled(q)[k].id \notin Running => Settled(q)[k].remaining = remainingTime[Settled(q)[k].id]
    BY <2>6, <2>7
  <2> QED BY <2>1, <2>5, <2>6, <2>8
<1>5. NaiveTypeOK'
  <2>1. Q' \in [Levels -> Seq(Copies)] BY <1>2, <1>4
  <2> QED BY <1>2, <1>3, <2>1 DEF QueuesInv, NaiveTypeOK
<1>6. Placed' /\ UpToDate' BY <1>2, <1>3, <1>4 DEF Placed, UpToDate
<1>7. OneRuns' BY <1>3 DEF QueuesInv, OneRuns
<1> QED BY <1>5, <1>6, <1>7 DEF QueuesInv

\* QueuesInv is kept by every part of the loop.
LEMMA QueuesStep ==
  ASSUME QueuesInv, [NaiveNext]_naive
  PROVE  QueuesInv'
<1>1. CASE UNCHANGED naive
  <2>1. UNCHANGED naive BY <1>1
  <2>2. Processes' = Processes /\ Live' = Live /\ Running' = Running /\ Copies' = Copies
    BY <2>1 DEF naive, Processes, Live, Running, Copies
  <2>3. NaiveTypeOK' BY <2>1, <2>2 DEF naive, QueuesInv, NaiveTypeOK
  <2> QED BY <2>1, <2>2, <2>3 DEF naive, QueuesInv, Placed, UpToDate, OneRuns
<1> QED BY <1>1, InsertKeeps, StartKeeps, RunKeeps, AgeKeeps, OrderKeeps DEF NaiveNext

\* Different processes are in different places of a queue: it is no longer than the list.
LEMMA QueueFits ==
  ASSUME QueuesInv, NEW l \in Levels
  PROVE  Len(Q[l]) <= Len(processList)
<1>1. PICK q : q = Q[l] OBVIOUS
<1>2. q \in Seq(Copies) /\ \A u, j \in DOMAIN q : q[u].id = q[j].id => u = j
  BY <1>1 DEF QueuesInv, NaiveTypeOK, Placed, HasCopies
<1>3. \A k \in DOMAIN q : q[k].id \in Processes
  <2>1. \A k \in DOMAIN q : q[k] \in Copies BY <1>2
  <2> QED BY <2>1 DEF Copies
<1>4. DOMAIN q = 1 .. Len(q) /\ Len(q) \in Nat BY <1>2
<1>5. processList \in Seq(Ids) /\ DOMAIN processList = 1 .. Len(processList) /\ Len(processList) \in Nat
  BY DEF QueuesInv, NaiveTypeOK
<1> DEFINE f == [k \in 1 .. Len(q) |-> CHOOSE u \in 1 .. Len(processList) : processList[u] = q[k].id]
<1>6. ASSUME NEW k \in 1 .. Len(q) PROVE f[k] \in 1 .. Len(processList) /\ processList[f[k]] = q[k].id
  <2>1. \E u \in 1 .. Len(processList) : processList[u] = q[k].id
    BY <1>3, <1>4, <1>5 DEF Processes, ToSet
  <2> QED BY <2>1
<1> HIDE DEF f
<1>7. f \in [1 .. Len(q) -> 1 .. Len(processList)] BY <1>6 DEF f
<1>8. f \in Injection(1 .. Len(q), 1 .. Len(processList))
  BY <1>2, <1>4, <1>6, <1>7 DEF Injection, IsInjective
<1>9. /\ IsFiniteSet(1 .. Len(q)) /\ Cardinality(1 .. Len(q)) = Len(q)
      /\ IsFiniteSet(1 .. Len(processList)) /\ Cardinality(1 .. Len(processList)) = Len(processList)
  <2>1. \A v \in Nat : IsFiniteSet(1 .. v) /\ Cardinality(1 .. v) = v BY FS_Interval
  <2> QED BY <1>4, <1>5, <2>1
<1>10. Cardinality(1 .. Len(q)) <= Cardinality(1 .. Len(processList))
  BY <1>8, <1>9, FS_Injection
<1> QED BY <1>1, <1>9, <1>10

\* QueuesInv says what QueuesTrue counts.
LEMMA QueuesHold ==
  ASSUME QueuesInv
  PROVE  QueuesTrue
<1>1. Cardinality(Running) <= 1
  <2>1. CASE Running = {} BY <2>1, FS_EmptySet
  <2>2. ASSUME NEW p \in Running PROVE Cardinality(Running) = 1
    <3>1. Running = {p} BY DEF QueuesInv, OneRuns
    <3> QED BY <3>1, FS_Singleton
  <2> QED BY <2>1, <2>2
<1>2. Running \subseteq scheduled \ finished BY DEF QueuesInv, OneRuns, Live
<1>3. ASSUME NEW p \in Processes
      PROVE  LET places == {w \in Levels \X (1 .. Len(processList)) :
                              w[2] <= Len(Q[w[1]]) /\ Q[w[1]][w[2]].id = p}
             IN  /\ Cardinality(places) = IF p \in scheduled \ finished THEN 1 ELSE 0
                 /\ \A w \in places :
                      /\ w[1] = currLevel[p]
                      /\ p \notin Running => Q[w[1]][w[2]].remaining = remainingTime[p]
  <2> DEFINE places == {w \in Levels \X (1 .. Len(processList)) :
                          w[2] <= Len(Q[w[1]]) /\ Q[w[1]][w[2]].id = p}
  <2>1. ASSUME NEW w \in places
        PROVE  /\ w[1] \in Levels /\ w[2] \in DOMAIN Q[w[1]] /\ Q[w[1]][w[2]].id = p
               /\ p \in Live /\ w[1] = currLevel[p]
    <3>1. w[1] \in Levels /\ w[2] \in 1 .. Len(processList) /\ w[2] <= Len(Q[w[1]]) /\ Q[w[1]][w[2]].id = p
      OBVIOUS
    <3>2. Q[w[1]] \in Seq(Copies) BY <3>1 DEF QueuesInv, NaiveTypeOK
    <3>3. Len(processList) \in Nat BY DEF QueuesInv, NaiveTypeOK
    <3>4. w[2] \in DOMAIN Q[w[1]] BY <3>1, <3>2, <3>3
    <3> QED BY <3>1, <3>4 DEF QueuesInv, Placed, HasCopies
  <2>2. ASSUME NEW w \in places, p \notin Running PROVE Q[w[1]][w[2]].remaining = remainingTime[p]
    <3> HIDE DEF places
    <3> QED BY <2>1, <2>2 DEF QueuesInv, UpToDate
  <2>3. CASE p \in Live
    <3>1. PICK l : l = currLevel[p] OBVIOUS
    <3>2. l \in Levels /\ HasCopies(Q[l], {r \in Live : currLevel[r] = l}) /\ Q[l] \in Seq(Copies)
      BY <3>1 DEF QueuesInv, NaiveTypeOK, Placed
    <3>3. PICK k \in DOMAIN Q[l] : Q[l][k].id = p BY <2>3, <3>1, <3>2 DEF HasCopies
    <3>4. Len(Q[l]) <= Len(processList) /\ Len(processList) \in Nat
      BY <3>2, QueueFits DEF QueuesInv, NaiveTypeOK
    <3>5. k \in 1 .. Len(processList) /\ k <= Len(Q[l]) BY <3>2, <3>4
    <3>6. <<l, k>> \in places BY <3>2, <3>3, <3>5
    <3>7. \A w \in places : w = <<l, k>>
      <4>1. ASSUME NEW w \in places PROVE w = <<l, k>>
        <5>1. w[1] = l /\ w[2] \in DOMAIN Q[l] /\ Q[l][w[2]].id = p
          <6> HIDE DEF places
          <6> QED BY <2>1, <3>1, <4>1
        <5>2. w[2] = k BY <3>2, <3>3, <5>1 DEF HasCopies
        <5>3. w = <<w[1], w[2]>> OBVIOUS
        <5> QED BY <5>1, <5>2, <5>3
      <4> QED BY <4>1
    <3>8. places = {<<l, k>>}
      <4> HIDE DEF places
      <4> QED BY <3>6, <3>7
    <3>9. Cardinality(places) = 1 BY <3>8, FS_Singleton
    <3> HIDE DEF places
    <3> QED
      <4>1. Cardinality(places) = IF p \in scheduled \ finished THEN 1 ELSE 0
        BY <2>3, <3>9 DEF Live
      <4>2. \A w \in places : /\ w[1] = currLevel[p]
                              /\ p \notin Running => Q[w[1]][w[2]].remaining = remainingTime[p]
        BY <2>1, <2>2
      <4> QED BY <4>1, <4>2 DEF places
  <2>4. CASE p \notin Live
    <3> HIDE DEF places
    <3>1. places = {} BY <2>1, <2>4
    <3>2. Cardinality(places) = 0 BY <3>1, FS_EmptySet
    <3>3. Cardinality(places) = IF p \in scheduled \ finished THEN 1 ELSE 0
      BY <2>4, <3>2 DEF Live
    <3>4. \A w \in places : /\ w[1] = currLevel[p]
                            /\ p \notin Running => Q[w[1]][w[2]].remaining = remainingTime[p]
      BY <3>1
    <3> QED BY <3>3, <3>4 DEF places
  <2> QED BY <2>3, <2>4
<1>4. \A l \in Levels : Len(Q[l]) <= Len(processList) BY QueueFits
<1> QED BY <1>1, <1>2, <1>3, <1>4 DEF QueuesTrue

\* The queues of mlfq_naive.cpp agree with processList, for any processes that
\* arrive whenever and run however long, any quantum and any threshold.
THEOREM QueuesAlways == NaiveSpec => [](QueuesInv /\ QueuesTrue)
<1>1. NaiveInit => QueuesInv BY NaiveInitIs
<1>2. QueuesInv /\ [NaiveNext]_naive => QueuesInv' BY QueuesStep
<1>3. QueuesInv => QueuesTrue BY QueuesHold
<1> QED BY <1>1, <1>2, <1>3, PTL DEF NaiveSpec

\* Who is new stands behind who is not.
NewLast(q) == \A u, j \in DOMAIN q : u < j /\ q[u].justin => q[j].justin

\* A queue of which some have left and others, new, have joined at the back.
LEMMA BehindIs ==
  ASSUME NEW z \in Seq(Copies), NEW Z, HasCopies(z, Z), NewLast(z),
         NEW s \in Seq(Copies), NEW S, HasCopies(s, S), From(s, z),
         \A a, b : Before(s, a, b) => Before(z, a, b),
         NEW r \in Seq(Copies), NEW U, HasCopies(r, U), \A k \in DOMAIN r : r[k].justin,
         S \cap U = {}
  PROVE  /\ NewLast(s \o r)
         /\ OldOf(s \o r) \subseteq OldOf(z) \cap S
         /\ NewOf(s \o r) \subseteq NewOf(z) \cup U
         /\ \A a, b : Before(s \o r, a, b) /\ b \in OldOf(s \o r) => a \in S /\ Before(z, a, b)
<1>1. PICK q : q = s \o r OBVIOUS
<1>2. \A k \in DOMAIN (s \o r) : \/ k \in DOMAIN s /\ (s \o r)[k] = s[k]
                                 \/ k - Len(s) \in DOMAIN r /\ (s \o r)[k] = r[k - Len(s)]
  BY JoinedCopies
<1>3. \A a, b : Before(s \o r, a, b) => \/ b \in U
                                        \/ a \in S /\ b \in S /\ Before(s, a, b)
  BY JoinedCopies, Zenon
<1>4. ASSUME NEW k \in DOMAIN q
      PROVE  \/ q[k].id \in S /\ \E u \in DOMAIN z : q[k] = z[u]
             \/ q[k].id \in U /\ q[k].justin
  <2>1. CASE k \in DOMAIN s /\ (s \o r)[k] = s[k] BY <1>1, <2>1 DEF From, HasCopies
  <2>2. CASE k - Len(s) \in DOMAIN r /\ (s \o r)[k] = r[k - Len(s)] BY <1>1, <2>2 DEF HasCopies
  <2> QED BY <1>1, <1>2, <2>1, <2>2
<1>5. \A a, b : Before(q, a, b) => \/ b \in U
                                   \/ a \in S /\ b \in S /\ Before(z, a, b)
  BY <1>1, <1>3, Zenon
<1>6. ASSUME NEW u \in DOMAIN q, NEW j \in DOMAIN q, u < j, q[u].justin PROVE q[j].justin
  <2>1. Before(q, q[u].id, q[j].id) BY <1>6 DEF Before
  <2>2. CASE q[j].id \in U BY <1>4, <2>2
  <2>3. CASE q[u].id \in S /\ q[j].id \in S /\ Before(z, q[u].id, q[j].id)
    <3>1. PICK x \in DOMAIN z : q[u] = z[x] BY <1>4, <2>3
    <3>2. PICK y \in DOMAIN z : q[j] = z[y] BY <1>4, <2>3
    <3>3. x < y BY <2>3, <3>1, <3>2 DEF Before, HasCopies
    <3> QED BY <1>6, <3>1, <3>2, <3>3 DEF NewLast
  <2> QED BY <1>5, <2>1, <2>2, <2>3
<1>7. NewLast(q) BY <1>6 DEF NewLast
<1>8. OldOf(q) \subseteq OldOf(z) \cap S BY <1>4 DEF OldOf
<1>9. NewOf(q) \subseteq NewOf(z) \cup U BY <1>4 DEF NewOf
<1>10. \A a, b : Before(q, a, b) /\ b \in OldOf(q) => a \in S /\ Before(z, a, b) BY <1>5, <1>8
<1> QED BY <1>1, <1>7, <1>8, <1>9, <1>10

-----
\* The processes of the file; the bound on waiting; the most that one who is at level 4
\* and not past its quantum runs on.
N == Len(processList)
Bound == Longest + (N - 2) * Quantum
Share == IF Quantum < Longest THEN Quantum ELSE Longest
\* Those ahead of p at level 4, and how long they may run before it.
AheadOf(p) == {q \in Processes \ Running : Before(Q[4], q, p)}
Cost(p) == Share * Cardinality(AheadOf(p))
\* How long the one that runs has run since it was started, how long it may run on, and
\* whether this tick is not yet counted with those who wait.
Used(r) == t - runningSince[r] - (IF part = "run" THEN 1 ELSE 0)
LeftOf(r) == IF currLevel[r] < 4 \/ remainingTime[r] < Quantum - Used(r) THEN remainingTime[r] ELSE Quantum - Used(r)
Due == IF part = "age" THEN 1 ELSE 0

\* What the inductive invariant says of the one that runs,
RunnerIs(r) ==
  /\ Used(r) >= 0 /\ remainingTime[r] >= 1 /\ remainingTime[r] + Used(r) <= Longest
  /\ part # "run" => Used(r) >= 1
  /\ currLevel[r] = 4 => Used(r) < Quantum
  /\ Used(r) >= 1 /\ part # "age" => timeSinceLastRun[r] = 0
  /\ currLevel[r] = 4 => timeSinceLastRun[r] <= Bound
Runner == \A r \in Running : RunnerIs(r)
\* of remaining times,
Table ==
  /\ Processes # {} => Bursts # {}
  /\ \A p \in Processes \ Running : p \notin finished => 1 <= remainingTime[p] /\ remainingTime[p] <= Longest
\* of the new at level 4, who stand at its back and have not waited,
NewFacts ==
  /\ part = "insert" => NewOf(Q[4]) = {}
  /\ NewLast(Q[4])
  /\ \A p \in NewOf(Q[4]) : timeSinceLastRun[p] <= IF part = "order" THEN 1 ELSE 0
  /\ \A p \in Processes \ scheduled : timeSinceLastRun[p] = 0
\* of the CPU, which is not idle while somebody waits, nor without one that was stopped or ended,
CpuBusy == part = "run" => Running # {} \/ Live = {}
Rested == part \in {"age", "order"} /\ Running = {} => Longest > Quantum \/ finished # {} \/ Live = {}
\* and of who waits at level 4: the wait so far and the time until its turn stay in the bound.
WaitIs(p) ==
  /\ \A r \in Running : timeSinceLastRun[p] + Due + LeftOf(r) + Cost(p) <= Bound
  /\ Running = {} => timeSinceLastRun[p] + Due + Cost(p) <= Bound
Waits == \A p \in OldOf(Q[4]) \ Running : WaitIs(p)

\* The inductive invariant of waiting.
WaitInv == N > 1 /\ Quantum > 1 => Runner /\ Table /\ NewFacts /\ CpuBusy /\ Rested /\ Waits

\* Multiplication by a natural number is monotone.
LEMMA Times ==
  ASSUME NEW a \in Nat, NEW b \in Nat, NEW c \in Nat, b <= c
  PROVE  a * b \in Nat /\ a * c \in Nat /\ a * b <= a * c
<1>1. PICK d \in Nat : c = b + d
  <2>1. c - b \in Nat /\ c = b + (c - b) OBVIOUS
  <2> QED BY <2>1
<1>2. a * b \in Nat /\ a * c \in Nat /\ a * d \in Nat OBVIOUS
<1>3. a * c = a * b + a * d BY <1>1
<1> QED BY <1>2, <1>3

\* The numbers of the bound.
LEMMA Numbers ==
  ASSUME QueuesInv, N > 1, Bursts # {}
  PROVE  /\ N \in Nat /\ Longest \in Nat /\ Longest >= 1 /\ \A b \in Bursts : b <= Longest
         /\ Quantum \in Nat /\ Quantum >= 1
         /\ Share \in Nat /\ Share >= 1 /\ Share <= Quantum /\ Share <= Longest
         /\ (Longest > Quantum => Share = Quantum)
         /\ (N - 2) * Quantum \in Nat /\ Bound \in Nat /\ Bound >= Longest
         /\ Bound = Longest + (N - 2) * Quantum
         /\ \A c \in 0 .. N - 2 : Share * c \in Nat /\ Share * c <= (N - 2) * Quantum
         /\ Quantum * (N - 1) = Quantum + (N - 2) * Quantum
<1>1. N \in Nat /\ N - 2 \in Nat BY DEF N, QueuesInv, NaiveTypeOK
<1>2. PICK max \in Bursts \cup {0} : \A b \in Bursts : b <= max BY NaiveAssumption
<1>3. Bursts \subseteq Nat \ {0} /\ Quantum \in Nat /\ Quantum >= 1 BY NaiveAssumption
<1>4. max \in Bursts
  <2>1. PICK b \in Bursts : TRUE OBVIOUS
  <2>2. b <= max /\ b \in Nat /\ b # 0 BY <1>2, <1>3
  <2> QED BY <1>2, <2>2
<1>5. Longest \in Bursts /\ \A b \in Bursts : b <= Longest BY <1>2, <1>4 DEF Longest
<1>6. Longest \in Nat /\ Longest >= 1 BY <1>3, <1>5
<1>7. /\ Share \in Nat /\ Share >= 1 /\ Share <= Quantum /\ Share <= Longest
      /\ (Longest > Quantum => Share = Quantum)
  BY <1>3, <1>6 DEF Share
<1>8. (N - 2) * Quantum \in Nat /\ Quantum * (N - 2) = (N - 2) * Quantum BY <1>1, <1>3
<1>9. ASSUME NEW c \in 0 .. N - 2 PROVE Share * c \in Nat /\ Share * c <= (N - 2) * Quantum
  <2>1. c \in Nat /\ c <= N - 2 BY <1>1
  <2>2. Share * c \in Nat /\ Share * (N - 2) \in Nat /\ Share * c <= Share * (N - 2)
    BY <1>1, <1>7, <2>1, Times
  <2>3. (N - 2) * Share <= (N - 2) * Quantum BY <1>1, <1>3, <1>7, Times
  <2>4. Share * (N - 2) = (N - 2) * Share BY <1>1, <1>7
  <2> QED BY <1>8, <2>2, <2>3, <2>4
<1>10. Quantum * (N - 1) = Quantum + (N - 2) * Quantum BY <1>1, <1>3
<1>11. Bound = Longest + (N - 2) * Quantum /\ Bound \in Nat /\ Bound >= Longest
  BY <1>6, <1>8 DEF Bound
<1> QED BY <1>1, <1>3, <1>5, <1>6, <1>7, <1>8, <1>9, <1>10, <1>11

\* processList names each process once.
LEMMA ProcessesN ==
  ASSUME QueuesInv
  PROVE  IsFiniteSet(Processes) /\ Cardinality(Processes) = N
<1>1. processList \in Seq(Ids) /\ \A u, j \in DOMAIN processList : processList[u] = processList[j] => u = j
  BY DEF QueuesInv, NaiveTypeOK
<1>2. DOMAIN processList = 1 .. N /\ N \in Nat BY <1>1 DEF N
<1>3. Processes = {processList[u] : u \in 1 .. N} BY <1>2 DEF Processes, ToSet
<1>4. IsFiniteSet(1 .. N) /\ Cardinality(1 .. N) = N
  <2>1. \A v \in Nat : IsFiniteSet(1 .. v) /\ Cardinality(1 .. v) = v BY FS_Interval
  <2> QED BY <1>2, <2>1
<1> DEFINE f == [u \in 1 .. N |-> processList[u]]
<1>5. f \in Bijection(1 .. N, Processes)
  BY <1>1, <1>2, <1>3 DEF Bijection, Injection, IsInjective, Surjection
<1>6. IsFiniteSet(Processes) /\ Cardinality(Processes) = Cardinality(1 .. N)
  <2> HIDE DEF f
  <2>1. PICK v : v = 1 .. N OBVIOUS
  <2>2. IsFiniteSet(v) /\ ExistsBijection(v, Processes) BY <1>4, <1>5, <2>1 DEF ExistsBijection
  <2>3. IsFiniteSet(Processes) /\ Cardinality(v) = Cardinality(Processes) BY <2>2, FS_Bijection
  <2> QED BY <2>1, <2>3
<1> QED BY <1>4, <1>6

\* Who has fewer ahead waits for fewer shares.
LEMMA CostIs ==
  ASSUME Share \in Nat, NEW A, IsFiniteSet(A), NEW B, B \subseteq A
  PROVE  /\ Share * Cardinality(B) \in Nat /\ Share * Cardinality(A) \in Nat
         /\ Share * Cardinality(B) <= Share * Cardinality(A)
         /\ \A x \in A \ B : Share * Cardinality(B) + Share <= Share * Cardinality(A)
<1>1. /\ IsFiniteSet(B) /\ Cardinality(A) \in Nat /\ Cardinality(B) \in Nat
      /\ Cardinality(B) <= Cardinality(A)
  BY FS_Subset, FS_CardinalityType
<1>2. /\ Share * Cardinality(B) \in Nat /\ Share * Cardinality(A) \in Nat
      /\ Share * Cardinality(B) <= Share * Cardinality(A)
  BY <1>1, Times
<1>3. ASSUME NEW x \in A \ B PROVE Share * Cardinality(B) + Share <= Share * Cardinality(A)
  <2>1. Cardinality(B) < Cardinality(A) BY <1>1, <1>3, FS_Subset
  <2>2. Cardinality(B) + 1 \in Nat /\ Cardinality(B) + 1 <= Cardinality(A) BY <1>1, <2>1
  <2>3. Share * (Cardinality(B) + 1) <= Share * Cardinality(A) BY <1>1, <2>2, Times
  <2>4. Share * (Cardinality(B) + 1) = Share * Cardinality(B) + Share BY <1>1
  <2> QED BY <2>3, <2>4
<1> QED BY <1>2, <1>3

\* WaitInv where there is something to bound.
Sound == Runner /\ Table /\ NewFacts /\ CpuBusy /\ Rested /\ Waits

\* What the queue of level 4 says of those in it.
LEMMA Level4Is ==
  ASSUME QueuesInv
  PROVE  /\ 4 \in Levels /\ Q[4] \in Seq(Copies) /\ HasCopies(Q[4], {p \in Live : currLevel[p] = 4})
         /\ OldOf(Q[4]) \cup NewOf(Q[4]) = {p \in Live : currLevel[p] = 4}
         /\ OldOf(Q[4]) \cap NewOf(Q[4]) = {}
         /\ \A p : IsFiniteSet(AheadOf(p)) /\ AheadOf(p) \subseteq Live \ {p}
<1>1. PICK S : S = {p \in Live : currLevel[p] = 4} OBVIOUS
<1>2. 4 \in Levels /\ Q[4] \in Seq(Copies) /\ HasCopies(Q[4], S)
  BY <1>1 DEF QueuesInv, NaiveTypeOK, Placed, Levels
<1>3. PICK q : q = Q[4] OBVIOUS
<1>4. OldOf(q) \cup NewOf(q) = S /\ OldOf(q) \cap NewOf(q) = {}
  BY <1>2, <1>3 DEF OldOf, NewOf, HasCopies
<1>5. ASSUME NEW p PROVE IsFiniteSet(AheadOf(p)) /\ AheadOf(p) \subseteq Live \ {p}
  <2>1. AheadOf(p) \subseteq Processes BY DEF AheadOf
  <2>2. \A a : Before(q, a, p) => a \in S /\ a # p BY <1>2, <1>3 DEF Before, HasCopies
  <2>3. AheadOf(p) \subseteq Live \ {p} BY <1>1, <1>3, <2>2 DEF AheadOf
  <2> QED BY <2>1, <2>3, ProcessesN, FS_Subset
<1> QED BY <1>1, <1>2, <1>3, <1>4, <1>5

\* A step of the invariant, when there is something to prove.
LEMMA SoundStep ==
  ASSUME QueuesInv, WaitInv, processList' = processList,
         N > 1 /\ Quantum > 1 /\ Sound /\ Bursts # {} => Sound'
  PROVE  WaitInv'
<1>1. N' = N BY DEF N
<1>2. CASE N > 1 /\ Quantum > 1
  <2>1. Sound BY <1>2 DEF WaitInv, Sound
  <2>2. Processes # {}
    <3>1. 1 \in DOMAIN processList BY <1>2 DEF N, QueuesInv, NaiveTypeOK
    <3> QED BY <3>1 DEF Processes, ToSet
  <2>3. Bursts # {} BY <2>1, <2>2 DEF Sound, Table
  <2> QED BY <1>2, <2>1, <2>3 DEF WaitInv, Sound
<1> QED BY <1>1, <1>2 DEF WaitInv

\* The numbers of the one that runs.
LEMMA RunsIs ==
  ASSUME QueuesInv, NEW r \in Running
  PROVE  /\ r \in Processes /\ r \in Live /\ Running = {r}
         /\ remainingTime[r] \in Nat /\ runningSince[r] \in Nat /\ t \in Nat
         /\ timeSinceLastRun[r] \in Nat /\ currLevel[r] \in 1 .. 4
         /\ Used(r) \in Int /\ LeftOf(r) \in Int /\ Quantum \in Nat /\ Due \in Nat
<1>1. r \in Processes /\ r \in Live /\ Running = {r} BY DEF QueuesInv, OneRuns, Running
<1>2. /\ remainingTime[r] \in Nat /\ runningSince[r] \in Nat /\ t \in Nat
      /\ timeSinceLastRun[r] \in Nat /\ currLevel[r] \in 1 .. 4
  BY <1>1 DEF QueuesInv, NaiveTypeOK, Running, Levels
<1>3. Quantum \in Nat BY NaiveAssumption
<1> QED BY <1>1, <1>2, <1>3 DEF Used, LeftOf, Due

\* Before the first tick nobody waits.
LEMMA NaiveInitWaits ==
  ASSUME NaiveInit
  PROVE  WaitInv
<1>1. Running = {} /\ Live = {} /\ Q[4] = <<>> /\ part = "insert" /\ finished = {}
  BY DEF NaiveInit, Running, Live, Levels
<1>2. Runner /\ CpuBusy /\ Rested BY <1>1 DEF Runner, CpuBusy, Rested
<1>3. NewOf(Q[4]) = {} /\ OldOf(Q[4]) = {} /\ NewLast(Q[4]) BY <1>1 DEF NewOf, OldOf, NewLast
<1>4. NewFacts /\ Waits BY <1>3 DEF NewFacts, Waits, NaiveInit
<1>5. ASSUME N > 1, Quantum > 1 PROVE Table
  <2>1. remainingTime \in [Processes -> Bursts] BY DEF NaiveInit
  <2>2. Processes # {} => Bursts # {} BY <2>1
  <2>3. ASSUME NEW p \in Processes PROVE 1 <= remainingTime[p] /\ remainingTime[p] <= Longest
    <3>1. remainingTime[p] \in Bursts BY <2>1
    <3>2. \A b \in Bursts : b <= Longest BY <1>5, <2>2, <3>1, Numbers, NaiveInitIs
    <3>3. remainingTime[p] \in Nat \ {0} BY <3>1, NaiveAssumption
    <3> QED BY <3>1, <3>2, <3>3
  <2> QED BY <2>2, <2>3 DEF Table
<1> QED BY <1>2, <1>4, <1>5 DEF WaitInv

\* Who arrives at level 4 is new there and gets ahead of nobody.
LEMMA InsertWaits ==
  ASSUME QueuesInv, QueuesInv', WaitInv, Insert
  PROVE  WaitInv'
<1>1. PICK come : come = {p \in {p \in Processes \ scheduled : arrivalTime[p] = t} : currLevel[p] = 4}
  OBVIOUS
<1>2. /\ Q' = [l \in Levels |-> Q[l] \o CopiesOf({p \in {p \in Processes \ scheduled : arrivalTime[p] = t} : currLevel[p] = l})]
      /\ scheduled' = scheduled \cup {p \in Processes \ scheduled : arrivalTime[p] = t}
      /\ part = "insert" /\ part' = "start"
      /\ UNCHANGED <<processList, arrivalTime, currLevel, remainingTime, timeSinceLastRun,
                     runningSince, finished, t>>
  BY DEF Insert
<1>3. Processes' = Processes /\ Running' = Running /\ N' = N /\ Live \subseteq Live'
  BY <1>2 DEF Processes, Running, N, Live
<1>4. ASSUME N > 1, Quantum > 1, Sound, Bursts # {} PROVE Sound'
  <2>1. PICK z : z = Q[4] OBVIOUS
  <2>2. PICK r : r = CopiesOf(come) OBVIOUS
  <2>3. PICK Z : Z = {p \in Live : currLevel[p] = 4} OBVIOUS
  <2>4. z \in Seq(Copies) /\ HasCopies(z, Z) /\ 4 \in Levels BY <2>1, <2>3, Level4Is
  <2>5. /\ r \in Seq(Copies) /\ HasCopies(r, come)
        /\ \A k \in DOMAIN r : r[k].justin
    <3>1. come \in SUBSET Processes BY <1>1
    <3>2. /\ r \in Seq(Copies) /\ HasCopies(r, come)
          /\ \A k \in DOMAIN r : r[k] = Copy(r[k].id, remainingTime[r[k].id])
      BY <2>2, <3>1, CopiesOfIs DEF QueuesInv
    <3> QED BY <3>2 DEF Copy
  <2>6. Q'[4] = z \o r BY <1>1, <1>2, <2>1, <2>2, <2>4
  <2>7. Z \cap come = {} BY <1>1, <2>3 DEF Live
  <2>8. NewLast(z) /\ From(z, z) BY <1>4, <2>1 DEF Sound, NewFacts, From
  <2>9. /\ NewLast(z \o r)
        /\ OldOf(z \o r) \subseteq OldOf(z) \cap Z
        /\ NewOf(z \o r) \subseteq NewOf(z) \cup come
        /\ \A a, b : Before(z \o r, a, b) /\ b \in OldOf(z \o r) => a \in Z /\ Before(z, a, b)
    BY <2>4, <2>5, <2>7, <2>8, BehindIs
  <2>10. PICK y : y = Q'[4] OBVIOUS
  <2>11. /\ NewLast(y) /\ OldOf(y) \subseteq OldOf(z)
         /\ NewOf(y) \subseteq NewOf(z) \cup come
         /\ \A a, b : Before(y, a, b) /\ b \in OldOf(y) => Before(z, a, b)
    BY <2>6, <2>9, <2>10
  <2>12. NewFacts'
    <3>1. NewOf(z) = {} /\ \A p \in Processes \ scheduled : timeSinceLastRun[p] = 0
      BY <1>2, <1>4, <2>1 DEF Sound, NewFacts
    <3>2. \A p \in NewOf(y) : timeSinceLastRun[p] = 0 BY <1>1, <2>11, <3>1
    <3>3. \A p \in NewOf(y) : timeSinceLastRun'[p] <= IF part' = "order" THEN 1 ELSE 0
      BY <1>2, <3>2
    <3>4. \A p \in Processes' \ scheduled' : timeSinceLastRun'[p] = 0 BY <1>2, <1>3, <3>1
    <3> QED BY <1>2, <2>10, <2>11, <3>3, <3>4 DEF NewFacts
  <2>13. Runner' /\ Table' /\ CpuBusy' /\ Rested'
    <3>1. \A r1 \in Running : Used(r1)' = Used(r1) BY <1>2 DEF Used
    <3>2. Bound' = Bound BY <1>3 DEF Bound
    <3>3. Runner' BY <1>2, <1>3, <1>4, <3>1, <3>2 DEF Sound, Runner, RunnerIs
    <3> QED BY <1>2, <1>3, <1>4, <3>3 DEF Sound, Table, CpuBusy, Rested
  <2>14. Waits'
    <3>1. SUFFICES ASSUME NEW p \in OldOf(y) \ Running PROVE WaitIs(p)' BY <1>3, <2>10 DEF Waits
    <3>2. WaitIs(p) BY <1>4, <2>1, <2>11 DEF Sound, Waits
    <3>3. AheadOf(p)' \subseteq AheadOf(p) BY <1>3, <2>1, <2>10, <2>11 DEF AheadOf
    <3>4. Cost(p)' <= Cost(p) /\ Cost(p)' \in Nat /\ Cost(p) \in Nat
      <4>1. IsFiniteSet(AheadOf(p)) /\ Share \in Nat BY <1>4, Level4Is, Numbers
      <4> QED BY <3>3, <4>1, CostIs DEF Cost, Share
    <3>5. Due' = Due /\ Bound' = Bound /\ \A r1 \in Running : LeftOf(r1)' = LeftOf(r1)
      BY <1>2, <1>3 DEF Due, Bound, LeftOf, Used
    <3>6. p \in Processes /\ timeSinceLastRun[p] \in Nat
      <4>1. p \in Live BY <2>1, <2>11, Level4Is
      <4> QED BY <4>1 DEF Live, QueuesInv, NaiveTypeOK
    <3>7. Bound \in Nat /\ Due \in Nat /\ \A r1 \in Running : LeftOf(r1) \in Int
      BY <1>4, Numbers, RunsIs DEF Due
    <3>8. \A r1 \in Running : timeSinceLastRun[p] + Due + LeftOf(r1) + Cost(p)' <= Bound
      BY <3>2, <3>4, <3>6, <3>7 DEF WaitIs
    <3>9. Running = {} => timeSinceLastRun[p] + Due + Cost(p)' <= Bound
      BY <3>2, <3>4, <3>6, <3>7 DEF WaitIs
    <3> QED BY <1>2, <1>3, <3>5, <3>8, <3>9 DEF WaitIs
  <2> QED BY <2>12, <2>13, <2>14 DEF Sound
<1> QED BY <1>2, <1>4, SoundStep

\* What startNextProcess() does.
LEMMA StartIs ==
  ASSUME QueuesInv, Start
  PROVE  \/ runningSince' = runningSince /\ (Running # {} \/ Live = {})
         \/ /\ Running = {}
            /\ \E p \in Live :
                 /\ runningSince' = [runningSince EXCEPT ![p] = t]
                 /\ Q[4] # <<>> => currLevel[p] = 4 /\ p = NextOf(Q[4])
<1> DEFINE nonempty == {l \in Levels : Q[l] # <<>>}
           top == CHOOSE l \in nonempty : \A m \in nonempty : m <= l
           next == IF top = 4 THEN NextOf(Q[4]) ELSE IF top = 1 THEN Q[1][1].id ELSE Shortest(Q[top])
<1>1. runningSince' = IF Running = {} /\ nonempty # {}
                      THEN [runningSince EXCEPT ![next] = t] ELSE runningSince
  BY DEF Start
<1>2. ASSUME nonempty # {}
      PROVE  next \in Live /\ (Q[4] # <<>> => currLevel[next] = 4 /\ next = NextOf(Q[4]))
  <2>1. \E l \in nonempty : \A m \in nonempty : m <= l BY <1>2 DEF Levels
  <2>2. top \in nonempty /\ \A m \in nonempty : m <= top
    <3> HIDE DEF nonempty
    <3> QED BY <2>1
  <2>3. top \in Levels /\ Q[top] # <<>> /\ \A m \in Levels : Q[m] # <<>> => m <= top BY <2>2
  <2> HIDE DEF top
  <2>4. Q[4] # <<>> => top = 4 BY <2>3 DEF Levels
  <2>5. next \in Live /\ currLevel[next] = top BY <2>3, NextIs
  <2> QED BY <2>4, <2>5
<1>3. ASSUME nonempty = {} PROVE Live = {}
  <2>1. \A l \in Levels : Q[l] = <<>> BY <1>3
  <2>2. \A l \in Levels : {p \in Live : currLevel[p] = l} = {}
    BY <2>1 DEF QueuesInv, Placed, HasCopies
  <2>3. \A p \in Live : currLevel[p] \in Levels BY DEF QueuesInv, NaiveTypeOK, Live
  <2> QED BY <2>2, <2>3
<1> HIDE DEF nonempty, next
<1> QED BY <1>1, <1>2, <1>3

\* Whom startNextProcess() chooses is the head of level 4, or the second behind a new one.
LEMMA StartWaits ==
  ASSUME QueuesInv, QueuesInv', WaitInv, Start
  PROVE  WaitInv'
<1>1. /\ t' = t + 1 /\ part = "start" /\ part' = "run"
      /\ UNCHANGED <<processList, arrivalTime, currLevel, remainingTime, timeSinceLastRun,
                     scheduled, finished, Q>>
  BY DEF Start
<1>2. Processes' = Processes /\ Live' = Live /\ N' = N BY <1>1 DEF Processes, Live, N
<1>3. ASSUME N > 1, Quantum > 1, Sound, Bursts # {} PROVE Sound'
  <2>1. NewFacts' /\ Rested' BY <1>1, <1>2, <1>3 DEF Sound, NewFacts, Rested
  <2>2. Bound' = Bound /\ Bound \in Nat /\ Longest \in Nat /\ Longest >= 1 /\ Quantum \in Nat
    BY <1>2, <1>3, Numbers DEF Bound
  <2>3. Due = 0 /\ Due' = 0 BY <1>1 DEF Due
  <2>4. CASE runningSince' = runningSince /\ (Running # {} \/ Live = {})
    <3>1. Running' = Running BY <1>2, <2>4 DEF Running
    <3>2. \A r \in Running : Used(r)' = Used(r) /\ LeftOf(r)' = LeftOf(r)
      <4>1. ASSUME NEW r \in Running PROVE Used(r)' = Used(r) BY <1>1, <2>4, RunsIs DEF Used
      <4> QED BY <1>1, <4>1 DEF LeftOf
    <3>3. Runner' BY <1>1, <1>3, <2>2, <3>1, <3>2 DEF Sound, Runner, RunnerIs
    <3>4. Table' /\ CpuBusy' BY <1>1, <1>2, <1>3, <2>4, <3>1 DEF Sound, Table, CpuBusy
    <3>5. Waits'
      <4>1. \A p : AheadOf(p)' = AheadOf(p) BY <1>1, <1>2, <3>1 DEF AheadOf
      <4>2. \A p : Cost(p)' = Cost(p) BY <4>1 DEF Cost, Share
      <4> QED BY <1>1, <1>3, <2>2, <2>3, <3>1, <3>2, <4>2 DEF Sound, Waits, WaitIs
    <3> QED BY <2>1, <3>3, <3>4, <3>5 DEF Sound
  <2>5. ASSUME Running = {}, NEW v \in Live, runningSince' = [runningSince EXCEPT ![v] = t],
               Q[4] # <<>> => currLevel[v] = 4 /\ v = NextOf(Q[4])
        PROVE  Sound'
    <3>1. v \in Processes /\ v \in scheduled /\ v \notin finished /\ t \in Nat /\ currLevel[v] \in Levels
          /\ remainingTime[v] \in Nat /\ timeSinceLastRun[v] \in Nat
      BY DEF Live, QueuesInv, NaiveTypeOK
    <3>2. Running' = {v} /\ runningSince'[v] = t
      BY <1>2, <2>5, <3>1 DEF Running, QueuesInv, NaiveTypeOK, NotRunning
    <3>3. Used(v)' = 0 BY <1>1, <3>1, <3>2 DEF Used
    <3>4. 1 <= remainingTime[v] /\ remainingTime[v] <= Longest
      BY <1>3, <2>5, <3>1 DEF Sound, Table
    <3>5. currLevel[v] = 4 => LeftOf(v)' \in Nat /\ LeftOf(v)' <= Share
      <4>1. LeftOf(v)' = IF currLevel[v] < 4 \/ remainingTime[v] < Quantum THEN remainingTime[v] ELSE Quantum
        BY <1>1, <2>2, <3>3 DEF LeftOf
      <4> QED BY <2>2, <3>1, <3>4, <4>1 DEF Share
    <3>6. currLevel[v] = 4 => timeSinceLastRun[v] <= Bound
      <4>1. ASSUME currLevel[v] = 4 PROVE timeSinceLastRun[v] <= Bound
        <5>1. v \in OldOf(Q[4]) \/ v \in NewOf(Q[4]) BY <2>5, <4>1, Level4Is
        <5>2. CASE v \in OldOf(Q[4])
          <6>1. timeSinceLastRun[v] + Due + Cost(v) <= Bound
            BY <1>3, <2>5, <5>2 DEF Sound, Waits, WaitIs
          <6>2. Cost(v) \in Nat BY <1>3, Level4Is, Numbers, CostIs DEF Cost
          <6> QED BY <2>2, <2>3, <3>1, <6>1, <6>2
        <5>3. CASE v \in NewOf(Q[4]) BY <1>1, <1>3, <2>2, <3>1, <5>3 DEF Sound, NewFacts
        <5> QED BY <5>1, <5>2, <5>3
      <4> QED BY <4>1
    <3>7. Runner'
      <4>1. RunnerIs(v)'
        <5>1. 0 < Quantum /\ remainingTime[v] + 0 <= Longest BY <1>3, <2>2, <3>1, <3>4
        <5> QED BY <1>1, <2>2, <3>3, <3>4, <3>6, <5>1 DEF RunnerIs
      <4> QED BY <3>2, <4>1 DEF Runner
    <3>8. Table' /\ CpuBusy' BY <1>1, <1>2, <1>3, <2>5, <3>2 DEF Sound, Table, CpuBusy
    <3>9. ASSUME NEW p \in OldOf(Q[4]) \ {v} PROVE WaitIs(p)'
      <4>1. p \in Live /\ currLevel[p] = 4 /\ Q[4] \in Seq(Copies) /\ HasCopies(Q[4], {q \in Live : currLevel[q] = 4})
        BY <3>9, Level4Is
      <4>2. PICK j \in DOMAIN Q[4] : Q[4][j].id = p /\ ~ Q[4][j].justin BY <3>9 DEF OldOf
      <4>3. Q[4] # <<>> /\ DOMAIN Q[4] = 1 .. Len(Q[4]) /\ Len(Q[4]) \in Nat /\ 1 \in DOMAIN Q[4] /\ j \in Nat /\ j >= 1
        BY <4>1, <4>2
      <4>4. ~ Q[4][1].justin BY <1>3, <4>2, <4>3 DEF Sound, NewFacts, NewLast
      <4>5. v = Q[4][1].id BY <2>5, <4>3, <4>4 DEF NextOf
      <4>6. 1 < j BY <3>9, <4>2, <4>3, <4>5
      <4>7. Before(Q[4], v, p) BY <4>2, <4>3, <4>5, <4>6 DEF Before
      <4>8. v \in AheadOf(p) BY <2>5, <3>1, <4>7 DEF AheadOf
      <4>9. AheadOf(p)' \subseteq AheadOf(p) /\ v \notin AheadOf(p)'
        BY <1>1, <1>2, <2>5, <3>2 DEF AheadOf
      <4>10. Cost(p)' + Share <= Cost(p) /\ Cost(p)' \in Nat /\ Cost(p) \in Nat /\ Share \in Nat
        <5>1. IsFiniteSet(AheadOf(p)) /\ Share \in Nat BY <1>3, Level4Is, Numbers
        <5>2. PICK A : A = AheadOf(p) OBVIOUS
        <5>3. PICK B : B = AheadOf(p)' OBVIOUS
        <5>4. B \subseteq A /\ v \in A \ B /\ IsFiniteSet(A) BY <4>8, <4>9, <5>1, <5>2, <5>3
        <5>5. Share * Cardinality(B) + Share <= Share * Cardinality(A) /\ Share * Cardinality(A) \in Nat /\ Share * Cardinality(B) \in Nat
          BY <5>1, <5>4, CostIs
        <5>6. Cost(p) = Share * Cardinality(A) /\ Cost(p)' = Share * Cardinality(B)
          BY <5>2, <5>3 DEF Cost, Share
        <5> QED BY <5>1, <5>5, <5>6
      <4>11. timeSinceLastRun[p] + Due + Cost(p) <= Bound
        BY <1>3, <2>5, <3>9 DEF Sound, Waits, WaitIs
      <4>12. timeSinceLastRun[p] \in Nat BY <4>1 DEF Live, QueuesInv, NaiveTypeOK
      <4>13. timeSinceLastRun[p] + Due' + LeftOf(v)' + Cost(p)' <= Bound
        BY <2>2, <2>3, <2>5, <3>5, <4>3, <4>10, <4>11, <4>12
      <4> QED BY <1>1, <2>2, <3>2, <4>13 DEF WaitIs
    <3>10. Waits' BY <1>1, <3>2, <3>9 DEF Waits
    <3> QED BY <2>1, <3>7, <3>8, <3>10 DEF Sound
  <2> QED BY <2>4, <2>5, StartIs
<1> QED BY <1>1, <1>3, SoundStep

\* Who gets ahead of nobody waits no longer.
LEMMA CostStep ==
  ASSUME QueuesInv, N > 1, Bursts # {}, NEW p, AheadOf(p)' \subseteq AheadOf(p)
  PROVE  Cost(p)' \in Nat /\ Cost(p) \in Nat /\ Cost(p)' <= Cost(p)
<1>1. IsFiniteSet(AheadOf(p)) /\ Share \in Nat BY Level4Is, Numbers
<1> QED BY <1>1, CostIs DEF Cost, Share

\* What a tick of the process p makes of level 4.
LEMMA RunLevel4 ==
  ASSUME QueuesInv, NewLast(Q[4]), NEW p \in Running, Finish(p) \/ Expire(p)
  PROVE  /\ NewLast(Q'[4])
         /\ OldOf(Q'[4]) \subseteq OldOf(Q[4]) \ {p}
         /\ NewOf(Q'[4]) \subseteq NewOf(Q[4]) \cup (IF Finish(p) THEN {} ELSE {p})
         /\ \A a, b : Before(Q'[4], a, b) /\ b \in OldOf(Q'[4]) => a # p /\ Before(Q[4], a, b)
<1>1. PICK z : z = Q[4] OBVIOUS
<1>2. PICK Z : Z = {q \in Live : currLevel[q] = 4} OBVIOUS
<1>3. 4 \in Levels /\ z \in Seq(Copies) /\ HasCopies(z, Z) /\ NewLast(z) /\ Q \in [Levels -> Seq(Copies)]
  BY <1>1, <1>2, Level4Is DEF QueuesInv, NaiveTypeOK
<1>4. PICK y : y = Q'[4] OBVIOUS
<1>5. p \in Processes /\ p \in Live /\ currLevel[p] \in Levels /\ remainingTime[p] \in Nat
  BY RunsIs DEF Levels
<1>6. CASE Finish(p) /\ currLevel[p] # 4
  <2>1. y = z BY <1>1, <1>3, <1>4, <1>5, <1>6 DEF Finish
  <2>2. \A k \in DOMAIN z : z[k].id \in Z /\ z[k].id # p BY <1>2, <1>3, <1>6 DEF HasCopies
  <2>3. OldOf(z) \subseteq OldOf(z) \ {p} BY <2>2 DEF OldOf
  <2>4. \A a, b : Before(z, a, b) => a # p BY <2>2 DEF Before
  <2> QED BY <1>1, <1>3, <1>4, <1>6, <2>1, <2>3, <2>4
<1>7. CASE ~ (Finish(p) /\ currLevel[p] # 4)
  <2>1. PICK ps : ps = {p} OBVIOUS
  <2>2. PICK s : s = Without(4, ps) OBVIOUS
  <2>3. s \in Seq(Copies) /\ HasCopies(s, Z \ ps) /\ From(s, z) /\ \A a, b : Before(s, a, b) => Before(z, a, b)
    BY <1>1, <1>3, <2>2, WithoutIs
  <2>4. PICK S : S = Z \ ps OBVIOUS
  <2>5. PICK r : r = IF Finish(p) THEN <<>> ELSE <<Copy(p, remainingTime[p] - 1)>> OBVIOUS
  <2>6. PICK U : U = IF Finish(p) THEN {} ELSE {p} OBVIOUS
  <2>7. r \in Seq(Copies) /\ HasCopies(r, U) /\ \A k \in DOMAIN r : r[k].justin
    <3>1. CASE Finish(p) BY <2>5, <2>6, <3>1 DEF HasCopies
    <3>2. CASE ~ Finish(p)
      <4>1. PICK c : c = Copy(p, remainingTime[p] - 1) OBVIOUS
      <4>2. remainingTime[p] > 1 BY <3>2 DEF Expire
      <4>3. c \in Copies /\ c.id = p /\ c.justin BY <1>5, <4>1, <4>2 DEF Copy, Copies
      <4>4. r = <<c>> /\ U = {p} BY <2>5, <2>6, <3>2, <4>1
      <4> QED BY <4>3, <4>4 DEF HasCopies
    <3> QED BY <3>1, <3>2
  <2>8. y = s \o r
    <3>1. CASE Finish(p)
      <4>1. y = Without(4, {p}) /\ r = <<>> BY <1>3, <1>4, <1>7, <2>5, <3>1 DEF Finish
      <4> QED BY <2>1, <2>2, <2>3, <4>1
    <3>2. CASE ~ Finish(p)
      <4>1. PICK c : c = Copy(p, remainingTime[p] - 1) OBVIOUS
      <4>2. y = Append(Without(4, {p}), c) /\ r = <<c>>
        BY <1>3, <1>4, <2>5, <3>2, <4>1 DEF Expire
      <4>3. y = Append(s, c) BY <2>1, <2>2, <4>2
      <4>4. c \in Copies /\ s \in Seq(Copies) BY <2>3, <2>7, <4>2
      <4>5. Append(s, c) = s \o <<c>> BY <4>4
      <4> QED BY <4>2, <4>3, <4>5
    <3> QED BY <3>1, <3>2
  <2>9. S \cap U = {} /\ HasCopies(s, S) BY <2>1, <2>3, <2>4, <2>6
  <2>10. /\ NewLast(s \o r)
         /\ OldOf(s \o r) \subseteq OldOf(z) \cap S
         /\ NewOf(s \o r) \subseteq NewOf(z) \cup U
         /\ \A a, b : Before(s \o r, a, b) /\ b \in OldOf(s \o r) => a \in S /\ Before(z, a, b)
    BY <1>3, <2>3, <2>7, <2>9, BehindIs
  <2>11. p \notin S BY <2>1, <2>4
  <2> QED BY <1>1, <1>4, <2>6, <2>8, <2>10, <2>11
<1> QED BY <1>6, <1>7

\* A tick of the one that runs is a tick less of what the others wait for.
LEMMA RunWaits ==
  ASSUME QueuesInv, QueuesInv', WaitInv, Run
  PROVE  WaitInv'
<1>1. /\ part = "run" /\ part' = "age"
      /\ UNCHANGED <<processList, arrivalTime, currLevel, timeSinceLastRun, scheduled, t>>
  BY DEF Run
<1>2. Processes' = Processes /\ N' = N BY <1>1 DEF Processes, N
<1>3. ASSUME N > 1, Quantum > 1, Sound, Bursts # {} PROVE Sound'
  <2>1. Bound' = Bound /\ Bound \in Nat /\ Longest \in Nat /\ Longest >= 1 /\ Quantum \in Nat
    BY <1>2, <1>3, Numbers DEF Bound
  <2>2. Due = 0 /\ Due' = 1 BY <1>1 DEF Due
  <2>3. CpuBusy' BY <1>1 DEF CpuBusy
  <2>4. OldOf(Q[4]) \cup NewOf(Q[4]) = {p \in Live : currLevel[p] = 4} BY Level4Is
  <2>5. \A p \in OldOf(Q[4]) : p \in Live /\ timeSinceLastRun[p] \in Nat
    <3>1. \A p \in Live : timeSinceLastRun[p] \in Nat BY DEF Live, QueuesInv, NaiveTypeOK
    <3> QED BY <2>4, <3>1
  <2>6. CASE Running = {} /\ UNCHANGED <<remainingTime, runningSince, finished, Q>>
    <3>1. Live = {} /\ Live' = Live /\ Running' = Running
      BY <1>1, <1>2, <1>3, <2>6 DEF Sound, CpuBusy, Live, Running
    <3>2. Runner' /\ Table' /\ Rested'
      BY <1>2, <1>3, <2>6, <3>1 DEF Sound, Runner, Table, Rested
    <3>3. OldOf(Q[4]) = {} /\ NewOf(Q[4]) = {} BY <2>4, <3>1
    <3>4. NewFacts' BY <1>1, <1>2, <1>3, <2>6, <3>3 DEF Sound, NewFacts
    <3>5. Waits' BY <2>6, <3>3 DEF Waits
    <3> QED BY <2>3, <3>2, <3>4, <3>5 DEF Sound
  <2>7. ASSUME NEW p \in Running, remainingTime' = [remainingTime EXCEPT ![p] = @ - 1],
               Finish(p) \/ Expire(p) \/ GoOn(p)
        PROVE  Sound'
    <3>1. /\ p \in Processes /\ p \in Live /\ Running = {p}
          /\ remainingTime[p] \in Nat /\ runningSince[p] \in Nat /\ t \in Nat
          /\ timeSinceLastRun[p] \in Nat /\ currLevel[p] \in 1 .. 4
      BY RunsIs
    <3>2. RunnerIs(p) /\ Used(p) = t - runningSince[p] - 1 /\ Used(p) \in Int
      BY <1>1, <1>3, <3>1 DEF Sound, Runner, Used
    <3>3. \A r \in Processes \ {p} : remainingTime'[r] = remainingTime[r]
      BY <2>7, <3>1 DEF QueuesInv, NaiveTypeOK
    <3>4. LeftOf(p) \in Int /\ LeftOf(p) >= 1 BY <2>1, <3>1, <3>2 DEF LeftOf, RunnerIs
    <3>5. CASE Finish(p) \/ Expire(p)
      <4>1. runningSince' = [runningSince EXCEPT ![p] = NotRunning] BY <3>5 DEF Finish, Expire
      <4>2. Running' = {} BY <1>2, <3>1, <4>1 DEF Running, QueuesInv, NaiveTypeOK
      <4>3. /\ NewLast(Q'[4])
            /\ OldOf(Q'[4]) \subseteq OldOf(Q[4]) \ {p}
            /\ NewOf(Q'[4]) \subseteq NewOf(Q[4]) \cup (IF Finish(p) THEN {} ELSE {p})
            /\ \A a, b : Before(Q'[4], a, b) /\ b \in OldOf(Q'[4]) => a # p /\ Before(Q[4], a, b)
        <5>1. NewLast(Q[4]) BY <1>3 DEF Sound, NewFacts
        <5> QED BY <3>5, <5>1, RunLevel4
      <4>4. Finish(p) => finished' = finished \cup {p} BY DEF Finish
      <4>5. ~ Finish(p) => /\ finished' = finished /\ currLevel[p] = 4
                           /\ t - runningSince[p] >= Quantum /\ remainingTime[p] > 1
        BY <3>5 DEF Expire
      <4>6. Runner' BY <4>2 DEF Runner
      <4>7. Table'
        <5>1. ASSUME NEW r \in Processes, r \notin finished' PROVE 1 <= remainingTime'[r] /\ remainingTime'[r] <= Longest
          <6>1. CASE r = p
            <7>1. remainingTime'[p] = remainingTime[p] - 1 /\ remainingTime[p] > 1
              BY <2>7, <3>1, <4>4, <4>5, <5>1, <6>1 DEF QueuesInv, NaiveTypeOK
            <7> QED BY <2>1, <3>1, <3>2, <6>1, <7>1 DEF RunnerIs
          <6>2. CASE r # p
            <7>1. r \notin finished BY <4>4, <4>5, <5>1
            <7> QED BY <1>3, <3>1, <3>3, <5>1, <6>2, <7>1 DEF Sound, Table
          <6> QED BY <6>1, <6>2
        <5> QED BY <1>2, <1>3, <5>1 DEF Sound, Table
      <4>8. Rested'
        <5>1. CASE Finish(p) BY <4>4, <5>1 DEF Rested
        <5>2. CASE ~ Finish(p) BY <2>1, <3>1, <3>2, <4>5, <5>2 DEF Rested, RunnerIs
        <5> QED BY <5>1, <5>2
      <4>9. NewFacts'
        <5>1. ASSUME NEW r \in NewOf(Q'[4]) PROVE timeSinceLastRun[r] <= 0
          <6>1. CASE r \in NewOf(Q[4]) BY <1>1, <1>3, <6>1 DEF Sound, NewFacts
          <6>2. CASE r \notin NewOf(Q[4])
            <7>1. r = p /\ ~ Finish(p) BY <4>3, <5>1, <6>2
            <7>2. Used(p) >= 1 BY <1>3, <2>1, <3>1, <3>2, <4>5, <7>1
            <7> QED BY <1>1, <3>2, <7>1, <7>2 DEF RunnerIs
          <6> QED BY <6>1, <6>2
        <5>2. \A r \in Processes' \ scheduled' : timeSinceLastRun'[r] = 0
          BY <1>1, <1>2, <1>3 DEF Sound, NewFacts
        <5>3. \A r \in NewOf(Q'[4]) : timeSinceLastRun'[r] <= IF part' = "order" THEN 1 ELSE 0
          BY <1>1, <5>1
        <5> QED BY <1>1, <4>3, <5>2, <5>3 DEF NewFacts
      <4>10. ASSUME NEW q \in OldOf(Q'[4]) PROVE WaitIs(q)'
        <5>1. q \in OldOf(Q[4]) \ Running /\ q \in Live /\ timeSinceLastRun[q] \in Nat
          BY <2>5, <3>1, <4>3, <4>10
        <5>2. timeSinceLastRun[q] + Due + LeftOf(p) + Cost(q) <= Bound
          BY <1>3, <5>1 DEF Sound, Waits, WaitIs
        <5>3. AheadOf(q)' \subseteq AheadOf(q) BY <1>2, <3>1, <4>3, <4>10 DEF AheadOf
        <5>4. Cost(q)' \in Nat /\ Cost(q) \in Nat /\ Cost(q)' <= Cost(q) BY <1>3, <5>3, CostStep
        <5>5. timeSinceLastRun[q] + Due' + Cost(q)' <= Bound
          BY <2>1, <2>2, <3>4, <5>1, <5>2, <5>4
        <5> QED BY <1>1, <2>1, <4>2, <5>5 DEF WaitIs
      <4>11. Waits' BY <4>10 DEF Waits
      <4> QED BY <2>3, <4>6, <4>7, <4>8, <4>9, <4>11 DEF Sound
    <3>6. CASE GoOn(p)
      <4>1. /\ UNCHANGED <<runningSince, finished, Q>>
            /\ remainingTime[p] > 1 /\ (currLevel[p] = 4 => t - runningSince[p] < Quantum)
        BY <3>6 DEF GoOn
      <4>2. Running' = Running /\ Live' = Live /\ remainingTime'[p] = remainingTime[p] - 1
        BY <1>1, <1>2, <2>7, <3>1, <4>1 DEF Running, Live, QueuesInv, NaiveTypeOK
      <4>3. Used(p)' = Used(p) + 1 BY <1>1, <3>1, <3>2, <4>1 DEF Used
      <4>4. LeftOf(p)' = LeftOf(p) - 1 BY <1>1, <2>1, <3>1, <3>2, <4>1, <4>2, <4>3 DEF LeftOf
      <4>5. RunnerIs(p)'
        <5>1. /\ remainingTime'[p] >= 1 /\ Used(p)' >= 1 /\ remainingTime'[p] + Used(p)' <= Longest
              /\ (currLevel[p] = 4 => Used(p)' < Quantum)
              /\ (currLevel[p] = 4 => timeSinceLastRun[p] <= Bound)
          BY <2>1, <3>1, <3>2, <4>1, <4>2, <4>3 DEF RunnerIs
        <5>2. Used(p)' >= 0 BY <3>2, <4>3, <5>1
        <5> QED BY <1>1, <2>1, <5>1, <5>2 DEF RunnerIs
      <4>6. Runner' BY <3>1, <4>2, <4>5 DEF Runner
      <4>7. Table' BY <1>2, <1>3, <3>1, <3>3, <4>1, <4>2 DEF Sound, Table
      <4>8. Rested' BY <3>1, <4>2 DEF Rested
      <4>9. NewFacts' BY <1>1, <1>2, <1>3, <4>1 DEF Sound, NewFacts
      <4>10. ASSUME NEW q \in OldOf(Q[4]) \ Running PROVE WaitIs(q)'
        <5>1. timeSinceLastRun[q] + Due + LeftOf(p) + Cost(q) <= Bound /\ timeSinceLastRun[q] \in Nat
          BY <1>3, <2>5, <4>10 DEF Sound, Waits, WaitIs
        <5>2. AheadOf(q)' = AheadOf(q) BY <1>2, <4>1, <4>2 DEF AheadOf
        <5>3. Cost(q)' = Cost(q) /\ Cost(q) \in Nat
          <6>1. Cost(q) \in Nat BY <1>3, <5>2, CostStep
          <6> QED BY <5>2, <6>1 DEF Cost, Share
        <5>4. timeSinceLastRun[q] + Due' + LeftOf(p)' + Cost(q)' <= Bound
          BY <2>1, <2>2, <3>4, <4>4, <5>1, <5>3
        <5> QED BY <1>1, <2>1, <3>1, <4>2, <5>4 DEF WaitIs
      <4>11. Waits' BY <4>1, <4>2, <4>10 DEF Waits
      <4> QED BY <2>3, <4>6, <4>7, <4>8, <4>9, <4>11 DEF Sound
    <3> QED BY <2>7, <3>5, <3>6
  <2> QED BY <2>6, <2>7 DEF Run
<1> QED BY <1>1, <1>3, SoundStep

\* Who moves up to level 4 is new there and gets ahead of nobody who is not.
LEMMA AgeWaits ==
  ASSUME QueuesInv, QueuesInv', WaitInv, Age
  PROVE  WaitInv'
<1>1. PICK wait : wait = scheduled \ (finished \cup Running) OBVIOUS
<1>2. PICK up : up = {p \in wait : currLevel[p] < 4 /\ timeSinceLastRun[p] + 1 >= Threshold}
  OBVIOUS
<1>3. /\ timeSinceLastRun' = [p \in Processes |->
              IF p \in up \cup Running THEN 0
              ELSE timeSinceLastRun[p] + (IF p \in wait THEN 1 ELSE 0)]
      /\ currLevel' = [p \in Processes |-> IF p \in up THEN currLevel[p] + 1 ELSE currLevel[p]]
      /\ Q' = [l \in Levels |-> Without(l, up) \o CopiesOf({p \in up : currLevel[p] + 1 = l})]
      /\ part = "age" /\ part' = "order"
      /\ UNCHANGED <<processList, arrivalTime, remainingTime, runningSince, scheduled, finished, t>>
  BY <1>1, <1>2 DEF Age
<1>4. Processes' = Processes /\ N' = N /\ Running' = Running /\ Live' = Live
  BY <1>3 DEF Processes, N, Running, Live
<1>5. up \subseteq Live /\ up \subseteq Processes /\ up \cap Running = {} /\ wait = Live \ Running
      /\ Live \subseteq Processes /\ Live \subseteq scheduled /\ Running \subseteq Live
  BY <1>1, <1>2 DEF QueuesInv, NaiveTypeOK, Live, OneRuns
<1>6. \A p \in Processes : timeSinceLastRun[p] \in Nat BY DEF QueuesInv, NaiveTypeOK
<1>7. ASSUME N > 1, Quantum > 1, Sound, Bursts # {} PROVE Sound'
  <2>1. Bound' = Bound /\ Bound \in Nat BY <1>4, <1>7, Numbers DEF Bound
  <2>2. Due = 1 /\ Due' = 0 BY <1>3 DEF Due
  <2>3. PICK z : z = Q[4] OBVIOUS
  <2>4. PICK Z : Z = {p \in Live : currLevel[p] = 4} OBVIOUS
  <2>5. 4 \in Levels /\ z \in Seq(Copies) /\ HasCopies(z, Z) /\ OldOf(z) \cup NewOf(z) = Z
    BY <2>3, <2>4, Level4Is
  <2>6. PICK s : s = Without(4, up) OBVIOUS
  <2>7. PICK S : S = Z \ up OBVIOUS
  <2>8. s \in Seq(Copies) /\ HasCopies(s, S) /\ From(s, z) /\ \A a, b : Before(s, a, b) => Before(z, a, b)
    BY <2>3, <2>5, <2>6, <2>7, WithoutIs
  <2>9. PICK U : U = {p \in up : currLevel[p] + 1 = 4} OBVIOUS
  <2>10. PICK r : r = CopiesOf(U) OBVIOUS
  <2>11. r \in Seq(Copies) /\ HasCopies(r, U) /\ \A k \in DOMAIN r : r[k].justin
    <3>1. U \in SUBSET Processes BY <1>5, <2>9
    <3>2. /\ r \in Seq(Copies) /\ HasCopies(r, U)
          /\ \A k \in DOMAIN r : r[k] = Copy(r[k].id, remainingTime[r[k].id])
      BY <2>10, <3>1, CopiesOfIs DEF QueuesInv
    <3> QED BY <3>2 DEF Copy
  <2>12. S \cap U = {} /\ U \subseteq up /\ NewLast(z)
    BY <1>7, <2>3, <2>7, <2>9 DEF Sound, NewFacts
  <2>13. PICK y : y = Q'[4] OBVIOUS
  <2>14. y = s \o r BY <1>3, <2>5, <2>6, <2>9, <2>10, <2>13
  <2>15. /\ NewLast(s \o r)
         /\ OldOf(s \o r) \subseteq OldOf(z) \cap S
         /\ NewOf(s \o r) \subseteq NewOf(z) \cup U
         /\ \A a, b : Before(s \o r, a, b) /\ b \in OldOf(s \o r) => a \in S /\ Before(z, a, b)
    BY <2>5, <2>8, <2>11, <2>12, BehindIs
  <2>16. /\ NewLast(y) /\ OldOf(y) \subseteq OldOf(z) /\ OldOf(y) \cap up = {}
         /\ NewOf(y) \subseteq NewOf(z) \cup up
         /\ \A a, b : Before(y, a, b) /\ b \in OldOf(y) => Before(z, a, b)
    BY <2>7, <2>12, <2>14, <2>15
  <2>17. \A p \in Running : timeSinceLastRun'[p] = 0 /\ currLevel'[p] = currLevel[p]
    BY <1>3, <1>5
  <2>18. \A p \in Running : Used(p)' = Used(p) /\ LeftOf(p)' = LeftOf(p)
    <3>1. \A p \in Running : Used(p)' = Used(p) BY <1>3 DEF Used
    <3> QED BY <1>3, <2>17, <3>1 DEF LeftOf
  <2>19. Runner'
    <3>1. ASSUME NEW p \in Running PROVE RunnerIs(p)'
      <4>1. RunnerIs(p) BY <1>7 DEF Sound, Runner
      <4>2. Used(p)' = Used(p) BY <1>3 DEF Used
      <4>3. remainingTime'[p] = remainingTime[p] /\ part = "age" /\ part' = "order" BY <1>3
      <4>4. currLevel'[p] = currLevel[p] /\ timeSinceLastRun'[p] = 0 BY <2>17
      <4>5. Used(p) >= 1 BY <4>1, <4>3 DEF RunnerIs
      <4> QED BY <2>1, <4>1, <4>2, <4>3, <4>4, <4>5 DEF RunnerIs
    <3> QED BY <1>4, <3>1 DEF Runner
  <2>20. Table' /\ CpuBusy' /\ Rested' BY <1>3, <1>4, <1>7 DEF Sound, Table, CpuBusy, Rested
  <2>21. NewFacts'
    <3>1. ASSUME NEW p \in NewOf(y) PROVE timeSinceLastRun'[p] <= 1
      <4>1. CASE p \in up BY <1>3, <1>5, <4>1
      <4>2. CASE p \in NewOf(z)
        <5>1. timeSinceLastRun[p] <= 0 /\ p \in Processes
          BY <1>3, <1>5, <1>7, <2>3, <2>4, <2>5, <4>2 DEF Sound, NewFacts
        <5> QED BY <1>3, <1>6, <5>1
      <4> QED BY <2>16, <3>1, <4>1, <4>2
    <3>2. ASSUME NEW p \in Processes \ scheduled PROVE timeSinceLastRun'[p] = 0
      <4>1. timeSinceLastRun[p] = 0 BY <1>7 DEF Sound, NewFacts
      <4> QED BY <1>3, <1>5, <4>1
    <3>3. \A p \in NewOf(y) : timeSinceLastRun'[p] <= IF part' = "order" THEN 1 ELSE 0
      BY <1>3, <3>1
    <3>4. \A p \in Processes' \ scheduled' : timeSinceLastRun'[p] = 0 BY <1>3, <1>4, <3>2
    <3> QED BY <1>3, <2>13, <2>16, <3>3, <3>4 DEF NewFacts
  <2>22. ASSUME NEW p \in OldOf(y) \ Running PROVE WaitIs(p)'
    <3>1. p \in OldOf(z) \ Running /\ p \in Processes /\ p \in wait /\ p \notin up
      BY <1>5, <2>4, <2>5, <2>16, <2>22
    <3>2. WaitIs(p) BY <1>7, <2>3, <3>1 DEF Sound, Waits
    <3>3. timeSinceLastRun'[p] = timeSinceLastRun[p] + 1 /\ timeSinceLastRun[p] \in Nat
      BY <1>3, <1>6, <3>1
    <3>4. AheadOf(p)' \subseteq AheadOf(p) BY <1>4, <2>3, <2>13, <2>16, <2>22 DEF AheadOf
    <3>5. Cost(p)' \in Nat /\ Cost(p) \in Nat /\ Cost(p)' <= Cost(p) BY <1>7, <3>4, CostStep
    <3>6. \A q \in Running : timeSinceLastRun'[p] + Due' + LeftOf(q)' + Cost(p)' <= Bound
      <4>1. ASSUME NEW q \in Running PROVE timeSinceLastRun'[p] + Due' + LeftOf(q)' + Cost(p)' <= Bound
        <5>1. LeftOf(q) \in Int /\ timeSinceLastRun[p] + Due + LeftOf(q) + Cost(p) <= Bound
          BY <3>2, RunsIs DEF WaitIs
        <5> QED BY <2>1, <2>2, <2>18, <3>3, <3>5, <5>1
      <4> QED BY <4>1
    <3>7. Running = {} => timeSinceLastRun'[p] + Due' + Cost(p)' <= Bound
      <4>1. ASSUME Running = {} PROVE timeSinceLastRun'[p] + Due' + Cost(p)' <= Bound
        <5>1. timeSinceLastRun[p] + Due + Cost(p) <= Bound BY <3>2, <4>1 DEF WaitIs
        <5> QED BY <2>1, <2>2, <3>3, <3>5, <5>1
      <4> QED BY <4>1
    <3> QED BY <1>4, <2>1, <3>6, <3>7 DEF WaitIs
  <2>23. Waits' BY <1>4, <2>13, <2>22 DEF Waits
  <2> QED BY <2>19, <2>20, <2>21, <2>23 DEF Sound
<1> QED BY <1>3, <1>7, SoundStep

\* checkOrdering() puts nobody ahead of one that was not new.
LEMMA OrderWaits ==
  ASSUME QueuesInv, QueuesInv', WaitInv, Order
  PROVE  WaitInv'
<1>1. PICK q : q = Kept(Q[4], {k \in DOMAIN Q[4] : ~ Q[4][k].justin}) \o ByID OBVIOUS
<1>2. /\ Q' = [l \in Levels |-> Settled(IF l = 4 THEN q ELSE Q[l])]
      /\ part = "order" /\ part' = "insert"
      /\ UNCHANGED <<processList, arrivalTime, currLevel, remainingTime, timeSinceLastRun,
                     runningSince, scheduled, finished, t>>
  BY <1>1 DEF Order
<1>3. Processes' = Processes /\ N' = N /\ Running' = Running /\ Live' = Live
  BY <1>2 DEF Processes, N, Running, Live
<1>4. ASSUME N > 1, Quantum > 1, Sound, Bursts # {} PROVE Sound'
  <2>1. Bound' = Bound /\ Bound \in Nat BY <1>3, <1>4, Numbers DEF Bound
  <2>2. Due = 0 /\ Due' = 0 BY <1>2 DEF Due
  <2>3. PICK Z : Z = {p \in Live : currLevel[p] = 4} OBVIOUS
  <2>4. 4 \in Levels /\ HasCopies(Q[4], Z) /\ OldOf(Q[4]) \cup NewOf(Q[4]) = Z /\ NaiveTypeOK
    BY <2>3, Level4Is DEF QueuesInv
  <2>5. /\ q \in Seq(Copies) /\ HasCopies(q, Z)
        /\ \A a, b : Before(q, a, b) /\ b \notin NewOf(Q[4]) => Before(Q[4], a, b)
    BY <1>1, <2>4, OrderedIs
  <2>6. PICK y : y = Q'[4] OBVIOUS
  <2>7. y = Settled(q) BY <1>2, <2>4, <2>6
  <2>8. y \in Seq(Copies) /\ DOMAIN y = DOMAIN q /\ HasCopies(y, Z) /\ \A k \in DOMAIN y : y[k].justin = FALSE
    BY <2>5, <2>7, SettledIs
  <2>9. \A a, b : Before(y, a, b) => Before(q, a, b) BY <2>5, <2>7, SettledIs, Zenon
  <2>10. NewOf(y) = {} /\ NewLast(y) /\ OldOf(y) \subseteq Z
    BY <2>8 DEF NewOf, NewLast, OldOf, HasCopies
  <2>11. \A p \in Running : Used(p)' = Used(p) /\ LeftOf(p)' = LeftOf(p)
    <3>1. \A p \in Running : Used(p)' = Used(p) BY <1>2 DEF Used
    <3> QED BY <1>2, <3>1 DEF LeftOf
  <2>12. Runner'
    <3>1. ASSUME NEW p \in Running PROVE RunnerIs(p)'
      <4>1. RunnerIs(p) BY <1>4 DEF Sound, Runner
      <4> QED BY <1>2, <2>1, <2>11, <4>1 DEF RunnerIs
    <3> QED BY <1>3, <3>1 DEF Runner
  <2>13. Table' /\ CpuBusy' /\ Rested' BY <1>2, <1>3, <1>4 DEF Sound, Table, CpuBusy, Rested
  <2>14. NewFacts' BY <1>2, <1>3, <1>4, <2>6, <2>10 DEF Sound, NewFacts
  <2>15. ASSUME NEW p \in Z \ Running PROVE WaitIs(p)'
    <3>1. p \in Processes /\ p \in Live /\ timeSinceLastRun[p] \in Nat
      BY <2>3 DEF Live, QueuesInv, NaiveTypeOK
    <3>2. CASE p \in OldOf(Q[4])
      <4>1. p \notin NewOf(Q[4]) BY <3>2, Level4Is
      <4>2. \A a : Before(y, a, p) => Before(Q[4], a, p) BY <2>5, <2>9, <4>1
      <4>3. AheadOf(p)' \subseteq AheadOf(p) BY <1>3, <2>6, <4>2 DEF AheadOf
      <4>4. Cost(p)' \in Nat /\ Cost(p) \in Nat /\ Cost(p)' <= Cost(p) BY <1>4, <4>3, CostStep
      <4>5. WaitIs(p) BY <1>4, <2>15, <3>2 DEF Sound, Waits
      <4>6. ASSUME NEW r \in Running PROVE timeSinceLastRun'[p] + Due' + LeftOf(r)' + Cost(p)' <= Bound
        <5>1. LeftOf(r) \in Int /\ timeSinceLastRun[p] + Due + LeftOf(r) + Cost(p) <= Bound
          BY <4>5, RunsIs DEF WaitIs
        <5> QED BY <1>2, <2>1, <2>2, <2>11, <3>1, <4>4, <5>1
      <4>7. ASSUME Running = {} PROVE timeSinceLastRun'[p] + Due' + Cost(p)' <= Bound
        <5>1. timeSinceLastRun[p] + Due + Cost(p) <= Bound BY <4>5, <4>7 DEF WaitIs
        <5> QED BY <1>2, <2>1, <2>2, <3>1, <4>4, <5>1
      <4> QED BY <1>3, <2>1, <4>6, <4>7 DEF WaitIs
    <3>3. CASE p \in NewOf(Q[4])
      <4>1. timeSinceLastRun'[p] <= 1 /\ timeSinceLastRun'[p] \in Nat
        BY <1>2, <1>4, <3>1, <3>3 DEF Sound, NewFacts
      <4>2. /\ N \in Nat /\ Longest \in Nat /\ Longest >= 1 /\ Quantum \in Nat
            /\ Share \in Nat /\ Share >= 1 /\ Share <= Longest
            /\ (Longest > Quantum => Share = Quantum)
            /\ (N - 2) * Quantum \in Nat /\ Bound = Longest + (N - 2) * Quantum
            /\ \A c \in 0 .. N - 2 : Share * c \in Nat /\ Share * c <= (N - 2) * Quantum
            /\ Quantum * (N - 1) = Quantum + (N - 2) * Quantum
        BY <1>4, Numbers
      <4>3. AheadOf(p)' \subseteq Live \ {p} /\ AheadOf(p)' \cap Running = {}
        <5>1. \A a : Before(y, a, p) => a \in Z /\ a # p
          <6>1. DOMAIN y \subseteq Int BY <2>8
          <6> QED BY <2>8, <6>1 DEF Before, HasCopies
        <5> QED BY <1>3, <2>3, <2>6, <5>1 DEF AheadOf
      <4>4. PICK A : A = AheadOf(p)' OBVIOUS
      <4>5. Cost(p)' = Share * Cardinality(A) BY <4>4 DEF Cost, Share
      <4>6. ASSUME NEW x \in Processes \ {p}, x \notin A
            PROVE  Cost(p)' \in Nat /\ Cost(p)' <= (N - 2) * Quantum
        <5>1. A \subseteq (Processes \ {p}) \ {x}
          BY <4>3, <4>4, <4>6 DEF Live, QueuesInv, NaiveTypeOK
        <5>2. PICK P : P = Processes \ {p} OBVIOUS
        <5>3. IsFiniteSet(P) /\ Cardinality(P) = N - 1
          BY <3>1, <4>2, <5>2, ProcessesN, FS_RemoveElement
        <5>4. IsFiniteSet(P \ {x}) /\ Cardinality(P \ {x}) = N - 2
          BY <4>2, <4>6, <5>2, <5>3, FS_RemoveElement
        <5>5. Cardinality(A) \in Nat /\ Cardinality(A) <= N - 2
          BY <5>1, <5>2, <5>4, FS_Subset, FS_CardinalityType
        <5>6. Cardinality(A) \in 0 .. N - 2 BY <4>2, <5>5
        <5> QED BY <4>2, <4>5, <5>6
      <4>7. ASSUME NEW r \in Running PROVE timeSinceLastRun'[p] + Due' + LeftOf(r)' + Cost(p)' <= Bound
        <5>1. r \in Processes /\ r # p /\ r \notin A BY <2>15, <4>3, <4>4, <4>7, RunsIs
        <5>2. Cost(p)' \in Nat /\ Cost(p)' <= (N - 2) * Quantum BY <4>6, <5>1
        <5>3. LeftOf(r) \in Int /\ 1 + LeftOf(r) <= Longest
          <6>1. RunnerIs(r) /\ Used(r) >= 1 BY <1>2, <1>4, <4>7 DEF Sound, Runner, RunnerIs
          <6>2. remainingTime[r] \in Nat /\ Used(r) \in Int /\ LeftOf(r) \in Int BY RunsIs
          <6> QED BY <4>2, <6>1, <6>2 DEF RunnerIs, LeftOf
        <5> QED BY <2>1, <2>2, <2>11, <4>1, <4>2, <5>2, <5>3
      <4>8. ASSUME Running = {} PROVE timeSinceLastRun'[p] + Due' + Cost(p)' <= Bound
        <5>1. Longest > Quantum \/ finished # {} BY <1>2, <1>4, <3>1, <4>8 DEF Sound, Rested
        <5>2. CASE finished # {}
          <6>1. PICK x \in finished : TRUE BY <5>2
          <6>2. x \in Processes \ {p} /\ x \notin A
            BY <3>1, <4>3, <4>4, <6>1 DEF Live, QueuesInv, NaiveTypeOK
          <6>3. Cost(p)' \in Nat /\ Cost(p)' <= (N - 2) * Quantum BY <4>6, <6>2
          <6> QED BY <2>2, <4>1, <4>2, <6>3
        <5>3. CASE Longest > Quantum
          <6>1. IsFiniteSet(Processes \ {p}) /\ Cardinality(Processes \ {p}) = N - 1
            BY <3>1, <4>2, ProcessesN, FS_RemoveElement
          <6>2. A \subseteq Processes \ {p} BY <4>3, <4>4 DEF Live, QueuesInv, NaiveTypeOK
          <6>3. Share * Cardinality(A) \in Nat /\ Share * Cardinality(A) <= Share * (N - 1)
            BY <4>2, <6>1, <6>2, CostIs
          <6>4. Cost(p)' \in Nat /\ Cost(p)' <= Quantum + (N - 2) * Quantum
            BY <4>2, <4>5, <5>3, <6>3
          <6> QED BY <2>2, <4>1, <4>2, <5>3, <6>4
        <5> QED BY <5>1, <5>2, <5>3
      <4> QED BY <1>3, <2>1, <4>7, <4>8 DEF WaitIs
    <3> QED BY <2>4, <2>15, <3>2, <3>3
  <2>16. Waits' BY <1>3, <2>6, <2>10, <2>15 DEF Waits
  <2> QED BY <2>12, <2>13, <2>14, <2>16 DEF Sound
<1> QED BY <1>2, <1>4, SoundStep

\* WaitInv is kept by every part of the loop.
LEMMA WaitStep ==
  ASSUME QueuesInv, QueuesInv', WaitInv, [NaiveNext]_naive
  PROVE  WaitInv'
<1>1. CASE UNCHANGED naive
  <2>1. UNCHANGED naive BY <1>1
  <2>2. Processes' = Processes /\ Live' = Live /\ Running' = Running /\ N' = N /\ Bound' = Bound /\ Due' = Due
    BY <2>1 DEF naive, Processes, Live, Running, N, Bound, Due
  <2>3. \A p : Used(p)' = Used(p) /\ LeftOf(p)' = LeftOf(p) /\ AheadOf(p)' = AheadOf(p) /\ Cost(p)' = Cost(p)
    <3>1. \A p : Used(p)' = Used(p) /\ AheadOf(p)' = AheadOf(p)
      BY <2>1, <2>2 DEF naive, Used, AheadOf
    <3> QED BY <2>1, <3>1 DEF naive, LeftOf, Cost, Share
  <2>4. \A p : RunnerIs(p) => RunnerIs(p)' BY <2>1, <2>2, <2>3 DEF naive, RunnerIs
  <2>5. \A p : WaitIs(p) => WaitIs(p)' BY <2>1, <2>2, <2>3 DEF naive, WaitIs
  <2>6. Sound => Sound'
    BY <2>1, <2>2, <2>4, <2>5 DEF naive, Sound, Runner, Table, NewFacts, CpuBusy, Rested, Waits
  <2> QED BY <2>2, <2>6 DEF WaitInv, Sound
<1> QED BY <1>1, InsertWaits, StartWaits, RunWaits, AgeWaits, OrderWaits DEF NaiveNext

\* WaitInv bounds the waiting of those at level 4.
LEMMA WaitsHold ==
  ASSUME QueuesInv, WaitInv
  PROVE  WaitBounded
<1>1. SUFFICES ASSUME N > 1, Quantum > 1, NEW p \in Live, currLevel[p] = 4
               PROVE  timeSinceLastRun[p] <= Bound
  BY DEF WaitBounded, N, Bound, Live
<1>2. Sound BY <1>1 DEF WaitInv, Sound
<1>3. p \in Processes /\ timeSinceLastRun[p] \in Nat BY DEF Live, QueuesInv, NaiveTypeOK
<1>4. Bursts # {} BY <1>2, <1>3 DEF Sound, Table
<1>5. Bound \in Nat /\ Bound >= 1 BY <1>1, <1>4, Numbers
<1>6. p \in OldOf(Q[4]) \cup NewOf(Q[4]) BY <1>1, Level4Is
<1>7. CASE p \in Running BY <1>1, <1>2, <1>7 DEF Sound, Runner, RunnerIs
<1>8. CASE p \in NewOf(Q[4])
  <2>1. timeSinceLastRun[p] <= IF part = "order" THEN 1 ELSE 0 BY <1>2, <1>8 DEF Sound, NewFacts
  <2> QED BY <1>3, <1>5, <2>1
<1>9. CASE p \in OldOf(Q[4]) \ Running
  <2>1. WaitIs(p) BY <1>2, <1>9 DEF Sound, Waits
  <2>2. Cost(p) \in Nat /\ Due \in Nat
    <3>1. IsFiniteSet(AheadOf(p)) /\ Share \in Nat BY <1>1, <1>4, Level4Is, Numbers
    <3> QED BY <3>1, CostIs DEF Cost, Due
  <2>3. CASE Running = {} BY <1>3, <1>5, <2>1, <2>2, <2>3 DEF WaitIs
  <2>4. ASSUME NEW r \in Running PROVE timeSinceLastRun[p] <= Bound
    <3>1. timeSinceLastRun[p] + Due + LeftOf(r) + Cost(p) <= Bound BY <2>1 DEF WaitIs
    <3>2. RunnerIs(r) BY <1>2 DEF Sound, Runner
    <3>3. LeftOf(r) \in Int /\ LeftOf(r) >= 0 BY <3>2, RunsIs DEF LeftOf, RunnerIs
    <3> QED BY <1>3, <1>5, <2>2, <3>1, <3>3
  <2> QED BY <2>3, <2>4
<1> QED BY <1>6, <1>7, <1>8, <1>9

\* Nobody starves at level 4 of mlfq_naive.cpp: the bound of WaitBounded holds for any
\* number of processes, any bursts, and any quantum of more than one tick.
THEOREM WaitsAlways == NaiveSpec => []WaitBounded
<1>1. NaiveInit => QueuesInv /\ WaitInv BY NaiveInitIs, NaiveInitWaits
<1>2. QueuesInv /\ WaitInv /\ [NaiveNext]_naive => QueuesInv' /\ WaitInv'
  BY QueuesStep, WaitStep
<1>3. QueuesInv /\ WaitInv => WaitBounded BY WaitsHold
<1> QED BY <1>1, <1>2, <1>3, PTL DEF NaiveSpec

-----
\* Mlfq, for every list of jobs and every choice of options.
\* What is known of a job, and of an event.
JobStates == [runTime : Int, ioFreq : Int, timeLeft : Int, currPri : Queues,
              ticksLeft : Int, allotLeft : Int, doingIO : BOOLEAN]
Events == [time : Int, job : Jobs, type : {"JOB BEGINS", "IO_DONE"}]

\* The types of the state.
MlfqTypeOK ==
  /\ options \in [boost : Boosts, ioTime : IoTimes, stay : BOOLEAN, iobump : BOOLEAN]
  /\ job \in Seq(JobStates) /\ ioDone \in Seq(Events) /\ queue \in [Queues -> Seq(Jobs)]
  /\ currTime \in Int

\* The jobs of s are those of S, each once.
Lists(s, S) ==
  /\ \A k \in DOMAIN s : s[k] \in S
  /\ \A j \in S : \E k \in DOMAIN s : s[k] = j
  /\ \A u, k \in DOMAIN s : s[u] = s[k] => u = k

\* A job that is finished; the jobs of events; the others, which queues have.
Done(j) == job[j].runTime > 0 /\ job[j].timeLeft = 0
Awaited == {ioDone[k].job : k \in DOMAIN ioDone}
Queued == {j \in Jobs : ~ Done(j) /\ j \notin Awaited}
InQueues == \A q \in Queues : Lists(queue[q], {j \in Queued : job[j].currPri = q})

\* A job with nothing to run stays in the highest queue; no other runs too long.
Runnable ==
  \A j \in Jobs : IF job[j].runTime < 1 THEN job[j].currPri = hiQueue /\ job[j].timeLeft < 1
                  ELSE job[j].timeLeft >= 0

\* An event at `time' is not in the past.
ToCome(time) == time >= currTime /\ (stage = "run" => time > currTime)
\* What is to come: one event for a job, which is not finished; I/O under way has an event.
Coming ==
  /\ \A u, k \in DOMAIN ioDone : ioDone[u].job = ioDone[k].job => u = k
  /\ \A j \in Awaited : ~ Done(j)
  /\ \A j \in Jobs : job[j].doingIO => j \in Awaited
  /\ \A k \in DOMAIN ioDone : Late(ioDone[k]) \/ ToCome(ioDone[k].time)

\* Why the program may have stopped.
Excused == aborted => Ready # {} /\ job[currJob].runTime < 1

\* The inductive invariant of the jobs.
JobsInv == MlfqTypeOK /\ InQueues /\ Coming /\ Runnable /\ Excused

-----
\* A queue behind another: the jobs of both.
LEMMA JoinedLists ==
  ASSUME NEW T, NEW q \in Seq(T), NEW r \in Seq(T), NEW S, NEW U, Lists(q, S), Lists(r, U), S \cap U = {}
  PROVE  q \o r \in Seq(T) /\ Lists(q \o r, S \cup U)
<1>1. PICK s : s = q \o r OBVIOUS
<1>2. /\ s \in Seq(T) /\ Len(s) = Len(q) + Len(r) /\ Len(q) \in Nat /\ Len(r) \in Nat
      /\ DOMAIN s = 1 .. Len(s) /\ DOMAIN q = 1 .. Len(q) /\ DOMAIN r = 1 .. Len(r)
  BY <1>1
<1>3. \A k \in 1 .. Len(q) : s[k] = q[k] BY <1>1, <1>2
<1>4. \A k \in 1 .. Len(r) : k + Len(q) \in DOMAIN s /\ s[k + Len(q)] = r[k] BY <1>1, <1>2
<1>5. ASSUME NEW k \in DOMAIN s
      PROVE  \/ k \in DOMAIN q /\ s[k] = q[k]
             \/ k \notin DOMAIN q /\ k - Len(q) \in DOMAIN r /\ s[k] = r[k - Len(q)]
  <2>1. CASE k <= Len(q) BY <1>2, <1>3, <2>1
  <2>2. CASE k > Len(q)
    <3>1. k - Len(q) \in 1 .. Len(r) /\ (k - Len(q)) + Len(q) = k BY <1>2, <2>2
    <3>2. s[(k - Len(q)) + Len(q)] = r[k - Len(q)] BY <1>4, <3>1
    <3> QED BY <1>2, <2>2, <3>1, <3>2
  <2> QED BY <1>2, <2>1, <2>2
<1>6. \A k \in DOMAIN s : s[k] \in S \cup U BY <1>5 DEF Lists
<1>7. \A p \in S \cup U : \E k \in DOMAIN s : s[k] = p
  <2>1. ASSUME NEW p \in S PROVE \E k \in DOMAIN s : s[k] = p
    <3>1. PICK k \in DOMAIN q : q[k] = p BY DEF Lists
    <3> QED BY <1>2, <1>3, <3>1
  <2>2. ASSUME NEW p \in U PROVE \E k \in DOMAIN s : s[k] = p
    <3>1. PICK k \in DOMAIN r : r[k] = p BY DEF Lists
    <3> QED BY <1>2, <1>4, <3>1
  <2> QED BY <2>1, <2>2
<1>8. ASSUME NEW u \in DOMAIN s, NEW j \in DOMAIN s, s[u] = s[j] PROVE u = j
  <2>1. CASE u \in DOMAIN q /\ j \in DOMAIN q BY <1>5, <1>8, <2>1 DEF Lists
  <2>2. CASE u \notin DOMAIN q /\ j \notin DOMAIN q
    <3>1. u - Len(q) = j - Len(q) BY <1>5, <1>8, <2>2 DEF Lists
    <3> QED BY <1>2, <3>1
  <2>3. CASE (u \in DOMAIN q) # (j \in DOMAIN q) BY <1>5, <1>8, <2>3 DEF Lists
  <2> QED BY <2>1, <2>2, <2>3
<1> QED BY <1>1, <1>2, <1>6, <1>7, <1>8 DEF Lists

\* A queue without its first job.
LEMMA TailLists ==
  ASSUME NEW T, NEW s \in Seq(T), s # <<>>, NEW S, Lists(s, S)
  PROVE  Head(s) \in S /\ Tail(s) \in Seq(T) /\ Lists(Tail(s), S \ {Head(s)})
<1>1. PICK r : r = Tail(s) OBVIOUS
<1>2. /\ Len(s) \in Nat /\ Len(s) >= 1 /\ DOMAIN s = 1 .. Len(s) /\ Head(s) = s[1]
      /\ r \in Seq(T) /\ Len(r) = Len(s) - 1 /\ DOMAIN r = 1 .. Len(s) - 1
      /\ \A k \in 1 .. Len(s) - 1 : r[k] = s[k + 1]
  BY <1>1
<1>3. 1 \in DOMAIN s /\ s[1] \in S BY <1>2 DEF Lists
<1>4. ASSUME NEW k \in DOMAIN r PROVE k + 1 \in DOMAIN s /\ r[k] = s[k + 1] /\ r[k] \in S \ {s[1]}
  <2>1. k + 1 \in DOMAIN s /\ k + 1 # 1 /\ r[k] = s[k + 1] BY <1>2
  <2> QED BY <1>3, <2>1 DEF Lists
<1>5. ASSUME NEW j \in S \ {s[1]} PROVE \E k \in DOMAIN r : r[k] = j
  <2>1. PICK k \in DOMAIN s : s[k] = j BY DEF Lists
  <2>2. k - 1 \in DOMAIN r /\ (k - 1) + 1 = k BY <1>2, <1>5, <2>1
  <2>3. r[k - 1] = s[(k - 1) + 1] BY <1>2, <2>2
  <2> QED BY <2>1, <2>2, <2>3
<1>6. ASSUME NEW u \in DOMAIN r, NEW k \in DOMAIN r, r[u] = r[k] PROVE u = k
  <2>1. u + 1 = k + 1 BY <1>4, <1>6 DEF Lists
  <2> QED BY <1>2, <2>1
<1> QED BY <1>1, <1>2, <1>3, <1>4, <1>5, <1>6 DEF Lists

\* A queue with one more job at its back.
LEMMA AppendLists ==
  ASSUME NEW T, NEW s \in Seq(T), NEW S, Lists(s, S), NEW j \in T, j \notin S
  PROVE  Append(s, j) \in Seq(T) /\ Lists(Append(s, j), S \cup {j})
<1>1. PICK r : r = <<j>> OBVIOUS
<1>2. PICK U : U = {j} OBVIOUS
<1>3. r \in Seq(T) /\ Lists(r, U) /\ S \cap U = {} BY <1>1, <1>2 DEF Lists
<1>4. s \o r \in Seq(T) /\ Lists(s \o r, S \cup U) BY <1>3, JoinedLists
<1>5. Append(s, j) = s \o r BY <1>1
<1> QED BY <1>2, <1>4, <1>5

\* A queue turned round has the same jobs.
LEMMA ReversedLists ==
  ASSUME NEW T, NEW s \in Seq(T), NEW S, Lists(s, S)
  PROVE  Reverse(s) \in Seq(T) /\ Lists(Reverse(s), S)
<1>1. PICK r : r = Reverse(s) OBVIOUS
<1>2. Len(s) \in Nat /\ DOMAIN s = 1 .. Len(s) /\ \A k \in DOMAIN s : s[k] \in T OBVIOUS
<1>3. r = [k \in 1 .. Len(s) |-> s[(Len(s) - k) + 1]] BY <1>1 DEF Reverse
<1>4. \A k \in 1 .. Len(s) : (Len(s) - k) + 1 \in 1 .. Len(s) /\ (Len(s) - ((Len(s) - k) + 1)) + 1 = k
  BY <1>2
<1>5. DOMAIN r = 1 .. Len(s) /\ \A k \in 1 .. Len(s) : r[k] = s[(Len(s) - k) + 1] BY <1>3
<1>6. r \in Seq(T) BY <1>2, <1>3, <1>4
<1>7. \A k \in DOMAIN r : r[k] \in S BY <1>2, <1>4, <1>5 DEF Lists
<1>8. ASSUME NEW j \in S PROVE \E k \in DOMAIN r : r[k] = j
  <2>1. PICK k \in DOMAIN s : s[k] = j BY DEF Lists
  <2>2. r[(Len(s) - k) + 1] = s[(Len(s) - ((Len(s) - k) + 1)) + 1] BY <1>2, <1>4, <1>5, <2>1
  <2> QED BY <1>2, <1>4, <1>5, <2>1, <2>2
<1>9. ASSUME NEW u \in DOMAIN r, NEW k \in DOMAIN r, r[u] = r[k] PROVE u = k
  <2>1. (Len(s) - u) + 1 = (Len(s) - k) + 1
    <3>1. PICK a : a = (Len(s) - u) + 1 OBVIOUS
    <3>2. PICK b : b = (Len(s) - k) + 1 OBVIOUS
    <3>3. a \in DOMAIN s /\ b \in DOMAIN s /\ s[a] = s[b] BY <1>2, <1>4, <1>5, <1>9, <3>1, <3>2
    <3> QED BY <3>1, <3>2, <3>3 DEF Lists
  <2> QED BY <1>2, <1>5, <2>1
<1> QED BY <1>1, <1>6, <1>7, <1>8, <1>9 DEF Lists

\* The jobs of some events, in their order.
LEMMA ToIs ==
  ASSUME MlfqTypeOK, Coming, NEW q, NEW K, K \subseteq DOMAIN ioDone
  PROVE  /\ To(q, K) \in Seq(Jobs)
         /\ Lists(To(q, K), {ioDone[k].job : k \in {k \in K : job[ioDone[k].job].currPri = q}})
<1>1. PICK M : M = {k \in K : job[ioDone[k].job].currPri = q} OBVIOUS
<1>2. PICK s : s = Kept(ioDone, M) OBVIOUS
<1>3. M \subseteq DOMAIN ioDone /\ ioDone \in Seq(Events) BY <1>1 DEF MlfqTypeOK
<1>4. /\ s \in Seq(Events)
      /\ \E at \in [DOMAIN s -> M] :
           /\ \A k \in DOMAIN s : s[k] = ioDone[at[k]]
           /\ \A u \in M : \E k \in DOMAIN s : at[k] = u
           /\ \A u, j \in DOMAIN s : u < j <=> at[u] < at[j]
  BY <1>2, <1>3, KeptIs
<1>5. PICK at \in [DOMAIN s -> M] :
           /\ \A k \in DOMAIN s : s[k] = ioDone[at[k]]
           /\ \A u \in M : \E k \in DOMAIN s : at[k] = u
           /\ \A u, j \in DOMAIN s : u < j <=> at[u] < at[j]
  BY <1>4
<1>6. \A k \in DOMAIN s : at[k] \in M /\ at[k] \in DOMAIN ioDone /\ s[k].job = ioDone[at[k]].job
  BY <1>3, <1>5
<1>7. DOMAIN s = 1 .. Len(s) /\ Len(s) \in Nat /\ DOMAIN ioDone = 1 .. Len(ioDone) /\ Len(ioDone) \in Nat
  BY <1>3, <1>4
<1>8. PICK r : r = To(q, K) OBVIOUS
<1>9. r = [k \in DOMAIN s |-> s[k].job] BY <1>1, <1>2, <1>8 DEF To
<1>10. \A k \in DOMAIN s : s[k].job \in Jobs
  <2>1. \A k \in DOMAIN s : s[k] \in Events BY <1>4
  <2> QED BY <2>1 DEF Events
<1>11. r \in Seq(Jobs) /\ DOMAIN r = DOMAIN s BY <1>7, <1>9, <1>10
<1>12. \A k \in DOMAIN r : r[k] = ioDone[at[k]].job BY <1>6, <1>9
<1>13. \A k \in DOMAIN r : r[k] \in {ioDone[k1].job : k1 \in M} BY <1>6, <1>11, <1>12
<1>14. \A j \in {ioDone[k1].job : k1 \in M} : \E k \in DOMAIN r : r[k] = j BY <1>5, <1>11, <1>12
<1>15. ASSUME NEW u \in DOMAIN r, NEW k \in DOMAIN r, r[u] = r[k] PROVE u = k
  <2>1. at[u] = at[k] BY <1>6, <1>11, <1>12, <1>15 DEF Coming
  <2>2. ~ at[u] < at[k] /\ ~ at[k] < at[u] BY <1>6, <1>7, <1>11, <2>1
  <2>3. ~ u < k /\ ~ k < u BY <1>5, <1>11, <2>2
  <2> QED BY <1>7, <1>11, <2>3
<1>16. Lists(r, {ioDone[k1].job : k1 \in M}) BY <1>13, <1>14, <1>15 DEF Lists
<1> QED BY <1>1, <1>8, <1>11, <1>16

\* The events of r are those of ioDone at the positions K.
Left(r, K) ==
  /\ r \in Seq(Events)
  /\ \A k \in DOMAIN r : \E u \in K : r[k] = ioDone[u]
  /\ {r[k].job : k \in DOMAIN r} = {ioDone[k].job : k \in K}
  /\ \A u, k \in DOMAIN r : r[u].job = r[k].job => u = k

\* The events that are left.
LEMMA LeftIs ==
  ASSUME MlfqTypeOK, Coming, NEW K, K \subseteq DOMAIN ioDone, NEW r, r = Kept(ioDone, K)
  PROVE  Left(r, K)
<1>1. PICK s : s = ioDone OBVIOUS
<1>0. s \in Seq(Events) /\ K \subseteq DOMAIN s /\ r = Kept(s, K) BY <1>1 DEF MlfqTypeOK
<1>a. /\ r \in Seq(Events)
      /\ \E at \in [DOMAIN r -> K] :
           /\ \A k \in DOMAIN r : r[k] = s[at[k]]
           /\ \A u \in K : \E k \in DOMAIN r : at[k] = u
           /\ \A u, j \in DOMAIN r : u < j <=> at[u] < at[j]
  BY <1>0, KeptIs
<1>2. PICK at \in [DOMAIN r -> K] :
           /\ \A k \in DOMAIN r : r[k] = ioDone[at[k]]
           /\ \A u \in K : \E k \in DOMAIN r : at[k] = u
           /\ \A u, j \in DOMAIN r : u < j <=> at[u] < at[j]
  BY <1>1, <1>a
<1>3. \A k \in DOMAIN r : at[k] \in K /\ at[k] \in DOMAIN ioDone /\ r[k] = ioDone[at[k]] BY <1>2
<1>4. DOMAIN r = 1 .. Len(r) /\ Len(r) \in Nat /\ DOMAIN ioDone = 1 .. Len(ioDone) /\ Len(ioDone) \in Nat
  BY <1>a DEF MlfqTypeOK
<1>5. ASSUME NEW u \in DOMAIN r, NEW k \in DOMAIN r, r[u].job = r[k].job PROVE u = k
  <2>1. at[u] = at[k] BY <1>3, <1>5 DEF Coming
  <2>2. ~ at[u] < at[k] /\ ~ at[k] < at[u] BY <1>3, <1>4, <2>1
  <2>3. ~ u < k /\ ~ k < u BY <1>2, <2>2
  <2> QED BY <1>4, <2>3
<1>6. {r[k].job : k \in DOMAIN r} = {ioDone[k].job : k \in K} BY <1>2, <1>3
<1>7. \A k \in DOMAIN r : \E u \in K : r[k] = ioDone[u] BY <1>3
<1>8. r \in Seq(Events) BY <1>a
<1>9. \A u, k \in DOMAIN r : r[u].job = r[k].job => u = k BY <1>5
<1> QED BY <1>6, <1>7, <1>8, <1>9 DEF Left

\* Jobs of the lower queues, the lowest queue first.
LEMMA LowerIs ==
  ASSUME JobsInv, NEW r, r = [k \in DOMAIN Lower |-> queue[Lower[k][1]][Lower[k][2]]]
  PROVE  r \in Seq(Jobs) /\ Lists(r, {j \in Queued : job[j].currPri # hiQueue})
<1>1. PICK S : S = {w \in (Queues \ {hiQueue}) \X Jobs :
                      w[2] <= Len(queue[w[1]]) /\ ~ job[queue[w[1]][w[2]]].doingIO}
  OBVIOUS
<1>2. PICK before : before = {w \in S \X S : \/ w[1][1] < w[2][1]
                                            \/ (w[1][1] = w[2][1] /\ w[1][2] < w[2][2])}
  OBVIOUS
<1>3. /\ numQueues \in Nat /\ Queues \subseteq Nat /\ Jobs = 1 .. Len(job) /\ Len(job) \in Nat
      /\ \A q \in Queues : queue[q] \in Seq(Jobs) /\ Lists(queue[q], {j \in Queued : job[j].currPri = q})
      /\ \A j \in Queued : ~ job[j].doingIO
  BY MlfqAssumption DEF JobsInv, MlfqTypeOK, InQueues, Coming, Queued, Jobs, Queues
<1>4. ASSUME NEW q \in Queues
      PROVE  Len(queue[q]) <= Len(job) /\ Len(queue[q]) \in Nat /\ DOMAIN queue[q] = 1 .. Len(queue[q])
  <2>1. PICK s : s = queue[q] OBVIOUS
  <2>2. s \in Seq(Jobs) /\ \A u, k \in DOMAIN s : s[u] = s[k] => u = k BY <1>3, <2>1 DEF Lists
  <2>3. DOMAIN s = 1 .. Len(s) /\ Len(s) \in Nat /\ s \in [1 .. Len(s) -> Jobs] BY <2>2
  <2>4. s \in Injection(1 .. Len(s), 1 .. Len(job))
    BY <1>3, <2>2, <2>3 DEF Injection, IsInjective
  <2>5. \A v \in Nat : IsFiniteSet(1 .. v) /\ Cardinality(1 .. v) = v BY FS_Interval
  <2>6. Cardinality(1 .. Len(s)) <= Cardinality(1 .. Len(job)) BY <1>3, <2>4, <2>5, FS_Injection
  <2> QED BY <1>3, <2>1, <2>3, <2>5, <2>6
<1>5. ASSUME NEW w \in S
      PROVE  /\ w[1] \in Queues \ {hiQueue} /\ w[2] \in DOMAIN queue[w[1]] /\ w = <<w[1], w[2]>>
             /\ w[1] \in Nat /\ w[2] \in Nat
             /\ queue[w[1]][w[2]] \in Queued /\ job[queue[w[1]][w[2]]].currPri = w[1]
  <2>1. w[1] \in Queues \ {hiQueue} /\ w[2] \in Jobs /\ w[2] <= Len(queue[w[1]]) /\ w = <<w[1], w[2]>>
    BY <1>1
  <2>2. w[2] \in DOMAIN queue[w[1]] /\ w[1] \in Nat /\ w[2] \in Nat BY <1>3, <1>4, <2>1
  <2> QED BY <1>3, <2>1, <2>2 DEF Lists
<1>6. ASSUME NEW j \in Queued, job[j].currPri # hiQueue
      PROVE  \E w \in S : queue[w[1]][w[2]] = j
  <2>0. j \in DOMAIN job /\ job \in Seq(JobStates) BY DEF JobsInv, MlfqTypeOK, Queued, Jobs
  <2>a. job[j] \in JobStates BY <2>0
  <2>1. PICK q \in Queues : job[j].currPri = q BY <2>a DEF JobStates
  <2>2. PICK k \in DOMAIN queue[q] : queue[q][k] = j BY <1>3, <2>1 DEF Lists
  <2>3. k \in Jobs /\ k <= Len(queue[q]) BY <1>3, <1>4, <2>2
  <2>4. <<q, k>> \in S BY <1>1, <1>3, <1>6, <2>1, <2>2, <2>3
  <2> QED BY <2>2, <2>4
<1>7. IsFiniteSet(S)
  <2>1. IsFiniteSet(Queues) /\ IsFiniteSet(Jobs)
    <3>1. \A v \in Nat : IsFiniteSet(1 .. v) /\ IsFiniteSet(0 .. v - 1) BY FS_Interval
    <3> QED BY <1>3, <3>1 DEF Queues
  <2>2. IsFiniteSet(Queues \X Jobs) BY <2>1, FS_Product
  <2>3. S \subseteq Queues \X Jobs BY <1>1
  <2> QED BY <2>2, <2>3, FS_Subset
<1>8. Orders(before, S)
  <2>0. \A x, y \in S : <<x, y>> \in S \X S /\ <<x, y>>[1] = x /\ <<x, y>>[2] = y OBVIOUS
  <2>1. \A x, y \in S : <<x, y>> \in before <=> (x[1] < y[1] \/ (x[1] = y[1] /\ x[2] < y[2]))
    BY <1>2, <2>0
  <2>2. \A x \in S : x[1] \in Nat /\ x[2] \in Nat /\ x = <<x[1], x[2]>> BY <1>5
  <2>3. \A x \in S : <<x, x>> \notin before BY <2>1, <2>2
  <2>4. \A x, y \in S : x = y \/ <<x, y>> \in before \/ <<y, x>> \in before
    <3>1. ASSUME NEW x \in S, NEW y \in S PROVE x = y \/ <<x, y>> \in before \/ <<y, x>> \in before
      <4>1. /\ x[1] \in Nat /\ x[2] \in Nat /\ x = <<x[1], x[2]>>
            /\ y[1] \in Nat /\ y[2] \in Nat /\ y = <<y[1], y[2]>>
        BY <2>2
      <4>2. /\ (<<x, y>> \in before) <=> (x[1] < y[1] \/ (x[1] = y[1] /\ x[2] < y[2]))
            /\ (<<y, x>> \in before) <=> (y[1] < x[1] \/ (y[1] = x[1] /\ y[2] < x[2]))
        BY <2>1
      <4>3. CASE x[1] = y[1] /\ x[2] = y[2] BY <4>1, <4>3
      <4>4. CASE ~ (x[1] = y[1] /\ x[2] = y[2]) BY <4>1, <4>2, <4>4
      <4> QED BY <4>3, <4>4
    <3> QED BY <3>1
  <2>5. \A x, y, z \in S : <<x, y>> \in before /\ <<y, z>> \in before => <<x, z>> \in before
    BY <2>1, <2>2
  <2> QED BY <2>3, <2>4, <2>5 DEF Orders
<1>9. PICK a : a = Arranged(S, before) OBVIOUS
<1>10. /\ a \in Seq(S)
       /\ \A x \in S : \E k \in DOMAIN a : a[k] = x
       /\ \A u, j \in DOMAIN a : a[u] = a[j] => u = j
  BY <1>7, <1>8, <1>9, ArrangedIs
<1>11. Lower = a BY <1>1, <1>2, <1>9 DEF Lower
<1>12. DOMAIN a = 1 .. Len(a) /\ Len(a) \in Nat /\ \A k \in DOMAIN a : a[k] \in S BY <1>10
<1>13. r = [k \in DOMAIN a |-> queue[a[k][1]][a[k][2]]] BY <1>11
<1>14. \A k \in DOMAIN a : /\ queue[a[k][1]][a[k][2]] \in Queued
                           /\ job[queue[a[k][1]][a[k][2]]].currPri # hiQueue
                           /\ queue[a[k][1]][a[k][2]] \in Jobs
  BY <1>5, <1>12 DEF Queued
<1>15. r \in Seq(Jobs) /\ DOMAIN r = DOMAIN a /\ \A k \in DOMAIN a : r[k] = queue[a[k][1]][a[k][2]]
  BY <1>12, <1>13, <1>14
<1>16. ASSUME NEW u \in DOMAIN r, NEW k \in DOMAIN r, r[u] = r[k] PROVE u = k
  <2>1. a[u] \in S /\ a[k] \in S /\ r[u] = queue[a[u][1]][a[u][2]] /\ r[k] = queue[a[k][1]][a[k][2]]
    BY <1>12, <1>15
  <2>2. a[u][1] = a[k][1] BY <1>5, <1>16, <2>1
  <2>3. a[u][2] = a[k][2] BY <1>3, <1>5, <1>16, <2>1, <2>2 DEF Lists
  <2>4. a[u] = a[k] BY <1>5, <2>1, <2>2, <2>3
  <2> QED BY <1>10, <1>15, <2>4
<1>17. \A j \in {j \in Queued : job[j].currPri # hiQueue} : \E k \in DOMAIN r : r[k] = j
  BY <1>6, <1>10, <1>15
<1>18. \A k \in DOMAIN r : r[k] \in {j \in Queued : job[j].currPri # hiQueue} BY <1>14, <1>15
<1> QED BY <1>15, <1>16, <1>17, <1>18 DEF Lists

\* What the invariant says of the jobs and the queues, in one place.
LEMMA JobsKnown ==
  ASSUME JobsInv
  PROVE  /\ numQueues \in Nat /\ Queues \subseteq Nat /\ hiQueue \in Queues
         /\ Jobs = 1 .. Len(job) /\ Len(job) \in Nat /\ Jobs = DOMAIN job
         /\ \A j \in Jobs : job[j] \in JobStates
         /\ \A q \in Queues : queue[q] \in Seq(Jobs) /\ Lists(queue[q], {j \in Queued : job[j].currPri = q})
         /\ DOMAIN ioDone = 1 .. Len(ioDone) /\ Len(ioDone) \in Nat
         /\ \A k \in DOMAIN ioDone : ioDone[k] \in Events /\ ioDone[k].job \in Jobs /\ ioDone[k].time \in Int
<1>1. /\ job \in Seq(JobStates) /\ ioDone \in Seq(Events) /\ queue \in [Queues -> Seq(Jobs)] /\ InQueues
  BY DEF JobsInv, MlfqTypeOK
<1>2. numQueues \in Nat /\ Queues \subseteq Nat /\ hiQueue \in Queues
  BY MlfqAssumption DEF Queues, hiQueue
<1>3. Jobs = 1 .. Len(job) /\ Len(job) \in Nat /\ Jobs = DOMAIN job /\ \A j \in Jobs : job[j] \in JobStates
  BY <1>1 DEF Jobs
<1>4. \A q \in Queues : queue[q] \in Seq(Jobs) /\ Lists(queue[q], {j \in Queued : job[j].currPri = q})
  BY <1>1 DEF InQueues
<1>5. DOMAIN ioDone = 1 .. Len(ioDone) /\ Len(ioDone) \in Nat /\ \A k \in DOMAIN ioDone : ioDone[k] \in Events
  BY <1>1
<1>6. \A k \in DOMAIN ioDone : ioDone[k].job \in Jobs /\ ioDone[k].time \in Int
  BY <1>5 DEF Events
<1> QED BY <1>2, <1>3, <1>4, <1>5, <1>6

\* At first all jobs are still to begin.
LEMMA MlfqInitHolds == MlfqInit => JobsInv
<1> SUFFICES ASSUME MlfqInit PROVE JobsInv
  OBVIOUS
<1>1. PICK v \in 0 .. MaxJobs : \E list \in [1 .. v -> StartTimes \X RunTimes \X IoFreqs] :
         /\ job = [j \in 1 .. v |->
              [runTime |-> list[j][2], ioFreq |-> list[j][3], timeLeft |-> list[j][2],
               currPri |-> hiQueue, ticksLeft |-> quantum[hiQueue],
               allotLeft |-> allotment[hiQueue], doingIO |-> FALSE]]
         /\ ioDone = [j \in 1 .. v |-> [time |-> list[j][1], job |-> j, type |-> "JOB BEGINS"]]
  BY DEF MlfqInit
<1>2. PICK list \in [1 .. v -> StartTimes \X RunTimes \X IoFreqs] :
         /\ job = [j \in 1 .. v |->
              [runTime |-> list[j][2], ioFreq |-> list[j][3], timeLeft |-> list[j][2],
               currPri |-> hiQueue, ticksLeft |-> quantum[hiQueue],
               allotLeft |-> allotment[hiQueue], doingIO |-> FALSE]]
         /\ ioDone = [j \in 1 .. v |-> [time |-> list[j][1], job |-> j, type |-> "JOB BEGINS"]]
  BY <1>1
<1>3. v \in Nat /\ hiQueue \in Queues /\ quantum[hiQueue] \in Int /\ allotment[hiQueue] \in Int
  <2>1. MaxJobs \in Nat /\ hiQueue \in Queues BY MlfqAssumption DEF hiQueue, Queues
  <2> QED BY <2>1, MlfqAssumption
<1>4. \A j \in 1 .. v : list[j][1] \in Int /\ list[j][2] \in Int /\ list[j][3] \in Int
  <2>1. \A j \in 1 .. v : list[j] \in StartTimes \X RunTimes \X IoFreqs BY <1>2
  <2>2. \A j \in 1 .. v : list[j][1] \in StartTimes /\ list[j][2] \in RunTimes /\ list[j][3] \in IoFreqs
    BY <2>1
  <2> QED BY <2>2, MlfqAssumption
<1>5. DOMAIN job = 1 .. v /\ DOMAIN ioDone = 1 .. v /\ Jobs = 1 .. v BY <1>2 DEF Jobs
<1>6. \A j \in 1 .. v : /\ job[j] = [runTime |-> list[j][2], ioFreq |-> list[j][3], timeLeft |-> list[j][2],
                              currPri |-> hiQueue, ticksLeft |-> quantum[hiQueue],
                              allotLeft |-> allotment[hiQueue], doingIO |-> FALSE]
                        /\ ioDone[j] = [time |-> list[j][1], job |-> j, type |-> "JOB BEGINS"]
  BY <1>2
<1>7. ASSUME NEW j \in 1 .. v
      PROVE  /\ job[j] \in JobStates /\ ioDone[j] \in Events
             /\ ioDone[j].job = j /\ ioDone[j].time = list[j][1]
             /\ ~ job[j].doingIO /\ job[j].timeLeft = job[j].runTime
             /\ job[j].runTime \in Int /\ job[j].currPri = hiQueue
             /\ ioDone[j].type = "JOB BEGINS"
  <2>1. PICK a \in Int, b \in Int, c \in Int : a = list[j][1] /\ b = list[j][2] /\ c = list[j][3]
    BY <1>4
  <2>2. PICK tl \in Int, m \in Int : tl = quantum[hiQueue] /\ m = allotment[hiQueue] BY <1>3
  <2>3. job[j] = [runTime |-> b, ioFreq |-> c, timeLeft |-> b, currPri |-> hiQueue,
                  ticksLeft |-> tl, allotLeft |-> m, doingIO |-> FALSE]
    BY <1>6, <2>1, <2>2
  <2>4. ioDone[j] = [time |-> a, job |-> j, type |-> "JOB BEGINS"] BY <1>6, <2>1
  <2>5. job[j] \in JobStates BY <1>3, <2>3 DEF JobStates
  <2>6. ioDone[j] \in Events
    <3>1. j \in Jobs BY <1>5
    <3>2. [time |-> a, job |-> j, type |-> "JOB BEGINS"]
            \in [time : Int, job : Jobs, type : {"JOB BEGINS", "IO_DONE"}]
      BY <3>1
    <3> QED BY <2>4, <3>2 DEF Events
  <2>7. ioDone[j].job = j /\ ioDone[j].time = list[j][1] /\ ioDone[j].type = "JOB BEGINS"
    <3>1. PICK e : e = ioDone[j] OBVIOUS
    <3>2. e = [time |-> a, job |-> j, type |-> "JOB BEGINS"] BY <2>4, <3>1
    <3>3. e.job = j /\ e.time = a /\ e.type = "JOB BEGINS" BY <3>2
    <3> QED BY <2>1, <3>1, <3>3
  <2>8. /\ ~ job[j].doingIO /\ job[j].timeLeft = job[j].runTime
        /\ job[j].runTime \in Int /\ job[j].currPri = hiQueue
    BY <2>1, <2>3
  <2> QED BY <2>5, <2>6, <2>7, <2>8
<1>9. job \in Seq(JobStates) /\ ioDone \in Seq(Events)
  <2>1. job = [j \in 1 .. v |-> job[j]] /\ ioDone = [j \in 1 .. v |-> ioDone[j]] BY <1>2, <1>5
  <2>2. PICK f, g : f = job /\ g = ioDone OBVIOUS
  <2>3. PICK E : E = Events OBVIOUS
  <2>4. /\ \A j \in 1 .. v : f[j] \in JobStates /\ g[j] \in E
        /\ f = [j \in 1 .. v |-> f[j]] /\ g = [j \in 1 .. v |-> g[j]]
    BY <1>7, <2>1, <2>2, <2>3
  <2>5. f \in [1 .. v -> JobStates] /\ g \in [1 .. v -> E] BY <2>4
  <2>6. f \in Seq(JobStates) /\ g \in Seq(E) BY <1>3, <2>5
  <2> QED BY <2>2, <2>3, <2>6
<1>10. \A j \in 1 .. v : /\ ioDone[j].job = j /\ ~ job[j].doingIO /\ job[j].timeLeft = job[j].runTime
                          /\ job[j].runTime \in Int /\ job[j].currPri = hiQueue
                          /\ ioDone[j].time \in Int /\ ioDone[j].type = "JOB BEGINS"
  BY <1>4, <1>7
<1>11. Awaited = Jobs /\ Queued = {}
  <2>1. \A k \in DOMAIN ioDone : ioDone[k].job = k BY <1>5, <1>10
  <2>2. Awaited = DOMAIN ioDone BY <2>1 DEF Awaited
  <2> QED BY <1>5, <2>2 DEF Queued
<1>12. queue = [q \in Queues |-> <<>>] /\ currTime = 0 /\ aborted = FALSE /\ stage = "boost"
       /\ options \in [boost : Boosts, ioTime : IoTimes, stay : BOOLEAN, iobump : BOOLEAN]
  BY DEF MlfqInit
<1>13. MlfqTypeOK BY <1>9, <1>12 DEF MlfqTypeOK
<1>14. InQueues BY <1>11, <1>12 DEF InQueues, Lists
<1>15. Coming
  <2>1. \A j \in Awaited : ~ Done(j)
    <3> SUFFICES ASSUME NEW j \in 1 .. v PROVE ~ Done(j)
      BY <1>5, <1>11
    <3>1. job[j].timeLeft = job[j].runTime /\ job[j].runTime \in Int BY <1>10
    <3> QED BY <3>1 DEF Done
  <2>2. \A k \in DOMAIN ioDone : Late(ioDone[k]) \/ ToCome(ioDone[k].time)
    <3> SUFFICES ASSUME NEW k \in 1 .. v PROVE Late(ioDone[k]) \/ ToCome(ioDone[k].time)
      BY <1>5
    <3>1. PICK e : e = ioDone[k] OBVIOUS
    <3>2. e.time \in Int /\ e.type = "JOB BEGINS" BY <1>10, <3>1
    <3>3. e.time < 0 \/ e.time >= 0
      <4>1. PICK tl \in Int : tl = e.time BY <3>2, Zenon
      <4>2. tl < 0 \/ tl >= 0 OBVIOUS
      <4> QED BY <4>1, <4>2, Zenon
    <3>4. stage # "run" /\ currTime = 0 BY <1>12
    <3> QED BY <3>1, <3>2, <3>3, <3>4 DEF Late, ToCome
  <2>3. \A u, k \in DOMAIN ioDone : ioDone[u].job = ioDone[k].job => u = k
    <3>1. \A u \in DOMAIN ioDone : ioDone[u].job = u BY <1>5, <1>10
    <3> QED BY <3>1
  <2>4. \A j \in Jobs : job[j].doingIO => j \in Awaited BY <1>11
  <2> QED BY <2>1, <2>2, <2>3, <2>4 DEF Coming
<1>16. Runnable
  <2> SUFFICES ASSUME NEW j \in 1 .. v
               PROVE  IF job[j].runTime < 1 THEN job[j].currPri = hiQueue /\ job[j].timeLeft < 1
                      ELSE job[j].timeLeft >= 0
    BY <1>5 DEF Runnable
  <2>1. PICK b : b = job[j] OBVIOUS
  <2>2. b.timeLeft = b.runTime /\ b.runTime \in Int /\ b.currPri = hiQueue BY <1>10, <2>1
  <2> QED BY <2>1, <2>2
<1>17. Excused BY <1>12 DEF Excused
<1> QED BY <1>13, <1>14, <1>15, <1>16, <1>17 DEF JobsInv

\* A boost moves all that wait in lower queues to the highest, with their priorities.
LEMMA BoostKeeps == JobsInv /\ Boost => JobsInv'
<1> SUFFICES ASSUME JobsInv, Boost PROVE JobsInv'
  OBVIOUS
<1>1. PICK boosting : boosting = (options.boost > 0 /\ currTime # 0 /\ currTime % options.boost = 0)
  OBVIOUS
<1>2. PICK ready : ready = [k \in DOMAIN Lower |-> queue[Lower[k][1]][Lower[k][2]]] OBVIOUS
<1>3. /\ ~ boosting => queue' = queue /\ job' = job
      /\ boosting =>
           /\ queue' = [q \in Queues |-> IF q = hiQueue THEN queue[q] \o ready ELSE <<>>]
           /\ job' = [j \in Jobs |->
                IF job[j].timeLeft > 0
                THEN [job[j] EXCEPT !.currPri = hiQueue, !.ticksLeft = allotment[hiQueue]]
                ELSE job[j]]
      /\ options' = options /\ ioDone' = ioDone /\ currTime' = currTime /\ aborted' = aborted
      /\ stage' = "wake" /\ stage = "boost" /\ ~ aborted
  BY <1>1, <1>2 DEF Boost, Loop
<1>4. CASE ~ boosting
  <2>1. Jobs' = Jobs /\ Awaited' = Awaited /\ Events' = Events
    BY <1>3, <1>4 DEF Awaited, Events, Jobs
  <2>2. Queued' = Queued BY <1>3, <1>4, <2>1 DEF Queued, Done
  <2>3. InQueues'
    <3>1. \A q : {j \in Queued' : job'[j].currPri = q} = {j \in Queued : job[j].currPri = q}
      BY <1>3, <1>4, <2>2
    <3>2. queue' = queue BY <1>3, <1>4
    <3> QED BY <3>1, <3>2 DEF JobsInv, InQueues
  <2>4. MlfqTypeOK' BY <1>3, <1>4, <2>1 DEF JobsInv, MlfqTypeOK, Queues
  <2>5. Coming' BY <1>3, <1>4, <2>1 DEF JobsInv, Coming, Done, Late, ToCome
  <2>6. Runnable' /\ Excused' BY <1>3, <1>4, <2>1 DEF JobsInv, Runnable, Excused
  <2> QED BY <2>3, <2>4, <2>5, <2>6 DEF JobsInv
<1>5. CASE boosting
  <2>1. /\ hiQueue \in Queues /\ Jobs = 1 .. Len(job) /\ Len(job) \in Nat /\ Jobs = DOMAIN job
        /\ \A j \in Jobs : job[j] \in JobStates
        /\ \A q \in Queues : queue[q] \in Seq(Jobs) /\ Lists(queue[q], {j \in Queued : job[j].currPri = q})
    BY JobsKnown
  <2>2. allotment[hiQueue] \in Int BY <2>1, MlfqAssumption
  <2>3. DOMAIN job' = Jobs /\ Jobs' = Jobs BY <1>3, <1>5 DEF Jobs
  <2>4. \A j \in Jobs : /\ job'[j].timeLeft = job[j].timeLeft /\ job'[j].doingIO = job[j].doingIO
                        /\ job'[j].runTime = job[j].runTime
                        /\ job'[j].currPri = IF job[j].timeLeft > 0 THEN hiQueue ELSE job[j].currPri
                        /\ job'[j] \in JobStates
    <3> SUFFICES ASSUME NEW j \in Jobs
                 PROVE  /\ job'[j].timeLeft = job[j].timeLeft /\ job'[j].doingIO = job[j].doingIO
                        /\ job'[j].runTime = job[j].runTime
                        /\ job'[j].currPri = IF job[j].timeLeft > 0 THEN hiQueue ELSE job[j].currPri
                        /\ job'[j] \in JobStates
      OBVIOUS
    <3>1. PICK b : b = job[j] OBVIOUS
    <3>2. b \in JobStates BY <2>1, <3>1
    <3>3. job'[j] = IF b.timeLeft > 0
                    THEN [b EXCEPT !.currPri = hiQueue, !.ticksLeft = allotment[hiQueue]] ELSE b
      BY <1>3, <1>5, <3>1
    <3> QED BY <2>1, <2>2, <3>1, <3>2, <3>3 DEF JobStates
  <2>5. job' \in Seq(JobStates)
    <3>1. job' = [j \in 1 .. Len(job) |-> job'[j]] BY <1>3, <1>5, <2>1
    <3> QED BY <2>1, <2>4, <3>1
  <2>6. Awaited' = Awaited /\ Queued' = Queued /\ Events' = Events
    <3>1. Awaited' = Awaited /\ Events' = Events BY <1>3, <2>3 DEF Awaited, Events
    <3>2. \A j \in Jobs : Done(j)' <=> Done(j) BY <2>4 DEF Done
    <3> QED BY <2>3, <3>1, <3>2 DEF Queued
  <2>7. ready \in Seq(Jobs) /\ Lists(ready, {j \in Queued : job[j].currPri # hiQueue})
    BY <1>2, LowerIs
  <2>8. PICK H : H = {j \in Queued : job[j].currPri = hiQueue} OBVIOUS
  <2>9. PICK L : L = {j \in Queued : job[j].currPri # hiQueue} OBVIOUS
  <2>10. PICK s : s = queue[hiQueue] OBVIOUS
  <2>11. s \o ready \in Seq(Jobs) /\ Lists(s \o ready, H \cup L)
    <3>1. s \in Seq(Jobs) /\ Lists(s, H) /\ ready \in Seq(Jobs) /\ Lists(ready, L) /\ H \cap L = {}
      BY <2>1, <2>7, <2>8, <2>9, <2>10
    <3> QED BY <3>1, JoinedLists
  <2>12. \A j \in Queued : job'[j].currPri = hiQueue
    <3> SUFFICES ASSUME NEW j \in Queued PROVE job'[j].currPri = hiQueue
      OBVIOUS
    <3>1. j \in Jobs /\ ~ Done(j) /\ job[j].timeLeft \in Int /\ job[j].runTime \in Int
      BY <2>1 DEF Queued, JobStates
    <3> QED BY <2>4, <3>1 DEF JobsInv, Runnable, Done
  <2>13. H \cup L = Queued BY <2>8, <2>9
  <2>14. \A q \in Queues : queue'[q] = IF q = hiQueue THEN s \o ready ELSE <<>>
    BY <1>3, <1>5, <2>10
  <2>15. \A q \in Queues : queue'[q] \in Seq(Jobs) /\ Lists(queue'[q], {j \in Queued : job'[j].currPri = q})
    <3> SUFFICES ASSUME NEW q \in Queues
                 PROVE  queue'[q] \in Seq(Jobs) /\ Lists(queue'[q], {j \in Queued : job'[j].currPri = q})
      OBVIOUS
    <3>1. CASE q = hiQueue
      <4>1. {j \in Queued : job'[j].currPri = q} = H \cup L BY <2>12, <2>13, <3>1
      <4> QED BY <2>11, <2>14, <3>1, <4>1
    <3>2. CASE q # hiQueue
      <4>1. {j \in Queued : job'[j].currPri = q} = {} BY <2>12, <3>2
      <4>2. queue'[q] = <<>> BY <2>14, <3>2
      <4>3. Lists(<<>>, {}) /\ <<>> \in Seq(Jobs) BY DEF Lists
      <4> QED BY <4>1, <4>2, <4>3
    <3> QED BY <3>1, <3>2
  <2>16. InQueues' BY <2>6, <2>15 DEF InQueues, Queues
  <2>17. queue' \in [Queues -> Seq(Jobs)] BY <1>3, <1>5, <2>15
  <2>18. MlfqTypeOK' BY <1>3, <2>3, <2>5, <2>6, <2>17 DEF JobsInv, MlfqTypeOK, Queues
  <2>19. Coming'
    <3>1. Awaited \subseteq Jobs BY JobsKnown DEF Awaited
    <3>2. \A j \in Awaited : ~ Done(j)' BY <2>4, <3>1 DEF JobsInv, Coming, Done
    <3>3. \A j \in Jobs : job'[j].doingIO => j \in Awaited BY <2>4 DEF JobsInv, Coming
    <3>4. \A k \in DOMAIN ioDone : Late(ioDone[k])' \/ ToCome(ioDone[k].time)'
      BY <1>3 DEF JobsInv, Coming, Late, ToCome
    <3> QED BY <1>3, <2>3, <2>6, <3>2, <3>3, <3>4 DEF JobsInv, Coming, Late, ToCome
  <2>20. Runnable'
    <3> SUFFICES ASSUME NEW j \in Jobs
                 PROVE  IF job'[j].runTime < 1 THEN job'[j].currPri = hiQueue /\ job'[j].timeLeft < 1
                        ELSE job'[j].timeLeft >= 0
      BY <2>3 DEF Runnable
    <3> QED BY <2>4 DEF JobsInv, Runnable
  <2>21. Excused' BY <1>3 DEF Excused
  <2> QED BY <2>16, <2>18, <2>19, <2>20, <2>21 DEF JobsInv
<1> QED BY <1>4, <1>5

\* Jobs that begin and I/O that ends move from what is to come to the queues.
LEMMA WakeKeeps == JobsInv /\ Wake => JobsInv'
<1> SUFFICES ASSUME JobsInv, Wake PROVE JobsInv'
  OBVIOUS
<1>1. PICK due : due = {k \in DOMAIN ioDone : ioDone[k].time = currTime} OBVIOUS
<1>2. PICK front : front = {k \in due : options.iobump /\ ioDone[k].type = "IO_DONE"} OBVIOUS
<1>3. /\ queue' = [q \in Queues |-> Reverse(To(q, front)) \o queue[q] \o To(q, due \ front)]
      /\ job' = [j \in Jobs |-> IF \E k \in due : ioDone[k].job = j
                                THEN [job[j] EXCEPT !.doingIO = FALSE] ELSE job[j]]
      /\ ioDone' = Kept(ioDone, DOMAIN ioDone \ due)
      /\ options' = options /\ currTime' = currTime /\ aborted' = aborted /\ stage' = "run" /\ ~ aborted
  BY <1>1, <1>2 DEF Wake, Loop
<1>4. /\ Queues \subseteq Nat /\ Jobs = 1 .. Len(job) /\ Len(job) \in Nat /\ Jobs = DOMAIN job
      /\ \A j \in Jobs : job[j] \in JobStates
      /\ \A q \in Queues : queue[q] \in Seq(Jobs) /\ Lists(queue[q], {j \in Queued : job[j].currPri = q})
      /\ \A k \in DOMAIN ioDone : ioDone[k].job \in Jobs /\ ioDone[k].time \in Int
  BY JobsKnown
<1>5. MlfqTypeOK /\ Coming /\ Runnable /\ currTime \in Int BY DEF JobsInv, MlfqTypeOK
<1>6. PICK left : left = DOMAIN ioDone \ due OBVIOUS
<1>7. PICK r : r = Kept(ioDone, left) OBVIOUS
<1>8. /\ r \in Seq(Events)
      /\ \A k \in DOMAIN r : \E u \in left : r[k] = ioDone[u]
      /\ {r[k].job : k \in DOMAIN r} = {ioDone[k].job : k \in left}
      /\ \A u, k \in DOMAIN r : r[u].job = r[k].job => u = k
  <2>1. left \subseteq DOMAIN ioDone BY <1>6
  <2>2. Left(r, left) BY <1>5, <1>7, <2>1, LeftIs
  <2> QED BY <2>2 DEF Left
<1>9. PICK D : D = {ioDone[k].job : k \in due} OBVIOUS
<1>10. ioDone' = r /\ Awaited' = {ioDone[k].job : k \in left}
  <2>1. ioDone' = r BY <1>3, <1>6, <1>7
  <2> QED BY <1>8, <2>1 DEF Awaited
<1>11. Awaited = D \cup Awaited' /\ D \cap Awaited' = {} /\ D \subseteq Jobs /\ Awaited \subseteq Jobs
  <2>1. D \cap {ioDone[k].job : k \in left} = {} BY <1>1, <1>5, <1>6, <1>9 DEF Coming
  <2>2. Awaited = D \cup {ioDone[k].job : k \in left} BY <1>1, <1>6, <1>9 DEF Awaited
  <2>3. Awaited \subseteq Jobs BY <1>4 DEF Awaited
  <2> QED BY <1>10, <2>1, <2>2, <2>3
<1>12. DOMAIN job' = Jobs /\ Jobs' = Jobs /\ Events' = Events BY <1>3 DEF Jobs, Events
<1>13. ASSUME NEW j \in Jobs
       PROVE  /\ job'[j].timeLeft = job[j].timeLeft /\ job'[j].currPri = job[j].currPri
              /\ job'[j].runTime = job[j].runTime
              /\ job'[j] \in JobStates
              /\ j \in D => ~ job'[j].doingIO
              /\ j \notin D => job'[j].doingIO = job[j].doingIO
  <2>1. PICK b : b = job[j] OBVIOUS
  <2>2. b \in JobStates BY <1>4, <2>1
  <2>3. job'[j] = IF j \in D THEN [b EXCEPT !.doingIO = FALSE] ELSE b BY <1>3, <1>9, <2>1
  <2> QED BY <2>1, <2>2, <2>3 DEF JobStates
<1>14. job' \in Seq(JobStates)
  <2>1. job' = [j \in 1 .. Len(job) |-> job'[j]] BY <1>3, <1>4
  <2> QED BY <1>4, <1>13, <2>1
<1>15. Queued' = Queued \cup D /\ Queued \cap D = {}
  <2>1. \A j \in Awaited : ~ Done(j) BY <1>5 DEF Coming
  <2>2. \A j \in Jobs : Done(j)' <=> Done(j) BY <1>13 DEF Done
  <2>3. Queued' = {j \in Jobs : ~ Done(j) /\ j \notin Awaited'} BY <1>12, <2>2 DEF Queued
  <2> QED BY <1>11, <2>1, <2>3 DEF Queued
<1>16. ASSUME NEW q \in Queues
       PROVE  queue'[q] \in Seq(Jobs) /\ Lists(queue'[q], {j \in Queued' : job'[j].currPri = q})
  <2>1. PICK F : F = {ioDone[k].job : k \in {k \in front : job[ioDone[k].job].currPri = q}}
    OBVIOUS
  <2>2. PICK rest : rest = due \ front OBVIOUS
  <2>3. PICK B : B = {ioDone[k].job : k \in {k \in rest : job[ioDone[k].job].currPri = q}}
    OBVIOUS
  <2>4. PICK f : f = To(q, front) OBVIOUS
  <2>5. PICK b : b = To(q, rest) OBVIOUS
  <2>6. front \subseteq DOMAIN ioDone /\ rest \subseteq DOMAIN ioDone BY <1>1, <1>2, <2>2
  <2>7. f \in Seq(Jobs) /\ Lists(f, F) BY <1>5, <2>1, <2>4, <2>6, ToIs
  <2>8. b \in Seq(Jobs) /\ Lists(b, B) BY <1>5, <2>3, <2>5, <2>6, ToIs
  <2>9. PICK g : g = Reverse(f) OBVIOUS
  <2>10. g \in Seq(Jobs) /\ Lists(g, F) BY <2>7, <2>9, ReversedLists
  <2>11. PICK s : s = queue[q] OBVIOUS
  <2>12. PICK W : W = {j \in Queued : job[j].currPri = q} OBVIOUS
  <2>13. s \in Seq(Jobs) /\ Lists(s, W) BY <1>4, <2>11, <2>12
  <2>14. F \cup B = {j \in D : job[j].currPri = q} BY <1>1, <1>2, <1>9, <2>1, <2>2, <2>3
  <2>15. F \cap B = {} BY <1>1, <1>2, <1>5, <2>1, <2>2, <2>3, <2>6 DEF Coming
  <2>16. F \cap W = {} /\ (F \cup W) \cap B = {} BY <1>15, <2>12, <2>14, <2>15
  <2>17. g \o s \in Seq(Jobs) /\ Lists(g \o s, F \cup W) BY <2>10, <2>13, <2>16, JoinedLists
  <2>18. PICK h : h = g \o s OBVIOUS
  <2>19. PICK X : X = F \cup W OBVIOUS
  <2>20. h \o b \in Seq(Jobs) /\ Lists(h \o b, X \cup B)
    <3>1. h \in Seq(Jobs) /\ Lists(h, X) /\ X \cap B = {} BY <2>16, <2>17, <2>18, <2>19
    <3> QED BY <2>8, <3>1, JoinedLists
  <2>21. queue'[q] = h \o b BY <1>3, <2>2, <2>4, <2>5, <2>9, <2>11, <2>18
  <2>22. {j \in Queued' : job'[j].currPri = q} = X \cup B
    <3>1. Queued' \subseteq Jobs BY <1>11, <1>15 DEF Queued
    <3>2. {j \in Queued' : job'[j].currPri = q} = {j \in Queued' : job[j].currPri = q}
      BY <1>13, <3>1
    <3> QED BY <1>15, <2>12, <2>14, <2>19, <3>2
  <2> QED BY <2>20, <2>21, <2>22
<1>17. InQueues' BY <1>16 DEF InQueues
<1>18. MlfqTypeOK'
  <2>1. queue' \in [Queues -> Seq(Jobs)] BY <1>3, <1>16
  <2> QED BY <1>3, <1>5, <1>8, <1>10, <1>12, <1>14, <2>1 DEF MlfqTypeOK
<1>19. Coming'
  <2>1. \A k \in DOMAIN r : Late(r[k]) \/ r[k].time > currTime
    <3> SUFFICES ASSUME NEW k \in DOMAIN r PROVE Late(r[k]) \/ r[k].time > currTime
      OBVIOUS
    <3>1. PICK u \in left : r[k] = ioDone[u] BY <1>8
    <3>2. PICK e : e = r[k] OBVIOUS
    <3>3. u \in DOMAIN ioDone /\ e.time # currTime /\ e.time \in Int
      BY <1>1, <1>4, <1>6, <3>1, <3>2
    <3>4. Late(e) \/ e.time >= currTime BY <1>5, <3>1, <3>2, <3>3 DEF Coming, ToCome
    <3>5. Late(e) \/ e.time > currTime BY <1>5, <3>3, <3>4
    <3> QED BY <3>2, <3>5
  <2>2. \A k \in DOMAIN r : r[k].time \in Int BY <1>4, <1>6, <1>8
  <2>3. \A k \in DOMAIN ioDone' : Late(ioDone[k])' \/ ToCome(ioDone[k].time)'
    <3>1. \A k \in DOMAIN r : Late(r[k]) \/ (r[k].time >= currTime /\ r[k].time > currTime)
      BY <1>5, <2>1, <2>2
    <3>2. ioDone' = r /\ currTime' = currTime /\ options' = options BY <1>3, <1>10
    <3> QED BY <3>1, <3>2 DEF Late, ToCome
  <2>4. \A j \in Awaited' : ~ Done(j)'
    <3>1. \A j \in Awaited : ~ Done(j) BY <1>5 DEF Coming
    <3>2. \A j \in Jobs : Done(j)' <=> Done(j) BY <1>13 DEF Done
    <3> QED BY <1>11, <3>1, <3>2
  <2>5. \A j \in Jobs : job'[j].doingIO => j \in Awaited' BY <1>5, <1>11, <1>13 DEF Coming
  <2> QED BY <1>8, <1>10, <1>12, <2>3, <2>4, <2>5 DEF Coming
<1>20. Runnable'
  <2> SUFFICES ASSUME NEW j \in Jobs
               PROVE  IF job'[j].runTime < 1 THEN job'[j].currPri = hiQueue /\ job'[j].timeLeft < 1
                      ELSE job'[j].timeLeft >= 0
    BY <1>12 DEF Runnable
  <2> QED BY <1>5, <1>13 DEF Runnable
<1>21. Excused' BY <1>3 DEF Excused
<1> QED BY <1>17, <1>18, <1>19, <1>20, <1>21 DEF JobsInv

\* The job that runs: the first of the highest queue that has one.
LEMMA FoundIs ==
  ASSUME JobsInv, Ready # {}
  PROVE  /\ currQueue \in Queues /\ queue[currQueue] # <<>> /\ currJob = Head(queue[currQueue])
         /\ currJob \in Queued /\ currJob \in Jobs /\ job[currJob].currPri = currQueue
<1>1. numQueues \in Nat /\ Queues \subseteq Nat BY JobsKnown
<1>2. PICK K : K = {(numQueues - 1) - q : q \in Ready} OBVIOUS
<1>3. Ready \subseteq 0 .. numQueues - 1 BY DEF Ready, Queues
<1>4. K \subseteq Nat /\ K # {}
  <2>1. \A q \in Ready : (numQueues - 1) - q \in Nat BY <1>1, <1>3
  <2> QED BY <1>2, <2>1
<1>5. PICK x \in K : \A y \in K : x <= y BY <1>4, Smallest
<1>6. PICK p \in Ready : x = (numQueues - 1) - p BY <1>2
<1>7. \A r \in Ready : r <= p
  <2> SUFFICES ASSUME NEW r \in Ready PROVE r <= p
    OBVIOUS
  <2>1. x <= (numQueues - 1) - r BY <1>2, <1>5
  <2> QED BY <1>1, <1>3, <1>6, <2>1
<1>8. currQueue \in Ready BY <1>7 DEF currQueue
<1>9. currQueue \in Queues /\ queue[currQueue] # <<>> BY <1>8 DEF Ready
<1>10. PICK q : q = currQueue OBVIOUS
<1>11. PICK s : s = queue[q] OBVIOUS
<1>12. PICK W : W = {j \in Queued : job[j].currPri = q} OBVIOUS
<1>13. s \in Seq(Jobs) /\ Lists(s, W) /\ s # <<>> BY <1>9, <1>10, <1>11, <1>12, JobsKnown
<1>14. Head(s) \in W BY <1>13, TailLists
<1>15. currJob = Head(s) BY <1>10, <1>11 DEF currJob
<1> QED BY <1>9, <1>10, <1>11, <1>12, <1>14, <1>15 DEF Queued

\* After a tick what is to come is not in the past.
LEMMA LaterIs ==
  ASSUME JobsInv, stage = "run"
  PROVE  \A k \in DOMAIN ioDone : Late(ioDone[k]) \/ ioDone[k].time >= currTime + 1
<1>1. \A k \in DOMAIN ioDone : ioDone[k].time \in Int /\ currTime \in Int
  BY JobsKnown DEF JobsInv, MlfqTypeOK
<1>2. \A k \in DOMAIN ioDone : Late(ioDone[k]) \/ ioDone[k].time > currTime
  BY DEF JobsInv, Coming, ToCome
<1> QED BY <1>1, <1>2

\* What every tick that runs a job does, the job that runs taken out of its queue.
LEMMA TickIs ==
  ASSUME JobsInv, Tick, NEW q, q = currQueue, NEW j, j = currJob, NEW tl, tl = Tail(queue[q]),
         NEW W, W = {u \in Queued : job[u].currPri = q}
  PROVE  /\ q \in Queues /\ j \in W /\ j \in Jobs /\ j \notin Awaited
         /\ queue[q] \in Seq(Jobs) /\ Lists(queue[q], W)
         /\ tl \in Seq(Jobs) /\ Lists(tl, W \ {j})
         /\ ~ aborted /\ ~ aborted' /\ currTime' = currTime + 1 /\ currTime \in Int
         /\ stage' = "boost" /\ options' = options
         /\ \A k \in DOMAIN ioDone : Late(ioDone[k]) \/ ioDone[k].time >= currTime + 1
<1>1. /\ Ready # {} /\ stage = "run" /\ ~ aborted /\ aborted' = aborted
      /\ currTime' = currTime + 1 /\ stage' = "boost" /\ options' = options
  BY DEF Tick, Loop
<1>2. /\ q \in Queues /\ queue[q] # <<>> /\ j = Head(queue[q])
      /\ j \in Queued /\ j \in Jobs /\ job[j].currPri = q
  BY <1>1, FoundIs
<1>3. PICK s : s = queue[q] OBVIOUS
<1>4. s \in Seq(Jobs) /\ Lists(s, W) /\ s # <<>> BY <1>2, <1>3, JobsKnown
<1>5. Head(s) \in W /\ Tail(s) \in Seq(Jobs) /\ Lists(Tail(s), W \ {Head(s)}) BY <1>4, TailLists
<1>6. tl \in Seq(Jobs) /\ Lists(tl, W \ {j}) /\ queue[q] \in Seq(Jobs) /\ Lists(queue[q], W)
  BY <1>2, <1>3, <1>4, <1>5
<1>7. currTime \in Int BY DEF JobsInv, MlfqTypeOK
<1>8. \A k \in DOMAIN ioDone : Late(ioDone[k]) \/ ioDone[k].time >= currTime + 1
  BY <1>1, LaterIs
<1> QED BY <1>1, <1>2, <1>6, <1>7, <1>8 DEF Queued

\* A tick without a job: every event that is due has been taken.
LEMMA IdleKeeps == JobsInv /\ Idle => JobsInv'
<1> SUFFICES ASSUME JobsInv, Idle PROVE JobsInv'
  OBVIOUS
<1>1. /\ currTime' = currTime + 1 /\ stage' = "boost" /\ stage = "run"
      /\ options' = options /\ job' = job /\ ioDone' = ioDone /\ queue' = queue /\ aborted' = aborted
  BY DEF Idle, Loop
<1>2. Jobs' = Jobs /\ Awaited' = Awaited /\ Events' = Events BY <1>1 DEF Awaited, Events, Jobs
<1>3. Queued' = Queued BY <1>1, <1>2 DEF Queued, Done
<1>4. currTime \in Int /\ currTime' \in Int BY <1>1 DEF JobsInv, MlfqTypeOK
<1>5. InQueues'
  <2>1. \A q : {j \in Queued' : job'[j].currPri = q} = {j \in Queued : job[j].currPri = q}
    BY <1>1, <1>3
  <2> QED BY <1>1, <2>1 DEF JobsInv, InQueues
<1>6. MlfqTypeOK' BY <1>1, <1>2, <1>4 DEF JobsInv, MlfqTypeOK
<1>7. \A k \in DOMAIN ioDone : Late(ioDone[k]) \/ ioDone[k].time >= currTime + 1
  BY <1>1, LaterIs
<1>8. Coming' BY <1>1, <1>2, <1>7 DEF JobsInv, Coming, Done, Late, ToCome
<1>9. Runnable' /\ Excused'
  BY <1>1, <1>2 DEF JobsInv, Runnable, Excused, Ready, currJob, currQueue
<1> QED BY <1>5, <1>6, <1>8, <1>9 DEF JobsInv

\* The Abort() that is reached: the job had nothing to run from the start.
LEMMA AbortKeeps == JobsInv /\ Abort => JobsInv'
<1> SUFFICES ASSUME JobsInv, Abort PROVE JobsInv'
  OBVIOUS
<1>1. PICK j : j = currJob OBVIOUS
<1>2. /\ Jobs = 1 .. Len(job) /\ Len(job) \in Nat /\ Jobs = DOMAIN job
      /\ \A u \in Jobs : job[u] \in JobStates
  BY JobsKnown
<1>3. Ready # {} /\ j \in Queued /\ j \in Jobs /\ job[j].currPri = currQueue
  BY <1>1, FoundIs DEF Abort
<1>4. /\ job' = [job EXCEPT ![j].timeLeft = @ - 1, ![j].ticksLeft = @ - 1]
      /\ job[j].timeLeft < 1 /\ aborted' = TRUE
      /\ options' = options /\ ioDone' = ioDone /\ queue' = queue /\ currTime' = currTime
      /\ stage' = stage
  BY <1>1, <1>3 DEF Abort
<1>5. /\ job[j] \in JobStates /\ job[j].timeLeft \in Int /\ job[j].runTime \in Int
      /\ job[j].ticksLeft \in Int
  BY <1>2, <1>3 DEF JobStates
<1>6. job[j].runTime < 1 /\ job[j].currPri = hiQueue
  BY <1>3, <1>4, <1>5 DEF JobsInv, Runnable, Queued, Done
<1>7. PICK m \in Int, v \in Int : m = job[j].timeLeft - 1 /\ v = job[j].ticksLeft - 1 /\ m < 1
  <2>1. PICK a \in Int, b \in Int : a = job[j].timeLeft /\ b = job[j].ticksLeft /\ a < 1
    BY <1>4, <1>5
  <2>2. a - 1 \in Int /\ b - 1 \in Int /\ a - 1 < 1 BY <2>1
  <2> QED BY <2>1, <2>2
<1>8. job' = [job EXCEPT ![j] = [job[j] EXCEPT !.timeLeft = m, !.ticksLeft = v]]
  BY <1>3, <1>4, <1>7
<1>9. PICK c : c = [job[j] EXCEPT !.timeLeft = m, !.ticksLeft = v] OBVIOUS
<1>10. /\ c \in JobStates /\ c.timeLeft = m /\ c.runTime = job[j].runTime
       /\ c.currPri = job[j].currPri /\ c.doingIO = job[j].doingIO
  BY <1>5, <1>9 DEF JobStates
<1>11. DOMAIN job' = Jobs /\ Jobs' = Jobs /\ job'[j] = c /\ \A u \in Jobs \ {j} : job'[u] = job[u]
  BY <1>2, <1>3, <1>8, <1>9 DEF Jobs
<1>12. \A u \in Jobs :
         /\ job'[u] \in JobStates /\ job'[u].runTime = job[u].runTime
         /\ job'[u].currPri = job[u].currPri /\ job'[u].doingIO = job[u].doingIO
         /\ u # j => job'[u].timeLeft = job[u].timeLeft
  BY <1>2, <1>10, <1>11
<1>13. \A u \in Jobs : Done(u)' <=> Done(u)
  <2>1. ~ Done(j) /\ ~ Done(j)'
    <3>1. ~ (job[j].runTime > 0) BY <1>5, <1>6
    <3> QED BY <1>3, <1>12, <3>1 DEF Done
  <2> QED BY <1>12, <2>1 DEF Done
<1>14. Awaited' = Awaited /\ Events' = Events BY <1>4, <1>11 DEF Awaited, Events
<1>15. Queued' = Queued BY <1>11, <1>13, <1>14 DEF Queued
<1>16. InQueues'
  <2>1. \A q : {u \in Queued' : job'[u].currPri = q} = {u \in Queued : job[u].currPri = q}
    BY <1>12, <1>15 DEF Queued
  <2>2. queue' = queue BY <1>4
  <2> QED BY <2>1, <2>2 DEF JobsInv, InQueues
<1>17. job' \in Seq(JobStates)
  <2>1. job' = [u \in 1 .. Len(job) |-> job'[u]] BY <1>2, <1>4
  <2> QED BY <1>2, <1>12, <2>1
<1>18. MlfqTypeOK' BY <1>4, <1>11, <1>14, <1>17 DEF JobsInv, MlfqTypeOK
<1>19. Coming'
  <2>1. Awaited \subseteq Jobs BY JobsKnown DEF Awaited
  <2>2. \A u \in Awaited : ~ Done(u)' BY <1>13, <2>1 DEF JobsInv, Coming
  <2>3. \A u \in Jobs : job'[u].doingIO => u \in Awaited BY <1>12 DEF JobsInv, Coming
  <2>4. \A k \in DOMAIN ioDone : Late(ioDone[k])' \/ ToCome(ioDone[k].time)'
    BY <1>4 DEF JobsInv, Coming, Late, ToCome
  <2> QED BY <1>4, <1>11, <1>14, <2>2, <2>3, <2>4 DEF JobsInv, Coming, Late, ToCome
<1>20. Runnable'
  <2>1. \A u \in Jobs \ {j} :
          IF job'[u].runTime < 1 THEN job'[u].currPri = hiQueue /\ job'[u].timeLeft < 1
          ELSE job'[u].timeLeft >= 0
    BY <1>11 DEF JobsInv, Runnable
  <2>2. job'[j].runTime < 1 /\ job'[j].currPri = hiQueue /\ job'[j].timeLeft < 1
    BY <1>6, <1>7, <1>10, <1>11
  <2> QED BY <1>11, <2>1, <2>2 DEF Runnable
<1>21. Excused'
  <2>1. Ready' = Ready /\ currJob' = currJob BY <1>4 DEF Ready, currJob, currQueue
  <2>2. job'[j].runTime < 1 BY <1>6, <1>10, <1>11
  <2> QED BY <1>1, <1>3, <2>1, <2>2 DEF Excused
<1> QED BY <1>16, <1>18, <1>19, <1>20, <1>21 DEF JobsInv

\* The last tick of a job takes it out of the queues.
LEMMA RunLastKeeps == JobsInv /\ RunLast => JobsInv'
<1> SUFFICES ASSUME JobsInv, RunLast PROVE JobsInv'
  OBVIOUS
<1>1. PICK q : q = currQueue OBVIOUS
<1>2. PICK j : j = currJob OBVIOUS
<1>3. PICK tl : tl = Tail(queue[q]) OBVIOUS
<1>4. PICK W : W = {u \in Queued : job[u].currPri = q} OBVIOUS
<1>5. Tick BY DEF RunLast
<1>6. /\ q \in Queues /\ j \in W /\ j \in Jobs /\ j \notin Awaited
      /\ tl \in Seq(Jobs) /\ Lists(tl, W \ {j})
      /\ ~ aborted /\ ~ aborted' /\ currTime' = currTime + 1 /\ currTime \in Int
      /\ stage' = "boost" /\ options' = options
      /\ \A k \in DOMAIN ioDone : Late(ioDone[k]) \/ ioDone[k].time >= currTime + 1
  BY <1>1, <1>2, <1>3, <1>4, <1>5, TickIs
<1>7. /\ job' = [job EXCEPT ![j].timeLeft = 0, ![j].ticksLeft = @ - 1]
      /\ queue' = [queue EXCEPT ![q] = tl] /\ ioDone' = ioDone
  BY <1>1, <1>2, <1>3 DEF RunLast
<1>8. /\ Jobs = 1 .. Len(job) /\ Len(job) \in Nat /\ Jobs = DOMAIN job
      /\ \A u \in Jobs : job[u] \in JobStates
      /\ \A p \in Queues : queue[p] \in Seq(Jobs) /\ Lists(queue[p], {u \in Queued : job[u].currPri = p})
  BY JobsKnown
<1>9. DOMAIN job' = Jobs /\ Jobs' = Jobs /\ Awaited' = Awaited /\ Events' = Events
  <2>1. DOMAIN job' = DOMAIN job BY <1>7
  <2>2. Jobs' = Jobs BY <2>1 DEF Jobs
  <2> QED BY <1>7, <1>8, <2>1, <2>2 DEF Awaited, Events
<1>10. \A u \in Jobs \ {j} : job'[u] = job[u] BY <1>6, <1>7, <1>8
<1>11. /\ job'[j] \in JobStates /\ job'[j].timeLeft = 0 /\ job'[j].doingIO = job[j].doingIO
       /\ job'[j].runTime = job[j].runTime /\ job[j].runTime > 0
  <2>1. PICK b : b = job[j] OBVIOUS
  <2>2. b \in JobStates BY <1>6, <1>8, <2>1
  <2>3. job'[j] = [b EXCEPT !.timeLeft = 0, !.ticksLeft = @ - 1] BY <1>6, <1>7, <1>8, <2>1
  <2>4. PICK v \in Int : v = b.ticksLeft - 1 BY <2>2 DEF JobStates
  <2>5. PICK c : c = [b EXCEPT !.timeLeft = 0, !.ticksLeft = v] OBVIOUS
  <2>6. c = job'[j] BY <2>3, <2>4, <2>5
  <2>9. b = [runTime |-> b.runTime, ioFreq |-> b.ioFreq, timeLeft |-> b.timeLeft, currPri |-> b.currPri,
             ticksLeft |-> b.ticksLeft, allotLeft |-> b.allotLeft, doingIO |-> b.doingIO]
    BY <2>2 DEF JobStates
  <2>10. c = [runTime |-> b.runTime, ioFreq |-> b.ioFreq, timeLeft |-> 0, currPri |-> b.currPri,
              ticksLeft |-> v, allotLeft |-> b.allotLeft, doingIO |-> b.doingIO]
    BY <2>5, <2>9
  <2>11. 0 \in Int /\ b.runTime \in Int /\ b.ioFreq \in Int /\ b.currPri \in Queues
         /\ b.allotLeft \in Int /\ b.doingIO \in BOOLEAN
    BY <2>2 DEF JobStates
  <2>7. c \in JobStates /\ c.timeLeft = 0 /\ c.doingIO = b.doingIO /\ c.runTime = b.runTime
    BY <2>10, <2>11 DEF JobStates
  <2>8. b.runTime \in Int /\ ~ (b.runTime < 1)
    <3>1. b.runTime \in Int /\ b.timeLeft = 1 BY <1>2, <2>1, <2>2 DEF RunLast, JobStates
    <3> QED BY <1>6, <2>1, <3>1 DEF JobsInv, Runnable
  <2> QED BY <2>1, <2>6, <2>7, <2>8
<1>12. job' \in Seq(JobStates)
  <2>1. job' = [u \in 1 .. Len(job) |-> job'[u]] BY <1>7, <1>8
  <2>2. \A u \in 1 .. Len(job) : job'[u] \in JobStates BY <1>8, <1>10, <1>11
  <2> QED BY <1>8, <2>1, <2>2
<1>13. Queued' = Queued \ {j}
  <2>1. \A u \in Jobs : u \in Queued' <=> u \in Queued /\ u # j
    BY <1>9, <1>10, <1>11 DEF Queued, Done
  <2>2. Queued' \subseteq Jobs /\ Queued \subseteq Jobs BY <1>9 DEF Queued
  <2> QED BY <2>1, <2>2
<1>14. ASSUME NEW p \in Queues
       PROVE  queue'[p] \in Seq(Jobs) /\ Lists(queue'[p], {u \in Queued' : job'[u].currPri = p})
  <2>1. {u \in Queued' : job'[u].currPri = p} = {u \in Queued : job[u].currPri = p} \ {j}
    BY <1>10, <1>13 DEF Queued
  <2>2. CASE p = q
    <3>1. queue'[p] = tl BY <1>6, <1>7, <2>2 DEF JobsInv, MlfqTypeOK
    <3> QED BY <1>4, <1>6, <2>1, <2>2, <3>1
  <2>3. CASE p # q
    <3>1. queue'[p] = queue[p] BY <1>7, <2>3 DEF JobsInv, MlfqTypeOK
    <3>2. {u \in Queued : job[u].currPri = p} \ {j} = {u \in Queued : job[u].currPri = p}
      BY <1>4, <1>6, <2>3
    <3> QED BY <1>8, <2>1, <3>1, <3>2
  <2> QED BY <2>2, <2>3
<1>15. InQueues' BY <1>14 DEF InQueues
<1>16. MlfqTypeOK'
  <2>1. queue' \in [Queues -> Seq(Jobs)] BY <1>7, <1>14 DEF JobsInv, MlfqTypeOK
  <2>2. currTime' \in Int BY <1>6
  <2> QED BY <1>6, <1>7, <1>9, <1>12, <2>1, <2>2 DEF JobsInv, MlfqTypeOK
<1>17. Coming'
  <2>1. Awaited \subseteq Jobs BY JobsKnown DEF Awaited
  <2>2. \A u \in Awaited : ~ Done(u)' BY <1>6, <1>10, <2>1 DEF JobsInv, Coming, Done
  <2>3. \A u \in Jobs : job'[u].doingIO => u \in Awaited
    BY <1>6, <1>10, <1>11 DEF JobsInv, Coming
  <2> QED BY <1>6, <1>7, <1>9, <2>2, <2>3 DEF JobsInv, Coming, Late, ToCome
<1>18. Runnable'
  <2>1. \A u \in Jobs \ {j} :
          IF job'[u].runTime < 1 THEN job'[u].currPri = hiQueue /\ job'[u].timeLeft < 1
          ELSE job'[u].timeLeft >= 0
    BY <1>10 DEF JobsInv, Runnable
  <2>2. job'[j].runTime \in Int /\ job'[j].runTime > 0 /\ job'[j].timeLeft = 0
    BY <1>11 DEF JobStates
  <2>3. ~ (job'[j].runTime < 1) /\ job'[j].timeLeft >= 0 BY <2>2
  <2> QED BY <1>9, <2>1, <2>3 DEF Runnable
<1>19. Excused' BY <1>6 DEF Excused
<1> QED BY <1>15, <1>16, <1>17, <1>18, <1>19 DEF JobsInv

\* The state of the job that ran on queue q, after a tick that asks for I/O or not.
AfterTick(s, q, io) ==
  LET ran == [s EXCEPT !.timeLeft = @ - 1, !.ticksLeft = @ - 1]
      asked == IF ~ io THEN ran
               ELSE IF options.stay
               THEN [ran EXCEPT !.doingIO = TRUE, !.ticksLeft = quantum[q],
                                !.allotLeft = allotment[q]]
               ELSE [ran EXCEPT !.doingIO = TRUE]
  IN  IF ran.ticksLeft = 0 THEN QuantumOver(asked, q) ELSE asked

\* What a tick leaves of the state of the job that ran, when it has more to do.
LEMMA RanIs ==
  ASSUME JobsInv, NEW q \in Queues, NEW s \in JobStates, s.timeLeft > 1, NEW io \in BOOLEAN
  PROVE  /\ AfterTick(s, q, io) \in JobStates /\ AfterTick(s, q, io).timeLeft > 0
         /\ ~ io => AfterTick(s, q, io).doingIO = s.doingIO
         /\ s.ticksLeft - 1 # 0 => AfterTick(s, q, io).currPri = s.currPri
<1>21. PICK ran : ran = [s EXCEPT !.timeLeft = @ - 1, !.ticksLeft = @ - 1] OBVIOUS
<1>22. PICK asked : asked = IF ~ io THEN ran
                         ELSE IF options.stay
                         THEN [ran EXCEPT !.doingIO = TRUE, !.ticksLeft = quantum[q],
                                          !.allotLeft = allotment[q]]
                         ELSE [ran EXCEPT !.doingIO = TRUE]
  OBVIOUS
<1>23. PICK after : after = IF ran.ticksLeft = 0 THEN QuantumOver(asked, q) ELSE asked OBVIOUS
<1>0. after = AfterTick(s, q, io) BY <1>21, <1>22, <1>23 DEF AfterTick
<1>20. s.ticksLeft \in Int /\ ran.ticksLeft = s.ticksLeft - 1 BY <1>21 DEF JobStates
<1> SUFFICES /\ after \in JobStates /\ after.timeLeft > 0
             /\ ~ io => after.doingIO = s.doingIO
             /\ ran.ticksLeft # 0 => after.currPri = s.currPri
  BY <1>0, <1>20
<1>1. \A p \in Queues : quantum[p] \in Int /\ allotment[p] \in Int BY MlfqAssumption
<1>2. PICK v \in Int, m \in Nat : v = s.ticksLeft - 1 /\ m = s.timeLeft - 1 /\ m > 0
  BY DEF JobStates
<1>3. ran = [s EXCEPT !.timeLeft = m, !.ticksLeft = v] BY <1>2, <1>21
<1>4. /\ ran \in JobStates /\ ran.timeLeft = m /\ ran.doingIO = s.doingIO /\ ran.currPri = s.currPri
  <2>1. s = [runTime |-> s.runTime, ioFreq |-> s.ioFreq, timeLeft |-> s.timeLeft, currPri |-> s.currPri,
             ticksLeft |-> s.ticksLeft, allotLeft |-> s.allotLeft, doingIO |-> s.doingIO]
    BY DEF JobStates
  <2>2. ran = [runTime |-> s.runTime, ioFreq |-> s.ioFreq, timeLeft |-> m, currPri |-> s.currPri,
               ticksLeft |-> v, allotLeft |-> s.allotLeft, doingIO |-> s.doingIO]
    BY <1>3, <2>1
  <2>3. m \in Int /\ s.runTime \in Int /\ s.ioFreq \in Int /\ s.currPri \in Queues
        /\ s.allotLeft \in Int /\ s.doingIO \in BOOLEAN
    BY DEF JobStates
  <2>4. ran \in JobStates BY <2>2, <2>3 DEF JobStates
  <2>5. ran.timeLeft = m /\ ran.currPri = s.currPri BY <1>3 DEF JobStates
  <2>6. ran.doingIO = s.doingIO BY <1>3, <2>1
  <2> QED BY <2>4, <2>5, <2>6
<1>5. PICK a \in Int, b \in Int : a = quantum[q] /\ b = allotment[q] BY <1>1
<1>6. /\ asked \in JobStates /\ asked.timeLeft = m /\ asked.currPri = s.currPri
      /\ ~ io => asked.doingIO = s.doingIO
  <2>1. CASE ~ io BY <1>4, <1>22, <2>1
  <2>2. CASE io /\ options.stay
    <3>1. asked = [ran EXCEPT !.doingIO = TRUE, !.ticksLeft = a, !.allotLeft = b]
      BY <1>5, <1>22, <2>2
    <3> QED BY <1>4, <2>2, <3>1 DEF JobStates
  <2>3. CASE io /\ ~ options.stay
    <3>1. asked = [ran EXCEPT !.doingIO = TRUE] BY <1>22, <2>3
    <3> QED BY <1>4, <2>3, <3>1 DEF JobStates
  <2> QED BY <2>1, <2>2, <2>3
<1>7. CASE ran.ticksLeft # 0 BY <1>2, <1>6, <1>7, <1>23
<1>8. CASE ran.ticksLeft = 0
  <2>1. PICK down : down = IF q > 0 THEN q - 1 ELSE 0 OBVIOUS
  <2>2. down \in Queues BY <2>1, MlfqAssumption DEF Queues
  <2>3. PICK c \in Int, d \in Int : c = quantum[down] /\ d = allotment[down] BY <1>1, <2>2
  <2>4. after = IF asked.allotLeft = 1
                THEN [asked EXCEPT !.currPri = down, !.ticksLeft = c, !.allotLeft = d]
                ELSE [asked EXCEPT !.ticksLeft = a, !.allotLeft = @ - 1]
    BY <1>5, <1>8, <1>23, <2>1, <2>3 DEF QuantumOver
  <2>5. CASE asked.allotLeft = 1
    <3>1. after = [asked EXCEPT !.currPri = down, !.ticksLeft = c, !.allotLeft = d]
      BY <2>4, <2>5
    <3>2. after \in JobStates /\ after.timeLeft = m /\ after.doingIO = asked.doingIO
      BY <1>6, <2>2, <3>1 DEF JobStates
    <3> QED BY <1>2, <1>6, <1>8, <3>2
  <2>6. CASE asked.allotLeft # 1
    <3>0. asked.allotLeft \in Int BY <1>6 DEF JobStates
    <3>1. PICK e \in Int : e = asked.allotLeft - 1 BY <3>0
    <3>2. after = [asked EXCEPT !.ticksLeft = a, !.allotLeft = e] BY <2>4, <2>6, <3>1
    <3>3. after \in JobStates /\ after.timeLeft = m /\ after.doingIO = asked.doingIO
      BY <1>6, <3>2 DEF JobStates
    <3> QED BY <1>2, <1>6, <1>8, <3>3
  <2> QED BY <2>5, <2>6
<1> QED BY <1>7, <1>8

\* How long a job is to run never changes.
LEMMA RanRuns ==
  ASSUME NEW q, NEW s \in JobStates, NEW io
  PROVE  AfterTick(s, q, io).runTime = s.runTime
<1>21. PICK ran : ran = [s EXCEPT !.timeLeft = @ - 1, !.ticksLeft = @ - 1] OBVIOUS
<1>22. PICK asked : asked = IF ~ io THEN ran
                         ELSE IF options.stay
                         THEN [ran EXCEPT !.doingIO = TRUE, !.ticksLeft = quantum[q],
                                          !.allotLeft = allotment[q]]
                         ELSE [ran EXCEPT !.doingIO = TRUE]
  OBVIOUS
<1>23. PICK after : after = IF ran.ticksLeft = 0 THEN QuantumOver(asked, q) ELSE asked OBVIOUS
<1>0. after = AfterTick(s, q, io) BY <1>21, <1>22, <1>23 DEF AfterTick
<1>1. PICK v, m : v = s.ticksLeft - 1 /\ m = s.timeLeft - 1 OBVIOUS
<1>2. ran = [s EXCEPT !.timeLeft = m, !.ticksLeft = v] BY <1>1, <1>21
<1>3. "runTime" \in DOMAIN s BY DEF JobStates
<1>6. ran.runTime = s.runTime /\ DOMAIN ran = DOMAIN s BY <1>2, <1>3
<1>4. asked.runTime = s.runTime /\ DOMAIN asked = DOMAIN s
  <2>1. PICK a, b : a = quantum[q] /\ b = allotment[q] OBVIOUS
  <2>2. \/ asked = ran
        \/ asked = [ran EXCEPT !.doingIO = TRUE, !.ticksLeft = a, !.allotLeft = b]
        \/ asked = [ran EXCEPT !.doingIO = TRUE]
    BY <1>22, <2>1
  <2>3. CASE asked = ran BY <1>6, <2>3
  <2>4. CASE asked = [ran EXCEPT !.doingIO = TRUE, !.ticksLeft = a, !.allotLeft = b]
    BY <1>3, <1>6, <2>4
  <2>5. CASE asked = [ran EXCEPT !.doingIO = TRUE] BY <1>3, <1>6, <2>5
  <2> QED BY <2>2, <2>3, <2>4, <2>5
<1>5. after.runTime = s.runTime
  <2>1. PICK d : d = IF q > 0 THEN q - 1 ELSE 0 OBVIOUS
  <2>2. PICK a, b, c, e, f : a = quantum[q] /\ b = quantum[d] /\ c = allotment[d] /\ e = asked.allotLeft - 1
    OBVIOUS
  <2>3. \/ after = asked
        \/ after = [asked EXCEPT !.currPri = d, !.ticksLeft = b, !.allotLeft = c]
        \/ after = [asked EXCEPT !.ticksLeft = a, !.allotLeft = e]
    BY <1>23, <2>1, <2>2 DEF QuantumOver
  <2>4. CASE after = asked BY <1>4, <2>4
  <2>5. CASE after = [asked EXCEPT !.currPri = d, !.ticksLeft = b, !.allotLeft = c]
    BY <1>3, <1>4, <2>5
  <2>6. CASE after = [asked EXCEPT !.ticksLeft = a, !.allotLeft = e] BY <1>3, <1>4, <2>6
  <2> QED BY <2>3, <2>4, <2>5, <2>6
<1> QED BY <1>0, <1>5

\* A tick puts the job into one place: it keeps its place, goes to the back of a queue or waits
\* for its I/O, even when its quantum ends with the tick that asks for it.
LEMMA RunOnKeeps == JobsInv /\ RunOn => JobsInv'
<1> SUFFICES ASSUME JobsInv, RunOn PROVE JobsInv'
  OBVIOUS
<1>1. PICK q : q = currQueue OBVIOUS
<1>2. PICK j : j = currJob OBVIOUS
<1>3. PICK tl : tl = Tail(queue[q]) OBVIOUS
<1>4. PICK W : W = {u \in Queued : job[u].currPri = q} OBVIOUS
<1>5. Tick /\ job[j].timeLeft > 1 BY <1>2 DEF RunOn
<1>6. /\ q \in Queues /\ j \in W /\ j \in Jobs /\ j \notin Awaited
      /\ queue[q] \in Seq(Jobs) /\ Lists(queue[q], W)
      /\ tl \in Seq(Jobs) /\ Lists(tl, W \ {j})
      /\ ~ aborted /\ ~ aborted' /\ currTime' = currTime + 1 /\ currTime \in Int
      /\ stage' = "boost" /\ options' = options
      /\ \A k \in DOMAIN ioDone : Late(ioDone[k]) \/ ioDone[k].time >= currTime + 1
  BY <1>1, <1>2, <1>3, <1>4, <1>5, TickIs
<1>7. /\ Jobs = 1 .. Len(job) /\ Len(job) \in Nat /\ Jobs = DOMAIN job
      /\ \A u \in Jobs : job[u] \in JobStates
      /\ \A p \in Queues : queue[p] \in Seq(Jobs) /\ Lists(queue[p], {u \in Queued : job[u].currPri = p})
  BY JobsKnown
<1>8. PICK s : s = job[j] OBVIOUS
<1>9. PICK ran : ran = [s EXCEPT !.timeLeft = @ - 1, !.ticksLeft = @ - 1] OBVIOUS
<1>10. PICK io \in BOOLEAN : io = (ran.ioFreq > 0 /\ (ran.runTime - ran.timeLeft) % ran.ioFreq = 0)
  OBVIOUS
<1>11. PICK asked : asked = IF ~ io THEN ran
                            ELSE IF options.stay
                            THEN [ran EXCEPT !.doingIO = TRUE, !.ticksLeft = quantum[q],
                                             !.allotLeft = allotment[q]]
                            ELSE [ran EXCEPT !.doingIO = TRUE]
  OBVIOUS
<1>12. PICK over \in BOOLEAN : over = (ran.ticksLeft = 0) OBVIOUS
<1>13. PICK after : after = IF ran.ticksLeft = 0 THEN QuantumOver(asked, q) ELSE asked OBVIOUS
<1>14. s \in JobStates /\ s.timeLeft > 1 /\ s.currPri = q /\ ~ s.doingIO
  BY <1>4, <1>5, <1>6, <1>7, <1>8 DEF JobsInv, Coming
<1>15. /\ after \in JobStates /\ after.timeLeft > 0 /\ after.runTime = s.runTime
       /\ ~ io => ~ after.doingIO
       /\ ~ over => after.currPri = q
  <2>1. /\ after \in JobStates /\ after.timeLeft > 0
        /\ ~ io => after.doingIO = s.doingIO
        /\ ran.ticksLeft # 0 => after.currPri = s.currPri
    <3>1. after = AfterTick(s, q, io) BY <1>9, <1>11, <1>13 DEF AfterTick
    <3>2. s.ticksLeft \in Int /\ ran.ticksLeft = s.ticksLeft - 1 BY <1>9, <1>14 DEF JobStates
    <3> QED BY <1>6, <1>14, <3>1, <3>2, RanIs
  <2>2. after.runTime = s.runTime
    <3>1. after = AfterTick(s, q, io) BY <1>9, <1>11, <1>13 DEF AfterTick
    <3> QED BY <1>14, <3>1, RanRuns
  <2> QED BY <1>12, <1>14, <2>1, <2>2
<1>16. PICK rest : rest = [queue EXCEPT ![q] = tl] OBVIOUS
<1>17. PICK e : e = [time |-> IoEnds, job |-> j, type |-> "IO_DONE"] OBVIOUS
<1>18. /\ job' = [job EXCEPT ![j] = after]
       /\ queue' = IF io THEN rest
                   ELSE IF over THEN [rest EXCEPT ![after.currPri] = Append(@, j)] ELSE queue
       /\ ioDone' = IF io THEN Append(ioDone, e) ELSE ioDone
  BY <1>1, <1>2, <1>3, <1>8, <1>9, <1>10, <1>11, <1>12, <1>13, <1>16, <1>17 DEF RunOn
<1>19. DOMAIN job' = Jobs /\ Jobs' = Jobs /\ Events' = Events
  <2>1. DOMAIN job' = DOMAIN job BY <1>18
  <2>2. Jobs' = Jobs BY <2>1 DEF Jobs
  <2> QED BY <1>7, <2>1, <2>2 DEF Events
<1>20. job'[j] = after /\ \A u \in Jobs \ {j} : job'[u] = job[u] BY <1>6, <1>7, <1>18
<1>21. job' \in Seq(JobStates)
  <2>1. job' = [u \in 1 .. Len(job) |-> job'[u]] BY <1>7, <1>18
  <2>2. \A u \in 1 .. Len(job) : job'[u] \in JobStates BY <1>7, <1>15, <1>20
  <2> QED BY <1>7, <2>1, <2>2
<1>22. Awaited \subseteq Jobs /\ \A u \in Jobs : Done(u)' <=> Done(u)
  <2>1. Awaited \subseteq Jobs BY JobsKnown DEF Awaited
  <2>2. s.timeLeft # 0 /\ after.timeLeft # 0 BY <1>14, <1>15 DEF JobStates
  <2>3. ~ Done(j)' /\ ~ Done(j) BY <1>8, <1>20, <2>2 DEF Done
  <2>4. \A u \in Jobs \ {j} : Done(u)' <=> Done(u) BY <1>20 DEF Done
  <2> QED BY <2>1, <2>3, <2>4
<1>23. queue \in [Queues -> Seq(Jobs)] /\ ioDone \in Seq(Events) BY DEF JobsInv, MlfqTypeOK
<1>24. currTime' \in Int /\ stage' # "run" BY <1>6
<1>27. Runnable'
  <2>1. s.runTime \in Int /\ ~ (s.runTime < 1)
    <3>1. s.runTime \in Int /\ s.timeLeft \in Int /\ ~ (s.timeLeft < 1) BY <1>14 DEF JobStates
    <3> QED BY <1>6, <1>8, <3>1 DEF JobsInv, Runnable
  <2>2. after.timeLeft \in Int /\ after.timeLeft >= 0 /\ ~ (after.runTime < 1)
    BY <1>15, <2>1 DEF JobStates
  <2> QED BY <1>19, <1>20, <2>2 DEF JobsInv, Runnable
<1>28. Excused' BY <1>6 DEF Excused
<1>29. \A k \in DOMAIN ioDone : Late(ioDone[k]) \/ ioDone[k].time >= currTime' BY <1>6
<1>25. CASE ~ io
  <2>1. ioDone' = ioDone /\ Awaited' = Awaited
    <3>1. ioDone' = ioDone BY <1>18, <1>25
    <3> QED BY <3>1 DEF Awaited
  <2>2. Queued' = Queued BY <1>19, <1>22, <2>1 DEF Queued
  <2>8. \A k \in DOMAIN ioDone' : Late(ioDone[k])' \/ ToCome(ioDone[k].time)'
    BY <1>6, <1>24, <1>29, <2>1 DEF Late, ToCome
  <2>3. Coming'
    <3>1. \A u \in Awaited : ~ Done(u)' BY <1>22 DEF JobsInv, Coming
    <3>2. \A u \in Jobs : job'[u].doingIO => u \in Awaited
      BY <1>15, <1>20, <1>25 DEF JobsInv, Coming
    <3> QED BY <1>19, <2>1, <2>8, <3>1, <3>2 DEF JobsInv, Coming
  <2>4. ASSUME NEW p \in Queues
        PROVE  queue'[p] \in Seq(Jobs) /\ Lists(queue'[p], {u \in Queued : job'[u].currPri = p})
    <3>1. PICK V : V = {u \in Queued : job[u].currPri = p} OBVIOUS
    <3>2. queue[p] \in Seq(Jobs) /\ Lists(queue[p], V) BY <1>7, <3>1
    <3>3. {u \in Queued : job'[u].currPri = p} = IF after.currPri = p THEN (V \ {j}) \cup {j} ELSE V \ {j}
      <4>1. j \in Queued BY <1>4, <1>6
      <4>2. \A u \in Queued : u \in Jobs BY DEF Queued
      <4> QED BY <1>20, <3>1, <4>1, <4>2
    <3>4. CASE ~ over
      <4>1. queue'[p] = queue[p] BY <1>18, <1>25, <3>4
      <4>2. {u \in Queued : job'[u].currPri = p} = V BY <1>4, <1>6, <1>15, <3>1, <3>3, <3>4
      <4> QED BY <3>2, <4>1, <4>2
    <3>5. CASE over
      <4>1. rest[p] \in Seq(Jobs) /\ Lists(rest[p], V \ {j})
        <5>1. CASE p = q
          <6>1. rest[p] = tl /\ V = W BY <1>4, <1>6, <1>16, <1>23, <3>1, <5>1
          <6> QED BY <1>6, <6>1
        <5>2. CASE p # q
          <6>1. rest[p] = queue[p] /\ V \ {j} = V BY <1>4, <1>6, <1>16, <1>23, <3>1, <5>2
          <6> QED BY <3>2, <6>1
        <5> QED BY <5>1, <5>2
      <4>2. after.currPri \in Queues /\ rest \in [Queues -> Seq(Jobs)]
        BY <1>6, <1>15, <1>16, <1>23 DEF JobStates
      <4>3. queue' = [rest EXCEPT ![after.currPri] = Append(@, j)] BY <1>18, <1>25, <3>5
      <4>4. CASE after.currPri = p
        <5>1. queue'[p] = Append(rest[p], j) BY <4>2, <4>3, <4>4
        <5>2. PICK r : r = rest[p] OBVIOUS
        <5>3. PICK U : U = V \ {j} OBVIOUS
        <5>4. Append(r, j) \in Seq(Jobs) /\ Lists(Append(r, j), U \cup {j})
          BY <1>6, <4>1, <5>2, <5>3, AppendLists
        <5> QED BY <3>3, <4>4, <5>1, <5>2, <5>3, <5>4
      <4>5. CASE after.currPri # p
        <5>1. queue'[p] = rest[p] BY <4>2, <4>3, <4>5
        <5> QED BY <3>3, <4>1, <4>5, <5>1
      <4> QED BY <4>4, <4>5
    <3> QED BY <3>4, <3>5
  <2>5. InQueues' BY <2>2, <2>4 DEF InQueues
  <2>6. queue' \in [Queues -> Seq(Jobs)]
    <3>1. DOMAIN queue' = Queues /\ queue' = [p \in Queues |-> queue'[p]]
      BY <1>16, <1>18, <1>23, <1>25
    <3> QED BY <2>4, <3>1
  <2>7. MlfqTypeOK' BY <1>6, <1>19, <1>21, <1>23, <1>24, <2>1, <2>6 DEF JobsInv, MlfqTypeOK
  <2> QED BY <1>27, <1>28, <2>3, <2>5, <2>7 DEF JobsInv
<1>26. CASE io
  <2>1. queue' = rest /\ ioDone' = Append(ioDone, e) BY <1>18, <1>26
  <2>2. options.ioTime \in Int BY MlfqAssumption DEF JobsInv, MlfqTypeOK
  <2>3. IoEnds \in Int /\ (options.ioTime < 0 \/ IoEnds >= currTime') BY <1>6, <2>2 DEF IoEnds
  <2>4. e.job = j /\ e.time = IoEnds /\ e.type = "IO_DONE" BY <1>17
  <2>5. e \in Events BY <1>6, <1>17, <2>3 DEF Events
  <2>6. PICK v : v = Len(ioDone) OBVIOUS
  <2>7. v \in Nat /\ DOMAIN ioDone = 1 .. v /\ v + 1 \notin 1 .. v BY <1>23, <2>6
  <2>8. PICK d : d = ioDone' OBVIOUS
  <2>9. /\ d \in Seq(Events) /\ DOMAIN d = 1 .. v + 1 /\ d[v + 1] = e
        /\ \A k \in 1 .. v : d[k] = ioDone[k]
    BY <1>23, <2>1, <2>5, <2>6, <2>7, <2>8
  <2>10. \A k \in DOMAIN d : k \in 1 .. v \/ k = v + 1 BY <2>7, <2>9
  <2>11. Awaited' = Awaited \cup {j}
    <3>1. 1 .. v \subseteq DOMAIN d /\ v + 1 \in DOMAIN d BY <2>7, <2>9
    <3>2. {d[k].job : k \in DOMAIN d} = Awaited \cup {j}
      BY <2>4, <2>7, <2>9, <2>10, <3>1 DEF Awaited
    <3> QED BY <2>8, <3>2 DEF Awaited
  <2>12. Queued' = Queued \ {j} BY <1>19, <1>22, <2>11 DEF Queued
  <2>13. ASSUME NEW u \in DOMAIN d, NEW k \in DOMAIN d, d[u].job = d[k].job PROVE u = k
    <3>1. \A m \in 1 .. v : ioDone[m].job # j BY <1>6, <2>7 DEF Awaited
    <3>2. CASE u \in 1 .. v /\ k \in 1 .. v BY <2>7, <2>9, <2>13, <3>2 DEF JobsInv, Coming
    <3>3. CASE ~ (u \in 1 .. v /\ k \in 1 .. v) BY <2>4, <2>9, <2>10, <2>13, <3>1, <3>3
    <3> QED BY <3>2, <3>3
  <2>20. Late(e) \/ e.time >= currTime' BY <2>3, <2>4 DEF Late
  <2>14. \A k \in DOMAIN d : Late(d[k]) \/ d[k].time >= currTime'
    BY <1>29, <2>7, <2>9, <2>10, <2>20
  <2>21. \A k \in DOMAIN ioDone' : Late(ioDone[k])' \/ ToCome(ioDone[k].time)'
    BY <1>6, <1>24, <2>8, <2>14 DEF Late, ToCome
  <2>15. Coming'
    <3>1. \A u \in Awaited' : ~ Done(u)'
      <4>1. ~ Done(j) BY <1>4, <1>6 DEF Queued
      <4>2. \A u \in Awaited : ~ Done(u) BY DEF JobsInv, Coming
      <4> QED BY <1>6, <1>22, <2>11, <4>1, <4>2
    <3>2. \A u \in Jobs : job'[u].doingIO => u \in Awaited' BY <1>20, <2>11 DEF JobsInv, Coming
    <3> QED BY <1>19, <2>8, <2>13, <2>21, <3>1, <3>2 DEF Coming
  <2>16. ASSUME NEW p \in Queues
         PROVE  queue'[p] \in Seq(Jobs) /\ Lists(queue'[p], {u \in Queued' : job'[u].currPri = p})
    <3>1. PICK V : V = {u \in Queued : job[u].currPri = p} OBVIOUS
    <3>2. queue[p] \in Seq(Jobs) /\ Lists(queue[p], V) BY <1>7, <3>1
    <3>3. {u \in Queued' : job'[u].currPri = p} = V \ {j}
      <4>1. \A u \in Queued : u \in Jobs BY DEF Queued
      <4> QED BY <1>20, <2>12, <3>1, <4>1
    <3>4. CASE p = q
      <4>1. queue'[p] = tl /\ V = W BY <1>4, <1>6, <1>16, <1>23, <2>1, <3>1, <3>4
      <4> QED BY <1>6, <3>3, <4>1
    <3>5. CASE p # q
      <4>1. queue'[p] = queue[p] /\ V \ {j} = V BY <1>4, <1>6, <1>16, <1>23, <2>1, <3>1, <3>5
      <4> QED BY <3>2, <3>3, <4>1
    <3> QED BY <3>4, <3>5
  <2>17. InQueues' BY <2>16 DEF InQueues
  <2>18. queue' \in [Queues -> Seq(Jobs)]
    <3>1. DOMAIN queue' = Queues /\ queue' = [p \in Queues |-> queue'[p]] BY <1>16, <1>23, <2>1
    <3> QED BY <2>16, <3>1
  <2>19. MlfqTypeOK' BY <1>6, <1>19, <1>21, <1>24, <2>8, <2>9, <2>18 DEF JobsInv, MlfqTypeOK
  <2> QED BY <1>27, <1>28, <2>15, <2>17, <2>19 DEF JobsInv
<1> QED BY <1>25, <1>26

\* A queue is never longer than the list of jobs.
LEMMA QueueShort ==
  ASSUME JobsInv, NEW q \in Queues
  PROVE  Len(queue[q]) <= Len(job) /\ DOMAIN queue[q] = 1 .. Len(queue[q]) /\ Len(queue[q]) \in Nat
<1>1. PICK s : s = queue[q] OBVIOUS
<1>2. s \in Seq(Jobs) /\ \A u, k \in DOMAIN s : s[u] = s[k] => u = k
  BY <1>1, JobsKnown DEF Lists
<1>3. DOMAIN s = 1 .. Len(s) /\ Len(s) \in Nat /\ s \in [1 .. Len(s) -> Jobs] BY <1>2
<1>4. Jobs = 1 .. Len(job) /\ Len(job) \in Nat BY JobsKnown
<1>5. s \in Injection(1 .. Len(s), 1 .. Len(job)) BY <1>2, <1>3, <1>4 DEF Injection, IsInjective
<1>6. \A v \in Nat : IsFiniteSet(1 .. v) /\ Cardinality(1 .. v) = v BY FS_Interval
<1>7. Cardinality(1 .. Len(s)) <= Cardinality(1 .. Len(job))
  BY <1>3, <1>4, <1>5, <1>6, FS_Injection
<1> QED BY <1>1, <1>3, <1>4, <1>6, <1>7

\* JobsInv says what JobsInPlace counts.
LEMMA InPlace == JobsInv => JobsInPlace
<1> SUFFICES ASSUME JobsInv PROVE JobsInPlace
  OBVIOUS
<1>1. /\ Jobs = 1 .. Len(job) /\ Len(job) \in Nat
      /\ \A u \in Jobs : job[u] \in JobStates
      /\ \A p \in Queues : queue[p] \in Seq(Jobs) /\ Lists(queue[p], {u \in Queued : job[u].currPri = p})
  BY JobsKnown
<1>2. \A q \in Queues : \A k \in DOMAIN queue[q] :
        LET j == queue[q][k] IN job[j].currPri = q /\ ~ job[j].doingIO
  BY <1>1 DEF Lists, JobsInv, Coming, Queued
<1>3. \A k \in DOMAIN ioDone : ioDone[k].time >= currTime \/ Late(ioDone[k])
  BY DEF JobsInv, Coming, ToCome
<1>4. aborted => Ready # {} /\ job[currJob].runTime < 1 BY DEF JobsInv, Excused
<1>5. ASSUME NEW j \in Jobs, NEW queued, queued = {w \in Queues \X Jobs : w[2] <= Len(queue[w[1]]) /\ queue[w[1]][w[2]] = j},
             NEW awaited, awaited = {k \in DOMAIN ioDone : ioDone[k].job = j}
      PROVE  Cardinality(queued) + Cardinality(awaited) = IF Done(j) THEN 0 ELSE 1
  <2>1. /\ Cardinality({}) = 0
        /\ \A x : Cardinality({x}) = 1
    BY FS_EmptySet, FS_Singleton
  <2>2. \A w \in queued : /\ w[1] \in Queues /\ w[2] \in DOMAIN queue[w[1]] /\ queue[w[1]][w[2]] = j
                          /\ w = <<w[1], w[2]>> /\ j \in Queued /\ job[j].currPri = w[1]
    <3> SUFFICES ASSUME NEW w \in queued
                 PROVE  /\ w[1] \in Queues /\ w[2] \in DOMAIN queue[w[1]] /\ queue[w[1]][w[2]] = j
                        /\ w = <<w[1], w[2]>> /\ j \in Queued /\ job[j].currPri = w[1]
      OBVIOUS
    <3>1. w[1] \in Queues /\ w[2] \in Jobs /\ w[2] <= Len(queue[w[1]]) /\ queue[w[1]][w[2]] = j /\ w = <<w[1], w[2]>>
      BY <1>5
    <3>2. w[2] \in DOMAIN queue[w[1]] BY <1>1, <3>1, QueueShort
    <3> QED BY <1>1, <3>1, <3>2 DEF Lists
  <2>3. CASE j \in Awaited
    <3>1. queued = {} BY <2>2, <2>3 DEF Queued
    <3>2. PICK k \in DOMAIN ioDone : ioDone[k].job = j BY <2>3 DEF Awaited
    <3>3. awaited = {k} BY <1>5, <3>2 DEF JobsInv, Coming
    <3>4. ~ Done(j) BY <2>3 DEF JobsInv, Coming
    <3> QED BY <2>1, <3>1, <3>3, <3>4
  <2>4. CASE j \notin Awaited
    <3>1. awaited = {} BY <1>5, <2>4 DEF Awaited
    <3>2. CASE Done(j)
      <4>1. queued = {} BY <2>2, <3>2 DEF Queued
      <4> QED BY <2>1, <3>1, <3>2, <4>1
    <3>3. CASE ~ Done(j)
      <4>1. j \in Queued BY <2>4, <3>3 DEF Queued
      <4>2. PICK q \in Queues : job[j].currPri = q
        <5>1. job[j] \in JobStates BY <1>1
        <5> QED BY <5>1 DEF JobStates
      <4>3. PICK k \in DOMAIN queue[q] : queue[q][k] = j BY <1>1, <4>1, <4>2 DEF Lists
      <4>4. k \in Jobs /\ k <= Len(queue[q]) BY <1>1, <4>3, QueueShort
      <4>5. <<q, k>> \in queued BY <1>5, <4>3, <4>4
      <4>6. \A w \in queued : w = <<q, k>>
        <5> SUFFICES ASSUME NEW w \in queued PROVE w = <<q, k>>
          OBVIOUS
        <5>1. w[1] = q BY <2>2, <4>2
        <5>2. w[2] = k BY <1>1, <2>2, <4>3, <5>1 DEF Lists
        <5> QED BY <2>2, <5>1, <5>2
      <4>7. queued = {<<q, k>>} BY <4>5, <4>6
      <4>8. Cardinality(queued) = 1 /\ Cardinality(awaited) = 0 BY <2>1, <3>1, <4>7, Zenon
      <4> QED BY <3>3, <4>8
    <3> QED BY <3>2, <3>3
  <2> QED BY <2>3, <2>4
<1> QED BY <1>2, <1>3, <1>4, <1>5 DEF JobsInPlace, Done

\* JobsInv is inductive.
LEMMA JobsHold == MlfqSpec => []JobsInv
<1>1. JobsInv /\ [MlfqNext]_sim => JobsInv'
  <2> SUFFICES ASSUME JobsInv, [MlfqNext]_sim PROVE JobsInv'
    OBVIOUS
  <2>1. CASE MlfqNext
    BY <2>1, BoostKeeps, WakeKeeps, IdleKeeps, AbortKeeps, RunLastKeeps, RunOnKeeps DEF MlfqNext
  <2>2. CASE UNCHANGED sim
    <3>1. /\ options' = options /\ job' = job /\ ioDone' = ioDone /\ queue' = queue
          /\ currTime' = currTime /\ aborted' = aborted /\ stage' = stage
      BY <2>2 DEF sim
    <3>2. Jobs' = Jobs /\ Awaited' = Awaited /\ Events' = Events
      BY <3>1 DEF Jobs, Awaited, Events
    <3>3. Queued' = Queued BY <3>1, <3>2 DEF Queued, Done
    <3>4. InQueues'
      <4>1. \A q : {j \in Queued' : job'[j].currPri = q} = {j \in Queued : job[j].currPri = q}
        BY <3>1, <3>3
      <4> QED BY <3>1, <4>1 DEF JobsInv, InQueues
    <3>5. MlfqTypeOK' /\ Coming'
      BY <3>1, <3>2 DEF JobsInv, MlfqTypeOK, Coming, Done, Late, ToCome
    <3>6. Runnable' /\ Excused'
      BY <3>1, <3>2 DEF JobsInv, Runnable, Excused, Ready, currJob, currQueue
    <3> QED BY <3>4, <3>5, <3>6 DEF JobsInv
  <2> QED BY <2>1, <2>2
<1> QED BY <1>1, MlfqInitHolds, PTL DEF MlfqSpec

\* Every job of mlfq.py is in one place, whatever the list of jobs, the quanta, the allotments,
\* the boost and the time of an I/O, be they zero or negative; and the only Abort() that is
\* reached is that of a job with nothing to run.
THEOREM JobsAlways == MlfqSpec => []JobsInPlace
BY JobsHold, InPlace, PTL
=============================================================================
