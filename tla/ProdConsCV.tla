----------------------------- MODULE ProdConsCV -----------------------------
(***************************************************************************)
(* The producer/consumer program of Thread Scheduling/submission/part1/    *)
(* code3.c: a circular buffer guarded by one mutex, producers that give up *)
(* for good when they find the buffer full, and consumers that wait on the *)
(* condition variable not_empty.                                           *)
(*                                                                         *)
(* Every pthread call, every test of the shared variables and every put()  *)
(* and get() is an action of its own, so that the exclusion between them   *)
(* is what the mutex gives and nothing the model assumes.                  *)
(***************************************************************************)
EXTENDS Integers, Sequences, FiniteSets

CONSTANTS Producers,        \* the producer threads, num_producers of them
          Consumers,        \* the consumer threads, num_consumers of them
          Main,             \* the main thread
          Free,             \* the mutex has no owner
          NoItem,           \* a malloc()ed cell nobody has written
          BufferSize,       \* buffer_size
          ProductionLimit,  \* production_limit: items one producer makes
          Shortfall         \* by how much a double misses a whole number

\* With no consumer set_consumption_limit() would divide by zero.
ASSUME ThreadsAssumption ==
  /\ IsFiniteSet(Producers) /\ IsFiniteSet(Consumers)
  /\ Consumers # {}
  /\ Producers \cap Consumers = {}
  /\ Main \notin Producers \cup Consumers
  /\ Free \notin Producers \cup Consumers \cup {Main}

\* main() refuses a buffer smaller than the production limit.
ASSUME SizeAssumption ==
  /\ BufferSize \in Nat \ {0}
  /\ ProductionLimit \in Nat
  /\ ProductionLimit <= BufferSize

\* 0.7 is a double a little below 7/10.
ASSUME DoubleAssumption == Shortfall \in {0, 1}

\* consumption_limit: 0.7 * N * P / C, computed with doubles and truncated to an int.
\* When the quotient is a whole number, the doubles may end just below it, as they do
\* for 0.7 * 3 * 10: then the limit is one less.
ConsumptionLimit ==
  LET product == 7 * ProductionLimit * Cardinality(Producers)
      divisor == 10 * Cardinality(Consumers)
      whole   == product > 0 /\ product % divisor = 0
  IN  product \div divisor - (IF whole THEN Shortfall ELSE 0)

\* An item stands for the random value of iteration k of producer p.
Items   == Producers \X (1..ProductionLimit)
Threads == Producers \cup Consumers
Slots   == 0..(BufferSize - 1)

VARIABLES
  line,           \* where each thread, and main, is
  iter,           \* the loop variable i of each thread
  mutex,          \* the owner of the mutex, or Free
  notEmpty,       \* the threads blocked on not_empty
  buffer, in_idx, out_idx, counter,
  no_more_items,
  produced,       \* the "Added Number" lines on stdout, in order
  consumed        \* the "Read Number" lines on stdout, in order

ring   == <<buffer, in_idx, out_idx, counter>>
stdout == <<produced, consumed>>
cvVars == <<line, iter, mutex, notEmpty, ring, no_more_items, stdout>>

CVInit ==
  /\ line = [t \in Threads \cup {Main} |-> IF t = Main THEN "create" ELSE "new"]
  /\ iter = [t \in Threads |-> 1]
  /\ mutex = Free /\ notEmpty = {}
  /\ buffer = [s \in Slots |-> NoItem]
  /\ in_idx = 0 /\ out_idx = 0 /\ counter = 0
  /\ no_more_items = FALSE
  /\ produced = <<>> /\ consumed = <<>>

(***************************************************************************)
(* The pthread calls and the two buffer operations.                        *)
(***************************************************************************)
MoveTo(t, label) == line' = [line EXCEPT ![t] = label]

LockMutex(t) == mutex = Free /\ mutex' = t
UnlockMutex(t) == mutex = t /\ mutex' = Free

\* pthread_cond_signal wakes one blocked thread, if there is one; it still
\* has to get the mutex back before pthread_cond_wait returns.
Signal(t, next) ==
  \/ /\ notEmpty = {}
     /\ MoveTo(t, next) /\ UNCHANGED notEmpty
  \/ \E w \in notEmpty :
       /\ notEmpty' = notEmpty \ {w}
       /\ line' = [line EXCEPT ![t] = next, ![w] = "relock"]

\* increment(): step an index round the ring.
Increment(x) == (x + 1) % BufferSize

\* Mutant: the index moves before the store, as in buffer[++in_idx] = item.
PutAfterIncrement(item) ==
  /\ buffer' = [buffer EXCEPT ![Increment(in_idx)] = item]
  /\ in_idx' = Increment(in_idx)
  /\ counter' = counter + 1
  /\ produced' = Append(produced, item)
  /\ UNCHANGED <<out_idx, consumed>>

Put(item) ==
  /\ buffer' = [buffer EXCEPT ![in_idx] = item]
  /\ in_idx' = Increment(in_idx)
  /\ counter' = counter + 1
  /\ produced' = Append(produced, item)
  /\ UNCHANGED <<out_idx, consumed>>

Get ==
  /\ consumed' = Append(consumed, buffer[out_idx])
  /\ out_idx' = Increment(out_idx)
  /\ counter' = counter - 1
  /\ UNCHANGED <<buffer, in_idx, produced>>

(***************************************************************************)
(* producer()                                                              *)
(***************************************************************************)
ProducerLock(p) ==
  /\ line[p] = "loop" /\ iter[p] <= ProductionLimit
  /\ LockMutex(p) /\ MoveTo(p, "check")
  /\ UNCHANGED <<iter, notEmpty, ring, no_more_items, stdout>>

\* The buffer is full: unlock and pthread_exit.
ProducerGiveUp(p) ==
  /\ line[p] = "check" /\ counter = BufferSize
  /\ UnlockMutex(p) /\ MoveTo(p, "exited")
  /\ UNCHANGED <<iter, notEmpty, ring, no_more_items, stdout>>

ProducerFindsRoom(p) ==
  /\ line[p] = "check" /\ counter # BufferSize
  /\ MoveTo(p, "put")
  /\ UNCHANGED <<iter, mutex, notEmpty, ring, no_more_items, stdout>>

ProducerPut(p) ==
  /\ line[p] = "put"
  /\ Put(<<p, iter[p]>>) /\ MoveTo(p, "signal")
  /\ UNCHANGED <<iter, mutex, notEmpty, no_more_items>>

\* Mutant: signal only when the ring was empty before the put().
ProducerSignalIfFirst(p) ==
  /\ line[p] = "signal"
  /\ IF counter = 1 THEN Signal(p, "unlock")
                    ELSE MoveTo(p, "unlock") /\ UNCHANGED notEmpty
  /\ UNCHANGED <<iter, mutex, ring, no_more_items, stdout>>

ProducerSignal(p) ==
  /\ line[p] = "signal"
  /\ Signal(p, "unlock")
  /\ UNCHANGED <<iter, mutex, ring, no_more_items, stdout>>

ThreadUnlock(t) ==
  /\ line[t] = "unlock"
  /\ UnlockMutex(t) /\ MoveTo(t, "loop")
  /\ iter' = [iter EXCEPT ![t] = @ + 1]
  /\ UNCHANGED <<notEmpty, ring, no_more_items, stdout>>

ProducerExit(p) ==
  /\ line[p] = "loop" /\ iter[p] > ProductionLimit
  /\ MoveTo(p, "exited")
  /\ UNCHANGED <<iter, mutex, notEmpty, ring, no_more_items, stdout>>

Producer(p) ==
  \/ ProducerLock(p) \/ ProducerGiveUp(p) \/ ProducerFindsRoom(p)
  \/ ProducerPut(p) \/ ProducerSignal(p) \/ ThreadUnlock(p) \/ ProducerExit(p)

(***************************************************************************)
(* consumer()                                                              *)
(***************************************************************************)
ConsumerLock(c) ==
  /\ line[c] = "loop" /\ iter[c] <= ConsumptionLimit
  /\ LockMutex(c) /\ MoveTo(c, "check")
  /\ UNCHANGED <<iter, notEmpty, ring, no_more_items, stdout>>

\* pthread_cond_wait: unlock and block, in one atomic step.
ConsumerWait(c) ==
  /\ line[c] = "check" /\ counter = 0 /\ ~no_more_items
  /\ UnlockMutex(c) /\ MoveTo(c, "blocked")
  /\ notEmpty' = notEmpty \cup {c}
  /\ UNCHANGED <<iter, ring, no_more_items, stdout>>

\* Mutant: the wait returns without the mutex.
ConsumerRelockWithoutMutex(c) ==
  /\ line[c] = "relock"
  /\ MoveTo(c, "check")
  /\ UNCHANGED <<iter, mutex, notEmpty, ring, no_more_items, stdout>>

\* pthread_cond_wait returns with the mutex, to the test of the while loop.
ConsumerRelock(c) ==
  /\ line[c] = "relock"
  /\ LockMutex(c) /\ MoveTo(c, "check")
  /\ UNCHANGED <<iter, notEmpty, ring, no_more_items, stdout>>

\* The while loop ends: there is an item, or there will be no more of them.
ConsumerLeavesWait(c) ==
  /\ line[c] = "check" /\ (counter # 0 \/ no_more_items)
  /\ MoveTo(c, "take")
  /\ UNCHANGED <<iter, mutex, notEmpty, ring, no_more_items, stdout>>

\* get(), then a signal on not_full, on which no thread ever waits.
ConsumerGet(c) ==
  /\ line[c] = "take" /\ counter > 0
  /\ Get /\ MoveTo(c, "unlock")
  /\ UNCHANGED <<iter, mutex, notEmpty, no_more_items>>

\* Nothing left and nothing to come: the iteration passes without an item.
ConsumerSkip(c) ==
  /\ line[c] = "take" /\ counter <= 0
  /\ MoveTo(c, "unlock")
  /\ UNCHANGED <<iter, mutex, notEmpty, ring, no_more_items, stdout>>

ConsumerExit(c) ==
  /\ line[c] = "loop" /\ iter[c] > ConsumptionLimit
  /\ MoveTo(c, "exited")
  /\ UNCHANGED <<iter, mutex, notEmpty, ring, no_more_items, stdout>>

Consumer(c) ==
  \/ ConsumerLock(c) \/ ConsumerWait(c) \/ ConsumerRelock(c)
  \/ ConsumerLeavesWait(c) \/ ConsumerGet(c) \/ ConsumerSkip(c) \/ ThreadUnlock(c) \/ ConsumerExit(c)

\* POSIX lets pthread_cond_wait return without a signal.
SpuriousWakeup(c) ==
  /\ c \in notEmpty
  /\ notEmpty' = notEmpty \ {c} /\ MoveTo(c, "relock")
  /\ UNCHANGED <<iter, mutex, ring, no_more_items, stdout>>

(***************************************************************************)
(* main(): create every producer, then every consumer; join the producers; *)
(* set no_more_items; join the consumers.                                  *)
(***************************************************************************)
Joined(S) == \A t \in S : line[t] = "exited"

MainCreate(t) ==
  /\ line[Main] = "create" /\ line[t] = "new"
  /\ t \in Consumers => \A p \in Producers : line[p] # "new"
  /\ MoveTo(t, "loop")
  /\ UNCHANGED <<iter, mutex, notEmpty, ring, no_more_items, stdout>>

MainJoinProducers ==
  /\ line[Main] = "create" /\ \A t \in Threads : line[t] # "new"
  /\ Joined(Producers)
  /\ MoveTo(Main, "setFlag")
  /\ UNCHANGED <<iter, mutex, notEmpty, ring, no_more_items, stdout>>

MainLock ==
  /\ line[Main] = "setFlag"
  /\ LockMutex(Main) /\ MoveTo(Main, "flagLocked")
  /\ UNCHANGED <<iter, notEmpty, ring, no_more_items, stdout>>

\* no_more_items = 1, then unlock: nobody is signalled.
MainSetFlag ==
  /\ line[Main] = "flagLocked"
  /\ no_more_items' = TRUE
  /\ UnlockMutex(Main) /\ MoveTo(Main, "joinConsumers")
  /\ UNCHANGED <<iter, notEmpty, ring, stdout>>

\* The last join, then "Program over...".
MainOver ==
  /\ line[Main] = "joinConsumers" /\ Joined(Consumers)
  /\ MoveTo(Main, "over")
  /\ UNCHANGED <<iter, mutex, notEmpty, ring, no_more_items, stdout>>

MainThread ==
  \/ \E t \in Threads : MainCreate(t)
  \/ MainJoinProducers \/ MainLock \/ MainSetFlag \/ MainOver

\* The process has ended; it is not a deadlock.
Ended == line[Main] = "over" /\ UNCHANGED cvVars

CVNext ==
  \/ \E p \in Producers : Producer(p)
  \/ \E c \in Consumers : Consumer(c) \/ SpuriousWakeup(c)
  \/ MainThread
  \/ Ended

CVSpec == CVInit /\ [][CVNext]_cvVars

(***************************************************************************)
(* The scheduler runs every thread that can run.  Every thread takes the   *)
(* mutex a bounded number of times as long as wakeups are not spurious, so *)
(* weak fairness is enough for the mutex too; spurious wakeups are allowed *)
(* but owe nobody anything, and in the end there are no more of them.      *)
(***************************************************************************)
Fairness ==
  /\ \A p \in Producers : WF_cvVars(Producer(p))
  /\ \A c \in Consumers : WF_cvVars(Consumer(c))
  /\ WF_cvVars(MainThread)

NoMoreSpurious == <>[][~ \E c \in Consumers : SpuriousWakeup(c)]_cvVars

CVFairSpec == CVSpec /\ Fairness /\ NoMoreSpurious

-----------------------------------------------------------------------------
(***************************************************************************)
(* Properties.                                                             *)
(***************************************************************************)
Labels == {"create", "new", "loop", "check", "put", "take", "signal", "unlock", "blocked",
           "relock", "setFlag", "flagLocked", "joinConsumers", "exited", "over"}

\* The type invariant: indices stay inside the ring, counter between empty
\* and full, and every line printed is of a real item.
CVTypeOK ==
  /\ line \in [Threads \cup {Main} -> Labels]
  /\ iter \in [Threads -> Nat \ {0}]
  /\ mutex \in Threads \cup {Main, Free}
  /\ notEmpty \subseteq Consumers
  /\ buffer \in [Slots -> Items \cup {NoItem}]
  /\ in_idx \in Slots /\ out_idx \in Slots /\ counter \in 0..BufferSize
  /\ no_more_items \in BOOLEAN
  /\ produced \in Seq(Items) /\ consumed \in Seq(Items)

\* Cell of the ring that holds the k-th oldest item (k = 0 is the next to go).
Cell(k) == IF out_idx + k < BufferSize THEN out_idx + k ELSE out_idx + k - BufferSize

\* The items in the ring, oldest first.
Queue == [k \in 1..counter |-> buffer[Cell(k - 1)]]

\* put() and get() never lose, repeat or reorder an item: what was printed as
\* added is what was printed as read followed by what the ring still holds,
\* in the same order, whatever the interleaving of producers and consumers.
FifoNoLoss == produced = consumed \o Queue

\* Threads at the code between pthread_mutex_lock and pthread_mutex_unlock.
InCriticalSection ==
  {t \in Threads \cup {Main} :
     line[t] \in {"check", "put", "take", "signal", "unlock", "flagLocked"}}

\* A condition wait gives the mutex back and takes it again: at every moment
\* the owner of the mutex is the one thread inside a critical section.
MutexOwnership ==
  InCriticalSection = IF mutex = Free THEN {} ELSE {mutex}

\* What the consumers are told to take between them.
Demand == ConsumptionLimit * Cardinality(Consumers)

\* Where the producers made as many items as the consumers are told to take,
\* every schedule gets the program to its end: no signal is lost on a consumer that
\* still has something to take.
EndsIfFed ==
  <>(Joined(Producers) /\ Len(produced) >= Demand) => <>(line[Main] = "over")

\* The program ends: main gets past both join loops and prints "Program over...".
\* README.md of part1 says main "waits for all threads to finish" and then
\* completes.
ProgramOver == <>(line[Main] = "over")
=============================================================================
