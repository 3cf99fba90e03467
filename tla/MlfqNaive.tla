------------------------------ MODULE MlfqNaive ------------------------------
(***************************************************************************)
(* The scheduler of MLFQ part A (mlfq_naive.cpp): four queues, of which    *)
(* level 4 is round robin, levels 3 and 2 run the shortest job and level 1 *)
(* the first; who waits Threshold ticks moves up a level.  Below level 4 a *)
(* process keeps the CPU until it ends.                                    *)
(*                                                                         *)
(* The queues hold copies of the entries of processList, each with the     *)
(* remaining time it had when it was made.  An action is one part of the   *)
(* loop of main(), which takes one tick.                                   *)
(***************************************************************************)
EXTENDS Integers, Sequences, FiniteSets, SequencesExt, Arrangements

CONSTANTS Ids,                \* the IDs in the input file, each on one line
          Arrivals, Bursts,   \* the times the file may give
          Quantum, Threshold  \* the first two inputs

ASSUME NaiveAssumption ==
  /\ Ids \subseteq Nat /\ IsFiniteSet(Ids) /\ Arrivals \subseteq Nat
  /\ Bursts \subseteq Nat \ {0} /\ \E max \in Bursts \cup {0} : \A b \in Bursts : b <= max
  /\ Quantum \in Nat \ {0} /\ Threshold \in Nat \ {0}

Levels == 1 .. 4
NotRunning == -1

VARIABLES
  processList,        \* the IDs in order of arrival
  arrivalTime, currLevel, remainingTime, timeSinceLastRun, runningSince,
  scheduled, finished,
  Q,                  \* Q1 .. Q4
  t, part             \* the clock, and the part of the loop that comes next

naive == <<processList, arrivalTime, currLevel, remainingTime, timeSinceLastRun, runningSince,
           scheduled, finished, Q, t, part>>

Processes == ToSet(processList)

\* The lines of the file sorted by arrival; sort() may put equals in any order.
NaiveInit ==
  /\ \E S \in SUBSET Ids : processList \in SetToSeqs(S)
  /\ arrivalTime \in [Processes -> Arrivals]
  /\ \A k \in 2 .. Len(processList) : arrivalTime[processList[k - 1]] <= arrivalTime[processList[k]]
  /\ currLevel \in [Processes -> Levels]
  /\ remainingTime \in [Processes -> Bursts]
  /\ timeSinceLastRun = [p \in Processes |-> 0]
  /\ runningSince = [p \in Processes |-> NotRunning]
  /\ scheduled = {} /\ finished = {}
  /\ Q = [l \in Levels |-> <<>>]
  /\ t = 0 /\ part = "insert"

Running == {p \in Processes : runningSince[p] # NotRunning}

\* A copy for a queue: its process was just put in.
Copy(p, time) == [id |-> p, remaining |-> time, justin |-> TRUE]

\* The queue of level l without the copies of the processes ps.
Without(l, ps) == Kept(Q[l], {k \in DOMAIN Q[l] : Q[l][k].id \notin ps})

\* Copies of the processes ps, in the order of the list.
CopiesOf(ps) ==
  LET list == Kept(processList, {k \in DOMAIN processList : processList[k] \in ps})
  IN  [k \in DOMAIN list |-> Copy(list[k], remainingTime[list[k]])]

-----------------------------------------------------------------------------
\* Those who arrive now join the queue of their level.
Insert ==
  /\ part = "insert" /\ finished # Processes
  /\ LET arrive == {p \in Processes \ scheduled : arrivalTime[p] = t} IN
       /\ Q' = [l \in Levels |-> Q[l] \o CopiesOf({p \in arrive : currLevel[p] = l})]
       /\ scheduled' = scheduled \cup arrive
  /\ part' = "start"
  /\ UNCHANGED <<processList, arrivalTime, currLevel, remainingTime, timeSinceLastRun,
                 runningSince, finished, t>>

\* The shortest job of a queue by the copies, the first of equals.
Shortest(q) ==
  LET k == CHOOSE k \in DOMAIN q :
             /\ \A m \in DOMAIN q : q[k].remaining <= q[m].remaining
             /\ \A m \in 1 .. k - 1 : q[k].remaining < q[m].remaining
  IN  q[k].id

\* Mutant: the second of the queue runs even if the first is not new.
NextOfSecond(q) == q[IF Len(q) > 1 THEN 2 ELSE 1].id

\* At level 4 the second runs when the first of two has only arrived.
NextOf(q) == q[IF Len(q) > 1 /\ q[1].justin THEN 2 ELSE 1].id

\* startNextProcess(), if nobody has the CPU.
Start ==
  /\ part = "start"
  /\ LET nonempty == {l \in Levels : Q[l] # <<>>}
         top == CHOOSE l \in nonempty : \A m \in nonempty : m <= l
         next == IF top = 4 THEN NextOf(Q[4]) ELSE IF top = 1 THEN Q[1][1].id ELSE Shortest(Q[top])
     IN  runningSince' = IF Running = {} /\ nonempty # {}
                         THEN [runningSince EXCEPT ![next] = t] ELSE runningSince
  /\ t' = t + 1 /\ part' = "run"
  /\ UNCHANGED <<processList, arrivalTime, currLevel, remainingTime, timeSinceLastRun,
                 scheduled, finished, Q>>

-----------------------------------------------------------------------------
\* Mutant: at the end of its quantum a process is put back as it was on arrival.
ExpireStale(p) ==
  /\ remainingTime[p] > 1 /\ currLevel[p] = 4 /\ t - runningSince[p] >= Quantum
  /\ runningSince' = [runningSince EXCEPT ![p] = NotRunning]
  /\ Q' = [Q EXCEPT ![4] = Append(Without(4, {p}), Copy(p, remainingTime[p]))]
  /\ UNCHANGED finished

\* The running process ends.
Finish(p) ==
  /\ remainingTime[p] = 1
  /\ runningSince' = [runningSince EXCEPT ![p] = NotRunning]
  /\ finished' = finished \cup {p}
  /\ Q' = [Q EXCEPT ![currLevel[p]] = Without(currLevel[p], {p})]

\* Its quantum at level 4 ends: it goes to the back.
Expire(p) ==
  /\ remainingTime[p] > 1 /\ currLevel[p] = 4 /\ t - runningSince[p] >= Quantum
  /\ runningSince' = [runningSince EXCEPT ![p] = NotRunning]
  /\ Q' = [Q EXCEPT ![4] = Append(Without(4, {p}), Copy(p, remainingTime[p] - 1))]
  /\ UNCHANGED finished

\* It keeps the CPU.
GoOn(p) ==
  /\ remainingTime[p] > 1 /\ (currLevel[p] = 4 => t - runningSince[p] < Quantum)
  /\ UNCHANGED <<runningSince, finished, Q>>

Run ==
  /\ part = "run"
  /\ \/ Running = {} /\ UNCHANGED <<remainingTime, runningSince, finished, Q>>
     \/ \E p \in Running :
          /\ remainingTime' = [remainingTime EXCEPT ![p] = @ - 1]
          /\ Finish(p) \/ Expire(p) \/ GoOn(p)
  /\ part' = "age"
  /\ UNCHANGED <<processList, arrivalTime, currLevel, timeSinceLastRun, scheduled, t>>

\* Who has waited long enough moves to the back of the next level.
Age ==
  /\ part = "age"
  /\ LET wait == scheduled \ (finished \cup Running)
         up == {p \in wait : currLevel[p] < 4 /\ timeSinceLastRun[p] + 1 >= Threshold}
     IN  /\ timeSinceLastRun' = [p \in Processes |->
              IF p \in up \cup Running THEN 0
              ELSE timeSinceLastRun[p] + (IF p \in wait THEN 1 ELSE 0)]
         /\ currLevel' = [p \in Processes |-> IF p \in up THEN currLevel[p] + 1 ELSE currLevel[p]]
         /\ Q' = [l \in Levels |-> Without(l, up)
                                     \o CopiesOf({p \in up : currLevel[p] + 1 = l})]
  /\ part' = "order"
  /\ UNCHANGED <<processList, arrivalTime, remainingTime, runningSince, scheduled, finished, t>>

\* The new copies of level 4 by ID.
ByID ==
  LET new == {k \in DOMAIN Q[4] : Q[4][k].justin}
      byID == Arranged(new, {w \in new \X new : Q[4][w[1]].id < Q[4][w[2]].id})
  IN  [k \in DOMAIN byID |-> Q[4][byID[k]]]

Settled(q) == [k \in DOMAIN q |-> [q[k] EXCEPT !.justin = FALSE]]

\* checkOrdering(): the new of level 4 by ID at its back; then none is new.
Order ==
  /\ part = "order"
  /\ LET level4 == Kept(Q[4], {k \in DOMAIN Q[4] : ~ Q[4][k].justin}) \o ByID
     IN  Q' = [l \in Levels |-> Settled(IF l = 4 THEN level4 ELSE Q[l])]
  /\ part' = "insert"
  /\ UNCHANGED <<processList, arrivalTime, currLevel, remainingTime, timeSinceLastRun,
                 runningSince, scheduled, finished, t>>

NaiveNext == Insert \/ Start \/ Run \/ Age \/ Order

NaiveSpec == NaiveInit /\ [][NaiveNext]_naive

-----------------------------------------------------------------------------
(***************************************************************************)
(* Properties                                                              *)
(***************************************************************************)
\* The queues agree with processList: who has arrived and not finished is in the
\* queue of its level, once, nobody else is in any, and the remaining time by which
\* startNextProcess() chooses is that of the table.  At most one process runs.
QueuesTrue ==
  /\ Cardinality(Running) <= 1 /\ Running \subseteq scheduled \ finished
  /\ \A p \in Processes :
       LET places == {w \in Levels \X (1 .. Len(processList)) :
                        w[2] <= Len(Q[w[1]]) /\ Q[w[1]][w[2]].id = p}
       IN  /\ Cardinality(places) = IF p \in scheduled \ finished THEN 1 ELSE 0
           /\ \A w \in places :
                /\ w[1] = currLevel[p]
                /\ p \notin Running => Q[w[1]][w[2]].remaining = remainingTime[p]
  /\ \A l \in Levels : Len(Q[l]) <= Len(processList)

\* Nobody starves: at level 4 a process waits at most for one that keeps the CPU to
\* its end and for a quantum of each of the rest, however they arrive and move up.
\* With a quantum of one tick timeSinceLastRun does not tell: a process that has run
\* its tick is counted with those who wait.
Longest == CHOOSE b \in Bursts : \A c \in Bursts : c <= b
WaitBounded ==
  Len(processList) > 1 /\ Quantum > 1 =>
    \A p \in scheduled \ finished :
      currLevel[p] = 4 => timeSinceLastRun[p] <= Longest + (Len(processList) - 2) * Quantum
=============================================================================
