-------------------------------- MODULE Mlfq --------------------------------
(***************************************************************************)
(* The simulator of MLFQ part B (mlfq.py): jobs that compute and do I/O in *)
(* numQueues queues with a quantum and an allotment for each, and a boost  *)
(* of all jobs to the highest queue every `boost' ticks.  An action is one *)
(* part of its loop.                                                       *)
(***************************************************************************)
EXTENDS Integers, Sequences, FiniteSets, SequencesExt, Arrangements

CONSTANTS MaxJobs, StartTimes, RunTimes, IoFreqs,  \* the lists of jobs -l may give
          numQueues, quantum, allotment,           \* functions on the queues
          Boosts, IoTimes                          \* the values of -B and -i

Queues == 0 .. numQueues - 1
hiQueue == numQueues - 1

\* Any numbers are accepted: a job with nothing to run, no allotment, times below 0.
ASSUME MlfqAssumption ==
  /\ MaxJobs \in Nat /\ numQueues \in Nat \ {0}
  /\ UNION {StartTimes, RunTimes, IoFreqs, Boosts, IoTimes} \subseteq Int
  /\ quantum \in [Queues -> Int] /\ allotment \in [Queues -> Int]

VARIABLES
  options,  \* boost, ioTime, stay (-S) and iobump (-I)
  job,      \* what the list says of each job, and its state
  ioDone,   \* what is to come: the jobs that begin and the I/O that ends, and when
  queue,
  currTime, finishedJobs, aborted,
  stage     \* the part of the loop that comes next

sim == <<options, job, ioDone, queue, currTime, finishedJobs, aborted, stage>>

Jobs == DOMAIN job

MlfqInit ==
  /\ options \in [boost : Boosts, ioTime : IoTimes, stay : BOOLEAN, iobump : BOOLEAN]
  /\ \E n \in 0 .. MaxJobs :
       \E list \in [1 .. n -> StartTimes \X RunTimes \X IoFreqs] :
         /\ job = [j \in 1 .. n |->
              [runTime |-> list[j][2], ioFreq |-> list[j][3], timeLeft |-> list[j][2],
               currPri |-> hiQueue, ticksLeft |-> quantum[hiQueue],
               allotLeft |-> allotment[hiQueue], doingIO |-> FALSE]]
         /\ ioDone = [j \in 1 .. n |-> [time |-> list[j][1], job |-> j, type |-> "JOB BEGINS"]]
  /\ queue = [q \in Queues |-> <<>>]
  /\ currTime = 0 /\ finishedJobs = 0 /\ aborted = FALSE /\ stage = "boost"

\* The loop goes on.
Loop(s) == stage = s /\ finishedJobs < Len(job) /\ ~ aborted

-----------------------------------------------------------------------------
\* The places of the lower queues where a job waits, the lowest queue first.
Lower ==
  LET S == {w \in (Queues \ {hiQueue}) \X Jobs :
              w[2] <= Len(queue[w[1]]) /\ ~ job[queue[w[1]][w[2]]].doingIO}
      before == {w \in S \X S : \/ w[1][1] < w[2][1]
                                 \/ (w[1][1] = w[2][1] /\ w[1][2] < w[2][2])}
  IN  Arranged(S, before)

\* Mutant: a boost moves the jobs and not their priority.
BoostQueuesOnly ==
  /\ Loop("boost") /\ stage' = "wake"
  /\ IF options.boost > 0 /\ currTime # 0 /\ currTime % options.boost = 0
     THEN LET ready == [k \in DOMAIN Lower |-> queue[Lower[k][1]][Lower[k][2]]]
          IN  /\ queue' = [q \in Queues |-> IF q = hiQueue THEN queue[q] \o ready ELSE <<>>]
              /\ job' = [j \in Jobs |-> [job[j] EXCEPT !.ticksLeft = allotment[hiQueue]]]
     ELSE UNCHANGED <<queue, job>>
  /\ UNCHANGED <<options, ioDone, currTime, finishedJobs, aborted>>

\* The boost: the lower queues, the lowest first, join the highest.  What a job may
\* run there is set to the allotment, a number of quanta and not of ticks.
Boost ==
  /\ Loop("boost") /\ stage' = "wake"
  /\ IF options.boost > 0 /\ currTime # 0 /\ currTime % options.boost = 0
     THEN LET ready == [k \in DOMAIN Lower |-> queue[Lower[k][1]][Lower[k][2]]]
          IN  /\ queue' = [q \in Queues |-> IF q = hiQueue THEN queue[q] \o ready ELSE <<>>]
              /\ job' = [j \in Jobs |->
                   IF job[j].timeLeft > 0
                   THEN [job[j] EXCEPT !.currPri = hiQueue, !.ticksLeft = allotment[hiQueue]]
                   ELSE job[j]]
     ELSE UNCHANGED <<queue, job>>
  /\ UNCHANGED <<options, ioDone, currTime, finishedJobs, aborted>>

\* The jobs of the events K that go to queue q.
To(q, K) ==
  LET s == Kept(ioDone, {k \in K : job[ioDone[k].job].currPri = q})
  IN  [k \in DOMAIN s |-> s[k].job]

\* Jobs begin and I/O ends: at the back of the queue, or with -I at its front.
Wake ==
  /\ Loop("wake") /\ stage' = "run"
  /\ LET due == {k \in DOMAIN ioDone : ioDone[k].time = currTime}
         front == {k \in due : options.iobump /\ ioDone[k].type = "IO_DONE"}
     IN  /\ queue' = [q \in Queues |-> Reverse(To(q, front)) \o queue[q] \o To(q, due \ front)]
         /\ job' = [j \in Jobs |-> IF \E k \in due : ioDone[k].job = j
                                   THEN [job[j] EXCEPT !.doingIO = FALSE] ELSE job[j]]
         /\ ioDone' = Kept(ioDone, DOMAIN ioDone \ due)
  /\ UNCHANGED <<options, currTime, finishedJobs, aborted>>

-----------------------------------------------------------------------------
Ready == {q \in Queues : queue[q] # <<>>}

\* FindQueue()
currQueue == CHOOSE q \in Ready : \A r \in Ready : r <= q
currJob == Head(queue[currQueue])

\* Mutant: without a job to run no time passes.
IdleForever ==
  /\ Loop("run") /\ Ready = {}
  /\ currTime' = currTime /\ stage' = "boost"
  /\ UNCHANGED <<options, job, ioDone, queue, finishedJobs, aborted>>

Idle ==
  /\ Loop("run") /\ Ready = {}
  /\ currTime' = currTime + 1 /\ stage' = "boost"
  /\ UNCHANGED <<options, job, ioDone, queue, finishedJobs, aborted>>

\* Abort() ends the program: the job is not of the queue it was found in, or had
\* nothing left to run.
Abort ==
  /\ Loop("run") /\ Ready # {}
  /\ LET placed == job[currJob].currPri = currQueue IN
       /\ placed => job[currJob].timeLeft < 1
       /\ job' = IF placed
                 THEN [job EXCEPT ![currJob].timeLeft = @ - 1, ![currJob].ticksLeft = @ - 1]
                 ELSE job
  /\ aborted' = TRUE
  /\ UNCHANGED <<options, ioDone, queue, currTime, finishedJobs, stage>>

\* The job runs a tick; what both endings of it have in common.
Tick ==
  /\ Loop("run") /\ Ready # {} /\ job[currJob].currPri = currQueue
  /\ currTime' = currTime + 1 /\ stage' = "boost"
  /\ UNCHANGED <<options, aborted>>

RunLast ==
  /\ Tick /\ job[currJob].timeLeft = 1
  /\ job' = [job EXCEPT ![currJob].timeLeft = 0, ![currJob].ticksLeft = @ - 1]
  /\ finishedJobs' = finishedJobs + 1
  /\ queue' = [queue EXCEPT ![currQueue] = Tail(@)]
  /\ UNCHANGED ioDone

\* The state of a job whose quantum at queue q is over: with its allotment there
\* used up it moves down a queue.
QuantumOver(state, q) ==
  LET down == IF q > 0 THEN q - 1 ELSE 0
  IN  IF state.allotLeft = 1
      THEN [state EXCEPT !.currPri = down, !.ticksLeft = quantum[down],
                         !.allotLeft = allotment[down]]
      ELSE [state EXCEPT !.ticksLeft = quantum[q], !.allotLeft = @ - 1]

\* When an I/O that starts after this tick ends.
IoEnds == currTime + 1 + options.ioTime

\* A tick after which the job has more to do: it starts an I/O, its quantum is
\* over, both, or neither.
RunOn ==
  /\ Tick /\ job[currJob].timeLeft > 1
  /\ LET j == currJob
         q == currQueue
         ran == [job[j] EXCEPT !.timeLeft = @ - 1, !.ticksLeft = @ - 1]
         io == ran.ioFreq > 0 /\ (ran.runTime - ran.timeLeft) % ran.ioFreq = 0
         asked == IF ~ io THEN ran
                  ELSE IF options.stay
                  THEN [ran EXCEPT !.doingIO = TRUE, !.ticksLeft = quantum[q],
                                   !.allotLeft = allotment[q]]
                  ELSE [ran EXCEPT !.doingIO = TRUE]
         over == ran.ticksLeft = 0
         after == IF over THEN QuantumOver(asked, q) ELSE asked
         rest == [queue EXCEPT ![q] = Tail(@)]
     IN  /\ job' = [job EXCEPT ![j] = after]
         /\ queue' = IF io THEN rest
                     ELSE IF over THEN [rest EXCEPT ![after.currPri] = Append(@, j)] ELSE queue
         /\ ioDone' = IF io THEN Append(ioDone, [time |-> IoEnds, job |-> j, type |-> "IO_DONE"])
                      ELSE ioDone
  /\ UNCHANGED finishedJobs

MlfqNext == Boost \/ Wake \/ Idle \/ Abort \/ RunLast \/ RunOn

MlfqSpec == MlfqInit /\ [][MlfqNext]_sim

-----------------------------------------------------------------------------
(***************************************************************************)
(* Properties                                                              *)
(***************************************************************************)
\* The events that the list of jobs or -i put before their time.
Late(e) == IF e.type = "JOB BEGINS" THEN e.time < 0 ELSE options.ioTime < 0

\* A boost, the end of an I/O and the end of a quantum may fall on one tick: every
\* job that is not finished is in one place all the same, in the queue of its
\* priority or among what is to come, and not in the past.  So no assert of mlfq.py
\* fails and only one Abort() is reached, that of a job which had nothing to run from
\* the start.
JobsInPlace ==
  /\ aborted => Ready # {} /\ job[currJob].runTime < 1
  /\ \A q \in Queues : \A k \in DOMAIN queue[q] :
       LET j == queue[q][k] IN job[j].currPri = q /\ ~ job[j].doingIO
  /\ \A k \in DOMAIN ioDone : ioDone[k].time >= currTime \/ Late(ioDone[k])
  /\ \A j \in Jobs :
       LET queued == {w \in Queues \X Jobs : w[2] <= Len(queue[w[1]]) /\ queue[w[1]][w[2]] = j}
           awaited == {k \in DOMAIN ioDone : ioDone[k].job = j}
           done == job[j].runTime > 0 /\ job[j].timeLeft = 0
       IN  Cardinality(queued) + Cardinality(awaited) = IF done THEN 0 ELSE 1
=============================================================================
