------------------------------- MODULE MCMlfq -------------------------------
(***************************************************************************)
(* Both schedulers on small instances.  They share nothing, and with no    *)
(* processes or no jobs a program has nothing to do: one run explores the  *)
(* first with the second idle and the second with the first idle.          *)
(***************************************************************************)
EXTENDS MlfqNaive, Mlfq

MCquantum == [q \in Queues |-> 2]
MCallotment == [q \in Queues |-> IF q = hiQueue THEN 1 ELSE 2]

EitherInit ==
  \/ processList = <<>> /\ NaiveInit /\ MlfqInit
  \/ /\ job = <<>> /\ MlfqInit /\ NaiveInit
     /\ options = [boost |-> 0, ioTime |-> 0, stay |-> FALSE, iobump |-> FALSE]

EitherNext ==
  \/ NaiveNext /\ UNCHANGED sim
  \/ MlfqNext /\ UNCHANGED naive

EitherSpec == EitherInit /\ [][EitherNext]_<<naive, sim>> /\ WF_<<naive, sim>>(EitherNext)

\* Both simulations come to their end: every process finishes, and every job or the
\* program aborts, with I/O that takes no time, boosts and arrivals after all others
\* are done.
SimulationsEnd == <>(finished = Processes) /\ <>(finishedJobs = Len(job) \/ aborted)
=============================================================================
