------------------------------ MODULE AtomicDisk ------------------------------
(***************************************************************************)
(* What the logging layer of xv6 promises to the file system above it, as  *)
(* the comment at the top of log.c puts it: system calls that overlap form *)
(* one transaction, and a crash leaves the disk as some transaction left   *)
(* it, never with a part of one.                                           *)
(***************************************************************************)
CONSTANTS Procs, Blocks, Values, Blank

VARIABLES
  durable,   \* the blocks as a reboot would find them
  current,   \* the blocks as the running system sees them
  active     \* the processes inside a file system operation

vars == <<durable, current, active>>

Init ==
  /\ durable = [b \in Blocks |-> Blank] /\ current = durable
  /\ active = {}

\* An operation joins the running transaction, or starts one when everything
\* that ended before is durable.
Begin(p) ==
  /\ p \in Procs \ active
  /\ active # {} \/ durable = current
  /\ active' = active \cup {p}
  /\ UNCHANGED <<durable, current>>

Write(p, b, v) ==
  /\ p \in active
  /\ current' = [current EXCEPT ![b] = v]
  /\ UNCHANGED <<durable, active>>

End(p) ==
  /\ p \in active
  /\ active' = active \ {p}
  /\ UNCHANGED <<durable, current>>

\* The transaction takes effect on the disk as a whole.
Commit ==
  /\ active = {}
  /\ durable' = current
  /\ UNCHANGED <<current, active>>

Crash ==
  /\ current' = durable /\ active' = {}
  /\ UNCHANGED durable

Next ==
  \/ \E p \in Procs : Begin(p) \/ End(p) \/ \E b \in Blocks, v \in Values : Write(p, b, v)
  \/ Commit \/ Crash

Spec == Init /\ [][Next]_vars
=============================================================================
