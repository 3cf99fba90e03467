------------------------------ MODULE BlockStore ------------------------------
(***************************************************************************)
(* What the buffer cache of xv6 promises its callers: a block belongs to   *)
(* one process at a time, who finds in it what was last written there, and *)
(* lets go of it only when the disk has what the process has written.      *)
(***************************************************************************)
CONSTANTS Procs, Blocks, Values, NoBlock

VARIABLES
  store,   \* the contents of the blocks
  saved,   \* what the disk has of them
  open     \* the block a process has

vars == <<store, saved, open>>

Init ==
  /\ store = [b \in Blocks |-> b] /\ saved = store
  /\ open = [p \in Procs |-> NoBlock]

Open(p, b) ==
  /\ open[p] = NoBlock /\ \A q \in Procs : open[q] # b
  /\ open' = [open EXCEPT ![p] = b]
  /\ UNCHANGED <<store, saved>>

Write(p, v) ==
  /\ open[p] # NoBlock
  /\ store' = [store EXCEPT ![open[p]] = v]
  /\ UNCHANGED <<saved, open>>

Save(b) ==
  /\ saved' = [saved EXCEPT ![b] = store[b]]
  /\ UNCHANGED <<store, open>>

Close(p) ==
  /\ open[p] # NoBlock /\ saved[open[p]] = store[open[p]]
  /\ open' = [open EXCEPT ![p] = NoBlock]
  /\ UNCHANGED <<store, saved>>

Next ==
  \/ \E p \in Procs, b \in Blocks : Open(p, b)
  \/ \E p \in Procs, v \in Values : Write(p, v)
  \/ \E b \in Blocks : Save(b)
  \/ \E p \in Procs : Close(p)

Spec == Init /\ [][Next]_vars
=============================================================================
