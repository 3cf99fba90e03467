------------------------------ MODULE ByteQueue ------------------------------
(***************************************************************************)
(* What a pipe of xv6 promises: a bounded queue of bytes between those who *)
(* hold its write end and those who hold its read end.  Bytes leave in the *)
(* order they entered, none is lost or made up, and a reader learns that   *)
(* there will be no more only when the last writer is gone and the queue   *)
(* is empty.                                                               *)
(***************************************************************************)
EXTENDS Naturals, Sequences

CONSTANTS Bytes, Capacity

VARIABLES
  queue,    \* the bytes in the pipe
  writers,  \* somebody holds the write end
  ended     \* some reader has been told that the pipe has ended

vars == <<queue, writers, ended>>

Init == queue = <<>> /\ writers = TRUE /\ ended = FALSE

Put(b) ==
  /\ writers /\ Len(queue) < Capacity
  /\ queue' = Append(queue, b)
  /\ UNCHANGED <<writers, ended>>

Get ==
  /\ queue # <<>>
  /\ queue' = Tail(queue)
  /\ UNCHANGED <<writers, ended>>

Close ==
  /\ writers' = FALSE
  /\ UNCHANGED <<queue, ended>>

End ==
  /\ ~ writers /\ queue = <<>>
  /\ ended' = TRUE
  /\ UNCHANGED <<queue, writers>>

Next == (\E b \in Bytes : Put(b)) \/ Get \/ Close \/ End

Spec == Init /\ [][Next]_vars
=============================================================================
