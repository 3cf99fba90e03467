------------------------------ MODULE LineInput ------------------------------
(***************************************************************************)
(* What the console of xv6 makes of the keys typed: a line can be edited   *)
(* until it is finished, by its end or because no more fits; only finished *)
(* input is read, each key once and in order.                              *)
(***************************************************************************)
EXTENDS Naturals, Sequences

CONSTANTS Letters, Enders, Capacity

VARIABLES
  ready,   \* finished input that nobody has read yet
  line     \* the line being edited

vars == <<ready, line>>

Init == ready = <<>> /\ line = <<>>

Ends(c) == c \in Enders \/ Len(ready) + Len(line) + 1 = Capacity

Type(c) ==
  /\ Len(ready) + Len(line) < Capacity
  /\ IF Ends(c) THEN ready' = ready \o Append(line, c) /\ line' = <<>>
                ELSE line' = Append(line, c) /\ UNCHANGED ready

Erase ==
  /\ line # <<>>
  /\ line' = SubSeq(line, 1, Len(line) - 1)
  /\ UNCHANGED ready

Read ==
  /\ ready # <<>>
  /\ ready' = Tail(ready)
  /\ UNCHANGED line

Next == (\E c \in Letters \cup Enders : Type(c)) \/ Erase \/ Read

Spec == Init /\ [][Next]_vars
=============================================================================
