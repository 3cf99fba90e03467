---------------------------- MODULE Arrangements ----------------------------
(***************************************************************************)
(* How the MLFQ programs make queues of others: by sorting and by leaving  *)
(* out.  Both are said by counting, so that what they do to a queue of any *)
(* length can be proved.                                                   *)
(***************************************************************************)
EXTENDS Integers, Sequences, FiniteSets

\* The members of a finite set in the order `before', a strict total order of them.
Arranged(S, before) ==
  [k \in 1 .. Cardinality(S) |->
     CHOOSE x \in S : Cardinality({y \in S : <<y, x>> \in before}) = k - 1]

\* The elements of s at the positions K.
Kept(s, K) ==
  [k \in 1 .. Cardinality(K) |-> s[CHOOSE i \in K : Cardinality({j \in K : j < i}) = k - 1]]
=============================================================================
