---------------------------- MODULE AddressSpaces ----------------------------
(***************************************************************************)
(* What the memory of the xv6 kernel promises its processes: each has an   *)
(* address space of its own, a sequence of pages with what they hold and   *)
(* how they may be used.  A child begins with a copy of its parent's, a    *)
(* new program with its image and a stack, and more memory is zero.  What  *)
(* fails changes nothing.                                                  *)
(***************************************************************************)
EXTENDS Naturals, Sequences

CONSTANTS Procs, Images, Values, First, NoSpace

VARIABLE space

Fresh == [data |-> "zero", perm |-> {"R", "W", "U"}]

Init == space = [p \in Procs |-> IF p = 1 THEN First ELSE NoSpace]

Alive(p) == space[p] # NoSpace

Fork(p, c) == /\ Alive(p) /\ ~ Alive(c)
              /\ space' = [space EXCEPT ![c] = space[p]]

Exec(p) == /\ Alive(p)
           /\ \E image \in Images : space' = [space EXCEPT ![p] = image]

Grow(p, n) == /\ Alive(p)
              /\ space' = [space EXCEPT ![p] = @ \o [k \in 1 .. n |-> Fresh]]

Shrink(p, n) == /\ Alive(p) /\ n < Len(space[p])
                /\ space' = [space EXCEPT ![p] = SubSeq(@, 1, n)]

Write(p, k, v) == /\ Alive(p) /\ k \in DOMAIN space[p] /\ {"W", "U"} \subseteq space[p][k].perm
                  /\ space' = [space EXCEPT ![p][k].data = v]

\* read() and its like: the kernel fills pages of the caller.
Fill(p, K, v) == /\ Alive(p) /\ K \subseteq DOMAIN space[p]
                 /\ \A k \in K : "U" \in space[p][k].perm
                 /\ space' = [space EXCEPT ![p] = [k \in DOMAIN @ |->
                                IF k \in K THEN [@[k] EXCEPT !.data = v] ELSE @[k]]]

Free(p) == Alive(p) /\ space' = [space EXCEPT ![p] = NoSpace]

CONSTANT MaxPages  \* bound for TLC: pages of a growing step

Next ==
  \E p \in Procs :
    \/ \E c \in Procs : Fork(p, c)
    \/ Exec(p)
    \/ \E n \in 1 .. MaxPages : Grow(p, n)
    \/ \E n \in 0 .. MaxPages : Shrink(p, n)
    \/ \E k \in 1 .. MaxPages, v \in Values : Write(p, k, v)
    \/ \E K \in SUBSET (1 .. MaxPages), v \in Values : Fill(p, K, v)
    \/ Free(p)

Spec == Init /\ [][Next]_space
=============================================================================
