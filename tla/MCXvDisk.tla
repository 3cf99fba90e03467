------------------------------- MODULE MCXvDisk -------------------------------
(* A small instance of XvDisk for TLC. *)
EXTENDS XvDisk, TLC
CONSTANTS p1, p2, p3, late, b1, b2, b3, b4, new
Alike == Permutations({p1, p2, p3}) \cup Permutations({b1, b2, b3, b4})

\* A bound: late makes one call only, when the others have all buffers.
Bounded == Init /\ [][Next /\ pc'[late] \in {"user", "panic"}]_vars
=============================================================================
