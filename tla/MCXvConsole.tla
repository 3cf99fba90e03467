----------------------------- MODULE MCXvConsole -----------------------------
(* A small instance of XvConsole for TLC. *)
EXTENDS XvConsole, TLC
CONSTANTS p1, p2, cpu, c1, c2
Alike == Permutations({p1, p2}) \cup Permutations({c1, c2})
=============================================================================
