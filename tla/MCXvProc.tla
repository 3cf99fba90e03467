------------------------------ MODULE MCXvProc ------------------------------
(* A small instance of XvProc for TLC. *)
EXTENDS XvProc
CONSTANTS c1, c2
=============================================================================
