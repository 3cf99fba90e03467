------------------------------ MODULE MCXvLog ------------------------------
(* A small instance of XvLog for TLC. *)
EXTENDS XvLog
CONSTANTS p1, p2, b1, b2, old, new
=============================================================================
