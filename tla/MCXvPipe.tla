------------------------------ MODULE MCXvPipe ------------------------------
(* A small instance of XvPipe for TLC. *)
EXTENDS XvPipe
CONSTANTS p1, p2, b1, b2
=============================================================================
