------------------------------ MODULE MCPaging ------------------------------
(* A small instance of Paging for TLC. *)
EXTENDS Paging

I(op, val, adr) == [op |-> op, val |-> val, adr |-> adr]

\* A program that stores at the first page and, where it has one, at the second;
\* in a process of one page the second address is past its end.
Storing == <<I("load", 1, <<0>>), I("add", 0, <<0, 0, 1>>)>>

\* One with a syntax error in the middle.
Faulty == <<I("sub", 0, <<0, 0, 0>>), I("bad", 0, <<>>), I("print", 0, <<0>>)>>

StoringOrFaulty == {Storing, Faulty}
=============================================================================
