------------------------------- MODULE MCXvMem -------------------------------
(* A small instance of XvMem for TLC. *)
EXTENDS XvMem

Seg(vaddr, memsz, filesz, perm, sound) ==
  [vaddr |-> vaddr, memsz |-> memsz, filesz |-> filesz, perm |-> perm, sound |-> sound]

\* One page of text; a page of text and then data that end with zeros in the middle
\* of a page; a segment after the first that cannot be loaded.
MCPrograms ==
  { <<Seg(0, 2, 2, {"X"}, TRUE)>>,
    <<Seg(0, 1, 1, {"X"}, TRUE), Seg(2, 3, 1, {"W"}, TRUE)>>,
    <<Seg(0, 2, 2, {"X"}, TRUE), Seg(2, 2, 2, {"W"}, FALSE)>> }
MCIncrements == {-3, -1, 1, 3}
=============================================================================
