------------------------------- MODULE MCXvFs -------------------------------
(***************************************************************************)
(* Small instances of XvFs.  mkfs and earlier calls left a disk with the   *)
(* directory /d/e and the file /f; one inode and two blocks are free, and  *)
(* / needs both for one more name, /f for one more block of data.          *)
(***************************************************************************)
EXTENDS XvFs, TLC
CONSTANTS p1, p2

Dir(nlink, block, ents) ==
  [type |-> "dir", nlink |-> nlink, size |-> 1, addrs |-> <<block>>, ents |-> ents]

MCImage ==
  [ino |-> << Dir(2, 1, "." :> 1 @@ ".." :> 1 @@ "d" :> 2 @@ "f" :> 3),
              Dir(2, 2, "." :> 2 @@ ".." :> 1 @@ "e" :> 4),
              [type |-> "file", nlink |-> 1, size |-> 1, addrs |-> <<3>>, ents |-> NoEntry],
              Dir(1, 4, "." :> 4 @@ ".." :> 2),
              Fresh("free") >>,
   used |-> 1 .. 4]

Abs(names) == [abs |-> TRUE, names |-> names]
Rel(names) == [abs |-> FALSE, names |-> names]
PathCall(op, names) == [op |-> op, path |-> Abs(names)]
OpenCall(names, mode) == [op |-> "open", path |-> Abs(names), mode |-> mode]
LinkCall(old) == [op |-> "link", path |-> Abs(<<old>>), new |-> Rel(<<"l">>)]

Removals == {PathCall("unlink", <<"d", "e">>), PathCall("unlink", <<"d">>)}
UpAndDown == OpenCall(<<"d", "e", "..">>, {"read", "create"})

\* Calls that find the wrong kind of inode.
Mistakes == {LinkCall("d"), PathCall("chdir", <<"f">>), PathCall("mkdir", <<>>),
             OpenCall(<<"d">>, {"write"})}

MCCalls ==
  Removals \cup Mistakes \cup
  {UpAndDown, OpenCall(<<"f">>, {"read", "write", "trunc"}),
   OpenCall(<<"d", "g">>, {"write", "create"}),
   PathCall("mkdir", <<"d", "g">>), [op |-> "mknod", path |-> Rel(<<"l">>)],
   PathCall("unlink", <<"f">>), PathCall("unlink", <<"d", "g">>),
   LinkCall("f"), PathCall("chdir", <<"d">>),
   [op |-> "write", n |-> 2], [op |-> "read"], [op |-> "close"], [op |-> "dup"]}

\* The calls of the other two runs.
LeakCalls == {PathCall("unlink", <<"f">>), [op |-> "mknod", path |-> Abs(<<"d", "f">>)],
              PathCall("unlink", <<"d", "f">>)}
UpAndDownCalls == Removals \cup {UpAndDown}

Symmetry == Permutations(Procs)
=============================================================================
