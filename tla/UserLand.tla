------------------------------ MODULE UserLand ------------------------------
(* The programs of user/: the commands, the shell with its parser, and the   *)
(* stress programs stressfs and grind.  As in UserTests a program is the     *)
(* calls it makes; an argument or a word of a command line is one byte.      *)
(* What they only tell the user (printf, the prompt) is left out.            *)
EXTENDS UserCode, FiniteSets

(***************************************************************************)
(* The commands                                                            *)
(***************************************************************************)
\* The arguments of a program, its name left out.
Each(argv, body(_)) == FlattenSeq([i \in 1 .. Len(argv) - 1 |-> body(argv[i + 1])])
catfd(f) ==
  << While([read(f, 2) EXCEPT !.to = "n", !.want = <<1, Enough>>], <<send("1")>>),
     If(Is("n", -1), <<exit(1)>>, <<>>) >>
cat(argv) ==
  IF Len(argv) <= 1 THEN catfd("0") \o <<exit(0)>>
  ELSE Each(argv, LAMBDA a : <<open("fd", <<a>>, {})>> \o catfd("fd") \o <<close("fd")>>) \o <<exit(0)>>

echo(argv) ==
  FlattenSeq([i \in 1 .. Len(argv) - 1 |->
    << May(write("1", <<argv[i + 1]>>)), May(write("1", <<IF i + 1 < Len(argv) THEN " " ELSE "\n">>)) >>])
  \o <<exit(0)>>

\* rm and mkdir stop at the first name that fails, and exit with 0 all the same.
Stops(s) == If(s, <<>>, <<exit(0)>>)
rm(argv) == IF Len(argv) < 2 THEN <<exit(1)>>
            ELSE Each(argv, LAMBDA a : <<Stops(unlink(<<a>>))>>) \o <<exit(0)>>
mkdirs(argv) == IF Len(argv) < 2 THEN <<exit(1)>>
                ELSE Each(argv, LAMBDA a : <<Stops(mkdir(<<a>>))>>) \o <<exit(0)>>
ln(argv) == IF Len(argv) # 3 THEN <<exit(1)>> ELSE <<May(link(<<argv[2]>>, <<argv[3]>>)), exit(0)>>
\* The arguments of kill are the variables that hold the numbers.
kills(argv) == IF Len(argv) < 2 THEN <<exit(1)>> ELSE Each(argv, LAMBDA a : <<kill(a)>>) \o <<exit(0)>>
zombie == << If([forkBoth("pid") EXCEPT !.want = <<1, Enough>>], <<sleep(5)>>, <<>>), exit(0) >>

\* init starts a shell whenever the last one is gone; the children of others
\* come to it too.
init ==
  LET shells == << fork("pid", <<May(exec(<<"sh">>, <<"sh">>)), exit(1)>>) >>
      reap == While(wait("wpid", ""), << If(same("wpid", "pid"), shells, <<>>) >>)
  IN << If(open("", <<"console">>, {"rdwr"}), <<>>,
           <<May(mknod(<<"console">>, 1)), May(open("", <<"console">>, {"rdwr"}))>>),
        May(dup("", "0")), May(dup("", "0")) >> \o shells \o <<reap, exit(1)>>

(***************************************************************************)
(* sh: the parser.  It gives the set of the trees it builds, which is empty *)
(* where the shell would panic; a line is the sequence of its words.        *)
(***************************************************************************)
MAXARGS == 10
Redirections == {"<", ">", ">>"}
Symbols == Redirections \union {"|", "&", ";", "(", ")"}
Word(ts) == ts # <<>> /\ Head(ts) \notin Symbols
peek(ts, toks) == ts # <<>> /\ Head(ts) \in toks
Parsed(cmd, ts) == [cmd |-> cmd, rest |-> ts]

execcmd(argv)     == [type |-> "EXEC", argv |-> argv]
redircmd(c, t, f) == [type |-> "REDIR", cmd |-> c, fd |-> IF t = "<" THEN "0" ELSE "1", file |-> f,
                      mode |-> CASE t = "<"  -> {}
                                 [] t = ">"  -> {"wronly", "create", "trunc"}
                                 [] t = ">>" -> {"wronly", "create"}]
pipecmd(l, r)     == [type |-> "PIPE", left |-> l, right |-> r]
listcmd(l, r)     == [type |-> "LIST", left |-> l, right |-> r]
backcmd(c)        == [type |-> "BACK", cmd |-> c]

RECURSIVE parseredirs(_, _), Args(_, _, _), Backs(_, _), parsepipe(_), parseline(_)

parseredirs(cmd, ts) ==
  IF ~peek(ts, Redirections) THEN {Parsed(cmd, ts)}
  ELSE IF Word(Tail(ts)) THEN parseredirs(redircmd(cmd, Head(ts), ts[2]), Tail(Tail(ts))) ELSE {}

parseblock(ts) ==
  UNION {parseredirs(a.cmd, Tail(a.rest)) : a \in {b \in parseline(Tail(ts)) : peek(b.rest, {")"})}}

\* A redirection among the arguments encloses the ones before it.
Args(argv, around, ts) ==
  IF ts = <<>> \/ peek(ts, {"|", ")", "&", ";"})
  THEN {Parsed(FoldLeft(LAMBDA c, r : redircmd(c, r[1], r[2]), execcmd(argv), around), ts)}
  ELSE IF peek(ts, Redirections)
  THEN IF Word(Tail(ts)) THEN Args(argv, Append(around, <<ts[1], ts[2]>>), Tail(Tail(ts))) ELSE {}
  ELSE IF Word(ts) /\ Len(argv) + 1 < MAXARGS THEN Args(Append(argv, Head(ts)), around, Tail(ts)) ELSE {}
parseexec(ts) == IF peek(ts, {"("}) THEN parseblock(ts) ELSE Args(<<>>, <<>>, ts)

parsepipe(ts) ==
  UNION {IF peek(a.rest, {"|"})
         THEN {Parsed(pipecmd(a.cmd, b.cmd), b.rest) : b \in parsepipe(Tail(a.rest))} ELSE {a} :
         a \in parseexec(ts)}

Backs(cmd, ts) == IF peek(ts, {"&"}) THEN Backs(backcmd(cmd), Tail(ts)) ELSE Parsed(cmd, ts)
parseline(ts) ==
  UNION {IF peek(a.rest, {";"})
         THEN {Parsed(listcmd(a.cmd, b.cmd), b.rest) : b \in parseline(Tail(a.rest))} ELSE {a} :
         a \in {Backs(b.cmd, b.rest) : b \in parsepipe(ts)}}

parsecmd(ts) == {a.cmd : a \in {b \in parseline(ts) : b.rest = <<>>}}

(***************************************************************************)
(* sh: running a command, in a process of its own                          *)
(***************************************************************************)
RECURSIVE runcmd(_)
runcmd(c) ==
  CASE c.type = "EXEC" ->
         IF c.argv = <<>> THEN <<exit(1)>>
         ELSE << May(exec(<<Head(c.argv)>>, c.argv)), exit(0) >>
    [] c.type = "REDIR" -> << close(c.fd), open("", <<c.file>>, c.mode) >> \o runcmd(c.cmd)
    [] c.type = "LIST" -> << fork("", runcmd(c.left)), wait("", "") >> \o runcmd(c.right)
    [] c.type = "PIPE" ->
         << pipe("r", "w"),
            fork("", << close("1"), May(dup("", "w")), close("r"), close("w") >> \o runcmd(c.left)),
            fork("", << close("0"), May(dup("", "r")), close("r"), close("w") >> \o runcmd(c.right)),
            close("r"), close("w"), wait("", ""), wait("", ""), exit(0) >>
    [] c.type = "BACK" -> << fork("", runcmd(c.cmd)), exit(0) >>

\* The words of a line, its end left out.  A line that does not parse ends the
\* process that was made for it.
line(ts) ==
  LET words == IF ts # <<>> /\ Last(ts) = "\n" THEN Front(ts) ELSE ts
  IN IF Len(words) > 1 /\ Head(words) = "cd" THEN << May(chdir(<<words[2]>>)) >>
     ELSE << fork("", IF parsecmd(words) = {} THEN <<exit(1)>>
                      ELSE runcmd(CHOOSE c \in parsecmd(words) : TRUE)), wait("", "") >>

sh ==
  << [While(open("fd", <<"console">>, {"rdwr"}), <<>>) EXCEPT !.want = <<0, 2>>, !.else = <<close("fd")>>],
     While(gets("0"), <<runline>>), exit(0) >>

\* What a file holds that exec() can load: the name of the program.
Loaded(name, argv) ==
  CASE name = "echo" -> echo(argv) [] name = "cat" -> cat(argv) [] name = "sh" -> sh
    [] name = "line" -> line(argv)

(***************************************************************************)
(* stressfs: N processes, each the child of the one before.                *)
(***************************************************************************)
stress(i, n) ==
  LET file == << "stressfs" \o ToString(i) >>
  IN << May(open("fd", file, create)) >> \o For(n, LAMBDA k : << May(write("fd", <<"a", "a">>)) >>)
     \o << close("fd"), May(open("fd", file, {})) >> \o For(n, LAMBDA k : << May(read("fd", 2)) >>)
     \o << close("fd"), wait("", ""), exit(0) >>
RECURSIVE stressfs(_, _)
stressfs(i, N) ==
  IF i = N THEN stress(i, 2)
  ELSE << If(fork("", stressfs(i + 1, N)), stress(i, 2), stressfs(i + 1, N)) >>

(***************************************************************************)
(* grind: the cases of go(), by their numbers.                             *)
(***************************************************************************)
Makes(path) == << May(open("tmp", path, create)), close("tmp") >>
Child(code) == << fork("pid", code), wait("", "") >>
Reopens(path) == << close("fd"), May(open("fd", path, create)) >>
a1 == <<"grindir", "..", "a">>
b1 == <<"grindir", "..", "b">>

FileCases ==
  [k \in 1 .. 12 |->
     CASE k = 1 -> Makes(a1)
       [] k = 2 -> Makes(<<"grindir", "..", "grindir", "..", "b">>)
       [] k = 3 -> << May(unlink(a1)) >>
       [] k = 4 -> << chdir(<<"grindir">>), May(unlink(<<"..", "b">>)), May(chdir(<<"/">>)) >>
       [] k = 5 -> Reopens(<<"/">> \o a1)
       [] k = 6 -> Reopens(<<"/", ".", "grindir", ".", "..", "b">>)
       [] k = 7 -> << May(write("fd", <<"g", "g">>)) >>
       [] k = 8 -> << May(read("fd", 2)) >>
       [] k = 9 -> << May(mkdir(a1)) >> \o Makes(<<"a", "..", "a", ".", "a">>) \o << May(unlink(<<"a", "a">>)) >>
       [] k = 10 -> << May(mkdir(<<"/", "..", "b">>)) >> \o Makes(b1 \o <<"b">>) \o << May(unlink(<<"b", "b">>)) >>
       [] k = 11 -> << May(unlink(<<"b">>)), May(link(<<"..", "grindir", ".", "..", "a">>, <<"..", "b">>)) >>
       [] k = 12 -> << May(unlink(<<"..">> \o a1)), May(link(<<"..", ".", "b">>, <<"/">> \o a1)) >>]

\* Cases 14 and 19 fork once where grind forks twice.  6011 bytes are two
\* pages, less a little; they go back in one call.
Grown == 2 * PGSIZE - 1
ProcessCases ==
  [k \in 13 .. 18 |->
     CASE k = 13 -> Child(<<exit(0)>>)
       [] k = 14 -> Child(<<May(forkBoth("")), exit(0)>>)
       [] k = 15 -> << May(sbrk("", Grown)) >>
       [] k = 16 -> << If([sbrk("top", 0) EXCEPT !.want = <<4 * PGSIZE + 1, Enough>>],
                          <<May(sbrk("", -Grown))>>, <<>>) >>
       [] k = 17 -> << fork("pid", Makes(<<"a">>) \o <<exit(0)>>), chdir(<<"..", "grindir", "..">>),
                       kill("pid"), wait("", "") >>
       [] k = 18 -> Child(<<getpid("me"), kill("me"), exit(0)>>)]

pipeline ==                                            \* echo hi | cat
  << pipe("a0", "a1"), pipe("b0", "b1"),
     fork("pid1", << close("b0"), close("b1"), close("a0"), close("1"), Returns(dup("", "a1"), 1), close("a1"),
                     May(exec(<<"grindir", "..", "echo">>, <<"echo", "hi">>)), exit(2) >>),
     fork("pid2", << close("a1"), close("b0"), close("0"), Returns(dup("", "a0"), 0), close("a0"),
                     close("1"), Returns(dup("", "b1"), 1), close("b1"),
                     May(exec(<<"/", "cat">>, <<"cat">>)), exit(6) >>),
     close("a0"), close("a1"), close("b1"), May(read("b0", 1)), May(more(read("b0", 1))), close("b0"),
     wait("", "st1"), wait("", "st2"), Is("st1", 0), Is("st2", 0), see({<<"hi", "\n">>}) >>
CallCases ==
  [k \in 19 .. 22 |->
     CASE k = 19 -> << pipe("r", "w"),
                       fork("pid", << May(forkBoth("")), May(write("w", <<"x">>)),
                                      May(read("r", 1)), exit(0) >>),
                       close("r"), close("w"), wait("", "") >>
       [] k = 20 -> Child(<< May(unlink(<<"a">>)), May(mkdir(<<"a">>)), May(chdir(<<"a">>)),
                             May(unlink(<<"..", "a">>)), May(open("fd", <<"x">>, create)),
                             May(unlink(<<"x">>)), exit(0) >>)
       [] k = 21 -> << May(unlink(<<"c">>)), open("fd1", <<"c">>, create), write("fd1", <<"x">>), fstat("fd1"),
                       see({<<st>> : st \in [type : {"file"}, ino : 1 .. NINODE, nlink : 0 .. 1, size : {1}]}), close("fd1"),
                       May(unlink(<<"c">>)) >>
       [] k = 22 -> pipeline]
Cases == FileCases @@ ProcessCases @@ CallCases

\* go() picks a case for ever; a model does so a few times, from the cases it
\* is given.
go(rounds) ==
  << May(mkdir(<<"grindir">>)), chdir(<<"grindir">>), May(chdir(<<"/">>)), let("fd", -1) >>
  \o FlattenSeq([i \in DOMAIN rounds |-> << pick({Cases[k] : k \in rounds[i]}) >>]) \o <<exit(0)>>
\* iter() exits with 0 whatever happened; here it passes on what it was told.
iter(roundsA, roundsB) ==
  << May(unlink(<<"a">>)), May(unlink(<<"b">>)), fork("pid1", go(roundsA)), fork("pid2", go(roundsB)),
     wait("", "st1"), If(Is("st1", 0), <<>>, <<kill("pid1"), kill("pid2")>>), wait("", "st2"),
     Is("st2", 0), exitWith("st1") >>
=============================================================================
