--------------------------- MODULE MCSystemCalls ---------------------------
(* The programs of user/ over the system calls, one at a time: the tests of  *)
(* usertests, command lines given to the shell, the commands, stressfs and   *)
(* grind.                                                                    *)
EXTENDS SystemCalls, UserTests, UserLand

(* The disk mkfs makes, with the few programs that are executed. *)
Folder(s) == [NoInode EXCEPT !.type = "dir", !.nlink = 1, !.data = s, !.blocks = Held((Len(s) - 1) \div BSIZE)]
Entry(n, i) == [name |-> n, inum |-> i]
OnDisk(d) == [NoInode EXCEPT !.type = "file", !.nlink = 1, !.data = d, !.blocks = (Len(d) + 1) \div BSIZE]
FirstDisk ==
  [i \in Inums |->
     CASE i = 1 -> Folder(<<Entry(".", 1), Entry("..", 1), Entry("console", 2), Entry("README", 3),
                            Entry("echo", 4), Entry("cat", 5), Entry("sh", 6)>>)
       [] i = 2 -> [NoInode EXCEPT !.type = "device", !.nlink = 1, !.major = 1]
       [] i = 3 -> OnDisk(<<"r", "m">>)
       [] i = 4 -> OnDisk(<<"echo">>)
       [] i = 5 -> OnDisk(<<"cat">>)
       [] i = 6 -> OnDisk(<<"sh">>)
       [] OTHER -> NoInode]
Programs == { <<"echo">>, <<"cat">>, <<"sh">> }
FourteenBytes == [n \in {"123456789012345"} |-> "12345678901234"]

(* A shell runs the script, then the files hold what they should: one of the  *)
(* given contents.                                                            *)
Script(words) ==
  << open("s", <<"s">>, {"create", "wronly"}), write("s", words), close("s"),
     fork("pid", << close("0"), Returns(open("", <<"s">>, {}), 0), exec(<<"sh">>, <<"sh">>) >>),
     wait("", "st"), Is("st", 0), unlink(<<"s">>) >>
Has(path, contents) == << open("f", path, {}), Drain("f", 8), see(contents), close("f"), unlink(path) >>
HasNot(path) == << Fails(open("f", path, {})) >>

ShellTests ==
  [shpipe |-> Script(<<"echo", "hi", "|", "cat", ">", "o">>) \o Has(<<"o">>, {<<"hi", "\n">>}),
   shblock |-> Script(<<"(", "echo", "a", ";", "echo", "b", ")", ">", "o", "\n">>)
               \o Has(<<"o">>, {<<"a", "\n", "b", "\n">>}),
   \* ">>" does not go to the end of the file
   shagain |-> Script(<<"echo", "a", "b", ">", "o", "\n", "echo", "c", ">>", "o", "\n">>)
               \o Has(<<"o">>, {<<"c", "\n", "b", "\n">>}),
   shback |-> Script(<<"echo", "a", "&", "echo", "b", ">", "o">>) \o HasNot(<<"o">>)
              \o Script(<<"echo", "a", ">", "p", "&", ";", "echo", "b", ">", "o">>)
              \o Has(<<"o">>, {<<"b", "\n">>}),
   shwrong |-> Script(<<"echo", "a", ">", "o", "\n", "echo", "b", ">", "\n", "(", "cat", ">", "o", "\n",
                        "nothing", "\n">>)
               \o Has(<<"o">>, {<<"a", "\n">>}),
   shcd |-> << mkdir(<<"d">>) >> \o Script(<<"cd", "d", "\n", "cd", "none", "\n", "echo", "a", "<", "none",
                                             "\n", ">", "x">>)
            \o Has(<<"d", "x">>, {<<>>}) \o << unlink(<<"d">>) >>]

\* What is left when init, the driver, the test and the child that counts have
\* theirs, and the pipe its page.
Spare == NPAGES - 4 * (OVERHEAD + Pages(Image)) - 1
CommandTests ==
  [commands |->
     << fork("pid", mkdirs(<<"mkdir", "d", "d", "e">>)), wait("", "st"), Is("st", 0), Fails(chdir(<<"e">>)),
        fork("pid", ln(<<"ln", "README", "x">>)), wait("", "st"), Is("st", 0),
        fork("pid", rm(<<"rm", "x", "x", "README">>)), wait("", "st"), Is("st", 0),
        fork("pid", cat(<<"cat", "README", "none">>)), wait("", "st"), Is("st", 1),
        fork("pid", rm(<<"rm", "d">>)), wait("", "st"), Is("st", 0) >>,
   zombies |-> << fork("pid", zombie), kill("pid"), let("old", NPROC), kill("old"),
                  fork("pid2", kills(<<"kill", "pid", "old">>)), wait("", ""), wait("", "") >>,
   \* init in a directory of its own, where the shell is echo, soon gone
   boots |-> << mkdir(<<"d">>), chdir(<<"d">>), link(<<"..", "echo">>, <<"sh">>),
                fork("pid", << close("0"), close("1"), close("2") >> \o init), sleep(5), kill("pid"),
                wait("", "st") >>,
   full |-> fsfull,
   drives |-> drivetests(Spare, mem),
   stress |-> << fork("pid", stressfs(0, 1)), wait("", "") >>]

(* Two processes of grind: all pairs of cases, but those that need many      *)
(* processes twice, and a few sequences.                                     *)
Alone == DOMAIN Cases \ {14, 19, 22}
GrindTests ==
  [grind |-> iter(<<DOMAIN Cases \ {22}>>, <<Alone>>),
   grindpipe |-> iter(<<{22}>>, <<{3}>>),
   grindfiles |-> iter(<<{5, 6}, {7}, {11, 12}>>, <<{5, 6}, {7, 8}>>),
   grinddirs |-> iter(<<{9, 10, 20}>>, <<{9, 10, 20}, {4, 11, 12}>>)]

Tests == quicktests @@ slowtests @@ ShellTests @@ CommandTests
run(t) == IF t \in DOMAIN GrindTests THEN GrindTests[t] ELSE Forked(Tests[t])
\* init starts the driver and collects whoever comes to it.
MainOf(t) == << fork("sh", run(t)), While(wait("w", "st"), <<>>) >>
MainsToRun == {MainOf(t) : t \in DOMAIN Tests \union DOMAIN GrindTests}
=============================================================================
