----------------------------- MODULE UserTests -----------------------------
(* The tests of usertests.c, each as the calls it makes and the results it   *)
(* insists on.  Loops of hundreds of rounds, that try their luck with the    *)
(* scheduler, take a round or two: here every order of the steps is tried.   *)
(* Sizes are those of the model: a page, a block and a file are PGSIZE,      *)
(* BSIZE and MAXFILE * BSIZE bytes.                                          *)
EXTENDS UserCode, FiniteSets

createW == {"create", "wronly"}
createT == {"create", "wronly", "trunc"}

\* pid = fork(): the child runs code; wait(&xstatus), which must be good.
Forked(code) == << fork("pid", code), wait("", "xstatus"), Is("xstatus", 0) >>
\* for(pi = 0; pi < n; pi++) fork a child; then wait for as many.
Several(n, code(_)) ==
  For(n, LAMBDA i : << fork("pid", code(i)) >>)
  \o For(n, LAMBDA i : << wait("", "xstatus"), Is("xstatus", 0) >>)

copyin ==
  << open("fd", <<"copyin1">>, createW), Fails(From(write("fd", Bytes("x", 8)), Nowhere)),
     close("fd"), May(unlink(<<"copyin1">>)),
     Refused(From(write("1", Bytes("x", 8)), Nowhere)),
     pipe("r", "w"), Refused(From(write("w", Bytes("x", 8)), Nowhere)), close("r"), close("w") >>

copyout ==
  << open("fd", <<"README">>, {}), Refused(From(read("fd", 8), Nowhere)), close("fd"),
     pipe("r", "w"), write("w", <<"x">>), Refused(From(read("r", 8), Nowhere)),
     close("r"), close("w") >>

copyinstr1 == << Fails(open("fd", NoString, createW)) >>

\* A path of MAXPATH bytes has no end within them; so has an argument of a page.
copyinstr2 ==
  << Fails(unlink(NoString)), Fails(open("fd", NoString, createW)),
     Fails(link(NoString, NoString)), Fails(exec(NoString, <<"xx">>)),
     fork("pid", << Fails(exec(<<"echo">>, <<"page", "page", "page">>)), exit(47) >>),
     wait("", "st"), Is("st", 47) >>

\* The string begins at the last byte of memory.
copyinstr3 ==
  << sbrk("", 2 * PGSIZE), sbrk("top", 0), store(At("top", -1)),
     Fails(unlink(NoString)), Fails(open("fd", NoString, createW)),
     Fails(link(NoString, NoString)), Fails(exec(NoString, <<"xx">>)) >>

rwsbrk ==
  << sbrk("a", 2 * PGSIZE), sbrk("", -2 * PGSIZE), open("fd", <<"rwsbrk">>, createW),
     Fails(From(write("fd", <<"x", "x">>), At("a", PGSIZE))), close("fd"), May(unlink(<<"rwsbrk">>)),
     open("fd", <<"README">>, {}), Fails(From(read("fd", 2), At("a", PGSIZE))), close("fd"), exit(0) >>

truncate1 ==
  << May(unlink(<<"truncfile">>)), May(open("fd1", <<"truncfile">>, createT)),
     May(write("fd1", <<"a", "b", "c", "d">>)), close("fd1"),
     May(open("fd2", <<"truncfile">>, {})), Returns(read("fd2", 32), 4),
     May(open("fd1", <<"truncfile">>, {"wronly", "trunc"})),
     May(open("fd3", <<"truncfile">>, {})), Returns(read("fd3", 32), 0), Returns(read("fd2", 32), 0),
     May(write("fd1", <<"a", "b", "c", "d", "e", "f">>)),
     Returns(read("fd3", 32), 6), Returns(read("fd2", 32), 2),
     May(unlink(<<"truncfile">>)), close("fd1"), close("fd2"), close("fd3") >>

truncate2 ==
  << May(unlink(<<"truncfile">>)), May(open("fd1", <<"truncfile">>, createT)),
     May(write("fd1", <<"a", "b", "c", "d">>)),
     May(open("fd2", <<"truncfile">>, {"trunc", "wronly"})), Fails(write("fd1", <<"x">>)),
     May(unlink(<<"truncfile">>)), close("fd1"), close("fd2") >>

truncate3 ==
  LET writer == For(1, LAMBDA i :
        << open("fd", <<"truncfile">>, {"wronly"}), write("fd", Bytes("1", 4)), close("fd"),
           May(open("fd", <<"truncfile">>, {})), May(read("fd", 32)), close("fd") >>)
      truncater == For(2, LAMBDA i :
        << open("fd", <<"truncfile">>, createT), write("fd", <<"x">>), close("fd") >>)
  IN << May(open("fd", <<"truncfile">>, createT)), close("fd"), fork("pid", writer \o <<exit(0)>>) >>
     \o truncater \o << wait("", "xstatus"), May(unlink(<<"truncfile">>)), exitWith("xstatus") >>

iputtest == << mkdir(<<"iputdir">>), chdir(<<"iputdir">>), unlink(<<"..", "iputdir">>), chdir(<<"/">>) >>

exitiputtest ==
  << fork("pid", << mkdir(<<"iputdir">>), chdir(<<"iputdir">>), unlink(<<"..", "iputdir">>), exit(0) >>),
     wait("", "xstatus"), exitWith("xstatus") >>

openiputtest ==
  << mkdir(<<"oidir">>), fork("pid", << Fails(open("fd", <<"oidir">>, {"rdwr"})), exit(0) >>),
     sleep(1), unlink(<<"oidir">>), wait("", "xstatus"), exitWith("xstatus") >>

opentest == << open("fd", <<"echo">>, {}), close("fd"), Fails(open("fd", <<"doesnotexist">>, {})) >>

writetest ==
  << open("fd", <<"small">>, create) >>
  \o For(2, LAMBDA i : << write("fd", Bytes("a", 2)), write("fd", Bytes("b", 2)) >>)
  \o << close("fd"), open("fd", <<"small">>, {}), Returns(read("fd", 8), 8), close("fd"),
        unlink(<<"small">>) >>

writebig ==
  << open("fd", <<"big">>, create) >>
  \o For(MAXFILE, LAMBDA i : << write("fd", << ToString(i), "x" >>) >>)
  \o << close("fd"), open("fd", <<"big">>, {}) >>
  \o For(MAXFILE, LAMBDA i : << Returns(read("fd", BSIZE), BSIZE), see({ << ToString(i), "x" >> }) >>)
  \o << Returns(read("fd", BSIZE), 0), close("fd"), unlink(<<"big">>) >>

createtest ==
  For(3, LAMBDA i : << May(open("fd", << "a" \o ToString(i) >>, create)), close("fd") >>)
  \o For(3, LAMBDA i : << May(unlink(<< "a" \o ToString(i) >>)) >>)

dirtest == << mkdir(<<"dir0">>), chdir(<<"dir0">>), chdir(<<"..">>), unlink(<<"dir0">>) >>

\* An argument counts as one byte.
exectest ==
  << May(unlink(<<"echo-ok">>)),
     fork("pid", << close("1"), Returns(open("fd", <<"echo-ok">>, createW), 1),
                    exec(<<"echo">>, <<"echo", "OK">>) >>),
     wait("", "xstatus"), If(Is("xstatus", 0), <<>>, <<exitWith("xstatus")>>),
     open("fd", <<"echo-ok">>, {}), Returns(read("fd", 1), 1), May(unlink(<<"echo-ok">>)),
     see({ <<"OK">> }), exit(0) >>

\* cc doubles until a read takes all there is.
pipe1 ==
  LET part(i) == [k \in 1 .. 3 |-> ToString(3 * (i - 1) + k)]
      all == part(1) \o part(2)
  IN << pipe("r", "w"),
        fork("pid", <<close("r")>> \o For(2, LAMBDA i : <<write("w", part(i))>>) \o <<exit(0)>>),
        close("w"), Drain("r", 1), see({all}), close("r"), wait("", "xstatus"), exitWith("xstatus") >>

killstatus ==
  For(2, LAMBDA i : << fork("pid1", << While(getpid(""), <<>>) >>), sleep(1), kill("pid1"),
                       wait("", "xst"), Is("xst", -1) >>) \o <<exit(0)>>

preempt ==
  LET spin == << While(getpid(""), <<>>) >>
  IN << fork("pid1", spin), May(pipe("r", "w")),
        fork("pid3", << close("r"), May(write("w", <<"x">>)), close("w") >> \o spin),
        close("w"), If(Returns(read("r", 32), 1), <<>>, <<exit(0)>>), close("r"),
        kill("pid1"), kill("pid3"), wait("", ""), wait("", "") >>

\* The child that is waited for is the one that was forked.
exitwait ==
  For(2, LAMBDA i : << fork("pid", <<exit(i)>>), [wait("w", "xstate") EXCEPT !.must = TRUE],
                       Is("xstate", i) >>)

reparent ==
  << getpid("master_pid") >>
  \o For(2, LAMBDA i :
       << fork("pid", << If(forkBoth("pid2"), <<>>, <<kill("master_pid"), exit(1)>>), exit(0) >>),
          [wait("w", "") EXCEPT !.must = TRUE] >>)
  \o << exit(0) >>

twochildren ==
  For(2, LAMBDA i : << fork("pid1", <<exit(0)>>), fork("pid2", <<exit(0)>>), wait("", ""), wait("", "") >>)

forkfork ==
  Several(2, LAMBDA i : << fork("pid1", <<exit(0)>>), wait("", ""), exit(0) >>)

\* The test is given a heap, so that fork() fails for want of memory soon.
forkforkfork ==
  LET stop == << May(open("fd", <<"stopforking">>, create)), close("fd") >>
      loop == [open("fd", <<"stopforking">>, {}) EXCEPT
                 !.must = FALSE, !.want = <<-1, -1>>, !.again = TRUE, !.else = <<exit(0)>>,
                 !.then = << If(forkBoth("pid1"), <<>>, stop) >>]
  IN << sbrk("", 3 * PGSIZE), May(unlink(<<"stopforking">>)), fork("pid", <<loop>>), sleep(20) >>
     \o stop \o << wait("", ""), sleep(10) >>

reparent2 ==
  For(1, LAMBDA i : << fork("pid1", << May(forkBoth("")), May(forkBoth("")), exit(0) >>), wait("", "") >>)
  \o <<exit(0)>>

\* malloc() by the sbrk() it needs; what it is given must be memory.
mem ==
  << fork("pid", << While(sbrk("m", 2 * PGSIZE), << store(At("m", 0)) >>), exit(0) >>),
     wait("", "xstatus"), If(Is("xstatus", -1), <<exit(0)>>, <<exitWith("xstatus")>>) >>

Mixed == {s \in [1 .. 4 -> {"c", "p"}] : Cardinality({k \in 1 .. 4 : s[k] = "c"}) = 2}
sharedfd ==
  LET writes(c) == For(2, LAMBDA i : << write("fd", <<c>>) >>)
  IN << May(unlink(<<"sharedfd">>)), open("fd", <<"sharedfd">>, create),
        fork("pid", writes("c") \o <<exit(0)>>) >> \o writes("p")
     \o << wait("", "xstatus"), If(Is("xstatus", 0), <<>>, <<exitWith("xstatus")>>), close("fd"),
           open("fd", <<"sharedfd">>, {}), Drain("fd", 1), close("fd"), May(unlink(<<"sharedfd">>)),
           see(Mixed), exit(0) >>

fourfiles ==
  LET name(i) == << "f" \o ToString(i) >>
  IN For(2, LAMBDA i : << May(unlink(name(i))),
         fork("pid", << open("fd", name(i), create) >>
                     \o For(2, LAMBDA k : << write("fd", Bytes(ToString(i), 3)) >>) \o <<exit(0)>>) >>)
     \o For(2, LAMBDA i : << wait("", "xstatus"), If(Is("xstatus", 0), <<>>, <<exitWith("xstatus")>>) >>)
     \o For(2, LAMBDA i : << May(open("fd", name(i), {})), Drain("fd", 4),
                             see({Bytes(ToString(i), 6)}), close("fd"), May(unlink(name(i))) >>)

createdelete ==
  LET name(pi, i) == << "p" \o ToString(pi) \o ToString(i) >>
      file(pi, i) == << open("fd", name(pi, i), create), close("fd") >>
      child(pi) == file(pi, 0) \o file(pi, 1) \o file(pi, 2) \o << unlink(name(pi, 1)), exit(0) >>
  IN Several(2, child)
     \o For(2, LAMBDA pi : << open("fd", name(pi, 0), {}), close("fd"), Fails(open("fd", name(pi, 1), {})),
                              open("fd", name(pi, 2), {}), close("fd") >>)
     \o For(2, LAMBDA pi : << May(unlink(name(pi, 0))), May(unlink(name(pi, 2))) >>)

unlinkread ==
  << open("fd", <<"unlinkread">>, create), May(write("fd", <<"h", "e", "l", "o">>)), close("fd"),
     open("fd", <<"unlinkread">>, {"rdwr"}), unlink(<<"unlinkread">>),
     May(open("fd1", <<"unlinkread">>, create)), May(write("fd1", Bytes("y", 3))), close("fd1"),
     Returns(read("fd", 32), 4), see({ <<"h", "e", "l", "o">> }),
     write("fd", Bytes("h", 6)), close("fd"), May(unlink(<<"unlinkread">>)) >>

linktest ==
  << May(unlink(<<"lf1">>)), May(unlink(<<"lf2">>)), open("fd", <<"lf1">>, create),
     write("fd", <<"h", "e", "l", "o">>), close("fd"), link(<<"lf1">>, <<"lf2">>), May(unlink(<<"lf1">>)),
     Fails(open("fd", <<"lf1">>, {})), open("fd", <<"lf2">>, {}), Returns(read("fd", 32), 4), close("fd"),
     Fails(link(<<"lf2">>, <<"lf2">>)), May(unlink(<<"lf2">>)), Fails(link(<<"lf2">>, <<"lf1">>)),
     Fails(link(<<".">>, <<"lf1">>)) >>

\* Parent and child both make the file, one way or another; then one of them
\* opens it while the other takes it away.
concreate ==
  LET file(i) == << "C" \o ToString(i) >>
      makes(i) == << open("fd", file(i), create), close("fd") >>
      links(i) == << May(link(file(0), file(i))) >>
      both(i) == IF i % 3 = 1 THEN << fork("pid", links(i) \o <<exit(0)>>) >> \o links(i)
                 ELSE << fork("pid", makes(i) \o <<exit(0)>>) >> \o makes(i)
      round(i) == << May(unlink(file(i))) >> \o both(i) \o << wait("", "xstatus"), Is("xstatus", 0) >>
      opens(i) == << May(open("fd", file(i), {})), close("fd") >>
      unlinks(i) == << May(unlink(file(i))), May(unlink(file(i))) >>
      child(i) == IF i % 3 = 0 THEN opens(i) ELSE unlinks(i)
      parent(i) == IF i % 3 = 1 THEN opens(i) ELSE unlinks(i)
  IN For(3, LAMBDA i : round(i - 1))
     \o << May(open("fd", <<".">>, {})), Drain("fd", 1), close("fd"),
           holds(<<"C0", "C1", "C2">>) >>
     \o For(3, LAMBDA i : << fork("pid", child(i - 1) \o <<exit(0)>>) >> \o parent(i - 1) \o << wait("", "") >>)

\* What x % 3 comes to, from 1 in the parent and 97 in the child.
linkunlink ==
  LET creates == << May(open("fd", <<"x">>, create)), close("fd") >>
      links == << May(link(<<"echo">>, <<"x">>)) >>
      unlinks == << May(unlink(<<"x">>)) >>
  IN unlinks \o << fork("pid", creates \o links \o links \o creates \o links \o <<exit(0)>>) >>
     \o creates \o unlinks \o links \o creates \o creates \o unlinks \o << wait("", "") >>
     \o unlinks

subdir ==
  LET dd == <<"dd">>  ff == <<"dd", "ff">>  xx == <<"dd", "xx", "ff">>  fff == <<"dd", "ff", "ff">>
      ddd == <<"dd", "dd">>  ddff == <<"dd", "dd", "ff">>  ffff == <<"dd", "dd", "ffff">>
      Gone(p) == Fails(open("fd", p, {}))
  IN << May(unlink(<<"ff">>)), mkdir(dd), open("fd", ff, create), May(write("fd", <<"f", "f">>)), close("fd"),
        Fails(unlink(dd)), mkdir(<<"/", "dd", "dd">>), open("fd", ddff, create),
        May(write("fd", <<"F", "F">>)), close("fd"),
        open("fd", <<"dd", "dd", "..", "ff">>, {}), Returns(read("fd", 32), 2), see({<<"f", "f">>}), close("fd"),
        link(ddff, ffff), unlink(ddff), Gone(ddff), chdir(dd), chdir(<<"dd", "..", "..", "dd">>),
        chdir(<<"dd", "..", "..", "..", "dd">>), chdir(<<".", "..">>),
        open("fd", ffff, {}), Returns(read("fd", 32), 2), close("fd"), Gone(ddff),
        Fails(open("fd", fff, create)), Fails(open("fd", xx, create)), Fails(open("fd", dd, {"create"})),
        Fails(open("fd", dd, {"rdwr"})), Fails(open("fd", dd, {"wronly"})),
        Fails(link(fff, <<"dd", "dd", "xx">>)), Fails(link(xx, <<"dd", "dd", "xx">>)), Fails(link(ff, ffff)),
        Fails(mkdir(fff)), Fails(mkdir(xx)), Fails(mkdir(ffff)), Fails(unlink(xx)), Fails(unlink(fff)),
        Fails(chdir(ff)), Fails(chdir(<<"dd", "xx">>)),
        unlink(ffff), unlink(ff), Fails(unlink(dd)), unlink(ddd), unlink(dd) >>

bigwrite ==
  << May(unlink(<<"bigwrite">>)) >>
  \o For(3, LAMBDA i :
       << open("fd", <<"bigwrite">>, create), write("fd", Bytes("x", 2 * i)), write("fd", Bytes("x", 2 * i)),
          close("fd"), May(unlink(<<"bigwrite">>)) >>)

bigfile ==
  << May(unlink(<<"bigfile.dat">>)), open("fd", <<"bigfile.dat">>, create) >>
  \o For(3, LAMBDA i : << write("fd", Bytes(ToString(i), 4)) >>)
  \o << close("fd"), open("fd", <<"bigfile.dat">>, {}) >>
  \o For(6, LAMBDA i : << Returns(read("fd", 2), 2), see({Bytes(ToString((i + 1) \div 2), 2)}) >>)
  \o << Returns(read("fd", 2), 0), close("fd"), May(unlink(<<"bigfile.dat">>)) >>

fourteen ==
  LET a == "12345678901234"  b == "123456789012345"
  IN << mkdir(<<a>>), mkdir(<<a, b>>), open("fd", <<b, b, b>>, {"create"}), close("fd"),
        open("fd", <<a, a, a>>, {}), close("fd"), Fails(mkdir(<<a, a>>)), Fails(mkdir(<<b, a>>)),
        May(unlink(<<b, a>>)), May(unlink(<<a, a>>)), May(unlink(<<a, a, a>>)),
        May(unlink(<<b, b, b>>)), May(unlink(<<a, b>>)), May(unlink(<<a>>)) >>

rmdot ==
  << mkdir(<<"dots">>), chdir(<<"dots">>), Fails(unlink(<<".">>)), Fails(unlink(<<"..">>)), chdir(<<"/">>),
     Fails(unlink(<<"dots", ".">>)), Fails(unlink(<<"dots", "..">>)), unlink(<<"dots">>) >>

dirfile ==
  << open("fd", <<"dirfile">>, {"create"}), close("fd"), Fails(chdir(<<"dirfile">>)),
     Fails(open("fd", <<"dirfile", "xx">>, {})), Fails(open("fd", <<"dirfile", "xx">>, {"create"})),
     Fails(mkdir(<<"dirfile", "xx">>)), Fails(unlink(<<"dirfile", "xx">>)),
     Fails(link(<<"README">>, <<"dirfile", "xx">>)), unlink(<<"dirfile">>),
     Fails(open("fd", <<".">>, {"rdwr"})), May(open("fd", <<".">>, {})), Refused(write("fd", <<"x">>)),
     close("fd") >>

iref ==
  For(3, LAMBDA i : << mkdir(<<"irefd">>), chdir(<<"irefd">>), May(mkdir(<<>>)), May(link(<<"README">>, <<>>)),
                       If(open("fd", <<>>, {"create"}), <<close("fd")>>, <<>>),
                       If(open("fd", <<"xx">>, {"create"}), <<close("fd")>>, <<>>), May(unlink(<<"xx">>)) >>)
  \o For(3, LAMBDA i : << May(chdir(<<"..">>)), May(unlink(<<"irefd">>)) >>) \o << May(chdir(<<"/">>)) >>

\* fork() until it fails, and as many wait()s: init, the driver and the test
\* have three entries of the table.
forktest ==
  For(NPROC - 3, LAMBDA n : << fork("pid", <<exit(0)>>) >>) \o << Fails(fork("pid", <<exit(0)>>)) >>
  \o For(NPROC - 3, LAMBDA n : << [wait("", "") EXCEPT !.must = TRUE] >>) \o << Fails(wait("", "")) >>

Killed(code) == << fork("pid", code \o <<exit(1)>>), wait("", "xstatus"), Is("xstatus", -1) >>
TOOMUCH == 1000
sbrkbasic ==
  << fork("pid", << Fails(sbrk("a", TOOMUCH)), exit(0) >>), wait("", "xstatus"),
     If(Is("xstatus", 1), <<exit(1)>>, <<>>) >>
  \o For(3, LAMBDA i : << Returns(sbrk("b", 1), 4 * PGSIZE + i - 1), store(At("b", 0)) >>)
  \o << forkBoth("pid"), May(sbrk("c", 1)), Returns(sbrk("c", 1), 4 * PGSIZE + 4),
        If(Is("pid", 0), <<exit(0)>>, <<>>), wait("", "xstatus"), exitWith("xstatus") >>

sbrkmuch ==
  LET old == 4 * PGSIZE  big == 9 * PGSIZE
  IN << Returns(sbrk("a", big - old), old) >>
     \o For(5, LAMBDA i : << store(At("a", (i - 1) * PGSIZE)) >>)
     \o << sbrk("c", -PGSIZE), Returns(sbrk("c", 0), big - PGSIZE),
           Returns(sbrk("c", PGSIZE), big - PGSIZE), Returns(sbrk("c", 0), big),
           load(At("c", -1)), Returns(sbrk("c", old - big), big) >>

kernmem == Killed(<< load(Nowhere) >>)
MAXVAplus == Killed(<< store(Nowhere) >>)

sbrkfail ==
  LET BIG == 12 * PGSIZE
      hog == << May(sbrk("", BIG)), May(write("w", <<"x">>)), While(sleep(1000), <<>>) >>
      child(i) == "pid" \o ToString(i)
  IN << pipe("r", "w") >>
     \o For(3, LAMBDA i : << If(fork(child(i), hog), <<May(read("r", 1))>>, <<>>) >>)
     \o << May(sbrk("c", PGSIZE)) >>
     \o For(3, LAMBDA i : << If([value(child(i)) EXCEPT !.want = <<1, Enough>>],
                                <<kill(child(i)), wait("", "")>>, <<>>) >>)
     \o << value("c"), fork("pid", << sbrk("a", 0), May(sbrk("", TOOMUCH)), load(At("a", PGSIZE)), exit(1) >>),
           wait("", "xstatus"), Is("xstatus", -1) >>

sbrkarg ==
  << May(sbrk("a", PGSIZE)), open("fd", <<"sbrk">>, createW), May(unlink(<<"sbrk">>)),
     From(write("fd", Bytes("x", PGSIZE)), At("a", 0)), close("fd"),
     May(sbrk("a", PGSIZE)), From(pipe("r", "w"), At("a", 0)) >>

\* A pointer for each page: some are strings, some are not.
validatetest == << Fails(link(<<"nosuchfile">>, NoString)), Fails(link(<<"nosuchfile">>, <<"x">>)),
                   Fails(link(<<"nosuchfile">>, <<>>)) >>

bigargtest ==
  << May(unlink(<<"bigarg-ok">>)),
     fork("pid", << May(exec(<<"echo">>, <<"half", "half">>)), May(open("fd", <<"bigarg-ok">>, {"create"})),
                    close("fd"), exit(0) >>),
     wait("", "xstatus"), If(Is("xstatus", 0), <<>>, <<exitWith("xstatus")>>),
     open("fd", <<"bigarg-ok">>, {}), close("fd") >>

\* Not one of the tests that are run: a file, then blocks until none is left.
fsfull ==
  LET name(i) == << "f" \o ToString(i) >>
      fill == While(write("fd", <<"x", "x">>), <<>>)
  IN For(3, LAMBDA i : << May(open("fd", name(i), create)), fill, close("fd") >>)
     \o For(3, LAMBDA i : << May(unlink(name(i))) >>)

argptest ==
  << open("fd", <<"echo">>, {}), May(sbrk("top", 0)), May(From(read("fd", Enough), At("top", -1))),
     close("fd") >>

\* A page below the stack is the guard; page 0 is text.
Survives(code) ==
  << fork("pid", code \o <<exit(1)>>), wait("", "xstatus"),
     If(Is("xstatus", -1), <<exit(0)>>, <<exitWith("xstatus")>>) >>
stacktest == Survives(<< load(At("stack", -1)) >>)
textwrite == Survives(<< store(At("null", 0)) >>)

pgbug == << May(exec(NoString, <<>>)), May(From(pipe("r", "w"), Nowhere)), exit(0) >>

sbrkbugs ==
  LET sz == 4 * PGSIZE
  IN << fork("pid", << May(sbrk("", -sz)), exit(0) >>), wait("", ""),
        fork("pid", << May(sbrk("", 1 - sz)), exit(0) >>), wait("", ""),
        fork("pid", << May(sbrk("", PGSIZE + 1)), May(sbrk("", -1)), exit(0) >>), wait("", ""), exit(0) >>

sbrklast ==
  << May(sbrk("", PGSIZE)), May(sbrk("", 1)), May(sbrk("", -PGSIZE)), May(sbrk("top", 0)),
     store(At("top", -1)), May(open("fd", <<"x">>, create)), May(From(write("fd", <<"x">>), At("top", -1))),
     close("fd"), May(open("fd", <<"x">>, {"rdwr"})), May(From(read("fd", 1), At("top", -1))),
     see({<<"x">>}) >>

sbrk8000 == << May(sbrk("", -TOOMUCH)), May(sbrk("top", 0)), load(At("top", -1)), store(At("top", -1)) >>

badarg == For(NPROC, LAMBDA i : << May(exec(<<"echo">>, <<"nowhere">>)) >>) \o <<exit(0)>>

(* The tests that take time. *)
bigdir ==
  LET name(i) == << "x" \o ToString(i) >>
  IN << May(unlink(<<"bd">>)), open("fd", <<"bd">>, {"create"}), close("fd") >>
     \o For(5, LAMBDA i : << link(<<"bd">>, name(i)) >>) \o << May(unlink(<<"bd">>)) >>
     \o For(5, LAMBDA i : << unlink(name(i)) >>)

manywrites ==
  LET name(ci) == << "b" \o ToString(ci) >>
      child(ci) == << May(unlink(name(ci))) >>
                   \o For(ci, LAMBDA i : << open("fd", name(ci), create), write("fd", Bytes("x", 6)), close("fd") >>)
                   \o << May(unlink(name(ci))), exit(0) >>
  IN Several(2, child) \o <<exit(0)>>

badwrite ==
  << May(unlink(<<"junk">>)) >>
  \o For(NBLOCKS, LAMBDA i : << open("fd", <<"junk">>, createW), May(From(write("fd", <<"x">>), Nowhere)),
                                close("fd"), May(unlink(<<"junk">>)) >>)
  \o << open("fd", <<"junk">>, createW), write("fd", <<"x">>), close("fd"), May(unlink(<<"junk">>)), exit(0) >>

execout ==
  For(5, LAMBDA avail :
    << fork("pid", << While(sbrk("a", PGSIZE), << store(At("a", PGSIZE - 1)) >>) >>
                   \o For(2 * avail - 2, LAMBDA i : << May(sbrk("", -PGSIZE)) >>)
                   \o << close("1"), May(exec(<<"echo">>, <<"echo", "x">>)), exit(0) >>),
       wait("", "") >>) \o <<exit(0)>>

diskfull ==
  LET big(i) == << "big" \o ToString(i) >>
      zz(i) == << "zz" \o ToString(i) >>
      fill == While(write("fd", <<"x", "x">>), <<>>)
      makes(p) == << May(unlink(p)), May(open("fd", p, {"create", "rdwr", "trunc"})) >>
  IN << May(unlink(<<"diskfulldir">>)) >>
     \o For(2, LAMBDA i : makes(big(i)) \o << fill, close("fd") >>)
     \o For(3, LAMBDA i : makes(zz(i)) \o << close("fd") >>)
     \o << May(mkdir(<<"diskfulldir">>)), May(unlink(<<"diskfulldir">>)) >>
     \o For(3, LAMBDA i : << May(unlink(zz(i))) >>) \o For(2, LAMBDA i : << May(unlink(big(i))) >>)

outofinodes ==
  LET zz(i) == << "zz" \o ToString(i) >>
  IN For(NINODE - 4, LAMBDA i : << May(unlink(zz(i))), May(open("fd", zz(i), create)), close("fd") >>)
     \o For(NINODE - 4, LAMBDA i : << May(unlink(zz(i))) >>)

(* The table of the tests.                                                 *)
quicktests ==
  [copyin |-> copyin, copyout |-> copyout, copyinstr1 |-> copyinstr1,
   copyinstr2 |-> copyinstr2, copyinstr3 |-> copyinstr3, rwsbrk |-> rwsbrk,
   truncate1 |-> truncate1, truncate2 |-> truncate2, truncate3 |-> truncate3,
   iputtest |-> iputtest, exitiputtest |-> exitiputtest, openiputtest |-> openiputtest,
   opentest |-> opentest, writetest |-> writetest, writebig |-> writebig,
   createtest |-> createtest, dirtest |-> dirtest, exectest |-> exectest, pipe1 |-> pipe1,
   killstatus |-> killstatus, preempt |-> preempt, exitwait |-> exitwait,
   reparent |-> reparent, twochildren |-> twochildren, forkfork |-> forkfork,
   forkforkfork |-> forkforkfork, reparent2 |-> reparent2, mem |-> mem,
   sharedfd |-> sharedfd, fourfiles |-> fourfiles, createdelete |-> createdelete,
   unlinkread |-> unlinkread, linktest |-> linktest, concreate |-> concreate,
   linkunlink |-> linkunlink, subdir |-> subdir, bigwrite |-> bigwrite,
   bigfile |-> bigfile, fourteen |-> fourteen, rmdot |-> rmdot, dirfile |-> dirfile,
   iref |-> iref, forktest |-> forktest, sbrkbasic |-> sbrkbasic, sbrkmuch |-> sbrkmuch,
   kernmem |-> kernmem, MAXVAplus |-> MAXVAplus, sbrkfail |-> sbrkfail,
   sbrkarg |-> sbrkarg, validatetest |-> validatetest, bigargtest |-> bigargtest,
   argptest |-> argptest, stacktest |-> stacktest,
   textwrite |-> textwrite, pgbug |-> pgbug, sbrkbugs |-> sbrkbugs, sbrklast |-> sbrklast,
   sbrk8000 |-> sbrk8000, badarg |-> badarg]
slowtests ==
  [bigdir |-> bigdir, manywrites |-> manywrites, badwrite |-> badwrite,
   execout |-> execout, diskfull |-> diskfull, outofinodes |-> outofinodes]

(* The driver: count the free pages, run a test, count again.  The child that *)
(* counts takes pages until there are none, and says so for each.             *)
countfree(n) ==
  << pipe("r", "w"),
     fork("pid", << close("r"), While(sbrk("a", PGSIZE), << store(At("a", PGSIZE - 1)), write("w", <<"x">>) >>),
                    exit(0) >>),
     close("w"), Drain("r", 1), close("r"), wait("", ""), see({Bytes("x", n)}) >>
\* run() and drivetests(), for one test and the n pages there should be.
drivetests(n, test) == countfree(n) \o Forked(test) \o countfree(n)
=============================================================================
