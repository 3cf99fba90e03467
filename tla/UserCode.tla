------------------------------ MODULE UserCode ------------------------------
(* How the models write a C program that runs over xv6's system calls: a     *)
(* sequence of statements, one per system call.  A statement says what is    *)
(* called, with which arguments, which results the program takes for good,   *)
(* and what it does next in either case.  The loops, the tests of a result   *)
(* and the exits of user/*.c are all written with the few forms below;       *)
(* SystemCalls gives each call its meaning.                                  *)
EXTENDS Integers, Sequences, SequencesExt

CONSTANTS PGSIZE, BSIZE, NDIRECT, NINDIRECT, NBLOCKS, NINODE, NPROC, NOFILE

MAXFILE == NDIRECT + NINDIRECT                          \* in blocks
Enough == 99                                            \* no result is larger

\* A place in the memory of the process: what a variable holds, plus a number.
At(v, k) == [var |-> v, plus |-> k]

\* A statement with nothing filled in.  If the result lies within "want" the
\* program goes on with "then" (and, in a loop, comes again); if not it leaves
\* with exit(1) when it "must" succeed and goes on with "else" when it need not.
Call == [call |-> "", path |-> <<>>, new |-> <<>>, mode |-> {}, fd |-> "",
         to |-> "", also |-> "", n |-> 0, data |-> <<>>, addr |-> At("stack", 0),
         child |-> <<>>, argv |-> <<>>, done |-> 0,
         want |-> <<0, Enough>>, must |-> TRUE, then |-> <<>>, else |-> <<>>,
         again |-> FALSE]

open(v, p, m)   == [Call EXCEPT !.call = "open", !.to = v, !.path = p, !.mode = m]
close(f)        == [Call EXCEPT !.call = "close", !.fd = f, !.must = FALSE]
dup(v, f)       == [Call EXCEPT !.call = "dup", !.to = v, !.fd = f]
pipe(v, w)      == [Call EXCEPT !.call = "pipe", !.to = v, !.also = w]
fstat(f)        == [Call EXCEPT !.call = "fstat", !.fd = f]
link(p, q)      == [Call EXCEPT !.call = "link", !.path = p, !.new = q]
unlink(p)       == [Call EXCEPT !.call = "unlink", !.path = p]
mkdir(p)        == [Call EXCEPT !.call = "mkdir", !.path = p]
mknod(p, n)     == [Call EXCEPT !.call = "mknod", !.path = p, !.n = n]
chdir(p)        == [Call EXCEPT !.call = "chdir", !.path = p]
exec(p, a)      == [Call EXCEPT !.call = "exec", !.path = p, !.argv = a]
fork(v, c)      == [Call EXCEPT !.call = "fork", !.to = v, !.child = c, !.want = <<1, Enough>>]
\* Both go on with what follows, as in C; v tells them apart.
forkBoth(v)     == [Call EXCEPT !.call = "fork", !.to = v, !.mode = {"both"}, !.want = <<0, Enough>>]
exit(n)         == [Call EXCEPT !.call = "exit", !.n = n]
exitWith(v)     == [Call EXCEPT !.call = "exit", !.fd = v]
wait(v, w)      == [Call EXCEPT !.call = "wait", !.to = v, !.also = w, !.must = FALSE]
kill(v)         == [Call EXCEPT !.call = "kill", !.fd = v, !.must = FALSE]
sbrk(v, n)      == [Call EXCEPT !.call = "sbrk", !.to = v, !.n = n]
getpid(v)       == [Call EXCEPT !.call = "getpid", !.to = v]
sleep(n)        == [Call EXCEPT !.call = "sleep", !.n = n]

\* read() leaves the bytes in the program's buffer; more() adds them to what
\* it holds, for the programs that gather a stream.
read(f, n)      == [Call EXCEPT !.call = "read", !.fd = f, !.n = n]
more(s)         == [s EXCEPT !.mode = {"more"}]
write(f, d)     == [Call EXCEPT !.call = "write", !.fd = f, !.data = d,
                                !.want = <<Len(d), Len(d)>>]

\* gets() reads up to the end of a line; send() writes what the buffer holds.
gets(f)         == [read(f, Enough) EXCEPT !.mode = {"line"}, !.want = <<1, Enough>>]
send(f)         == [Call EXCEPT !.call = "write", !.fd = f, !.mode = {"buffer"}, !.want = <<1, Enough>>]

\* What a program does without a call: a store to its memory or a load from
\* it, a look at what it has read (0 if that is one of "ok", or has an
\* entry for each of "names"; the buffer is free again), the setting or
\* comparison of a variable, one of several ways to go on, and the line in the
\* buffer taken as a command.
store(a)        == [Call EXCEPT !.call = "store", !.addr = a]
load(a)         == [Call EXCEPT !.call = "load", !.addr = a]
see(ok)         == [Call EXCEPT !.call = "see", !.mode = ok]
holds(names)    == [Call EXCEPT !.call = "holds", !.path = names]
value(v)        == [Call EXCEPT !.call = "value", !.fd = v]
same(v, w)      == [value(v) EXCEPT !.also = w, !.want = <<0, 0>>]
let(v, k)       == [Call EXCEPT !.call = "value", !.to = v, !.n = k, !.want = <<k, k>>]
pick(codes)     == [Call EXCEPT !.call = "pick", !.mode = codes]
runline         == [Call EXCEPT !.call = "runline"]

create == {"create", "rdwr"}                           \* O_CREATE|O_RDWR

(* What the program makes of a result. *)
Returns(s, r)    == [s EXCEPT !.want = <<r, r>>]
Fails(s)         == Returns(s, -1)
Refused(s)       == [s EXCEPT !.want = <<-1, 0>>]
May(s)           == [s EXCEPT !.must = FALSE]
If(s, a, b)      == [s EXCEPT !.must = FALSE, !.then = a, !.else = b]
While(s, body)   == [s EXCEPT !.must = FALSE, !.then = body, !.again = TRUE]
From(s, a)       == [s EXCEPT !.addr = a]
Is(v, k)         == Returns(value(v), k)

(* for(i = 1; i <= n; i++), with the few rounds a model takes. *)
For(n, body(_)) == FlattenSeq([i \in 1 .. n |-> body(i)])

Bytes(c, n) == [i \in 1 .. n |-> c]

\* A string that is not one, and a place no process has.
NoString == << "no string" >>
Nowhere == At("null", 1000)
\* while(read(f, buf, n) > 0) ;
Drain(f, n) == While([more(read(f, n)) EXCEPT !.want = <<1, Enough>>], <<>>)
=============================================================================
