------------------------------ MODULE XvConsole ------------------------------
(***************************************************************************)
(* The console of the xv6 kernel (kernel/console.c) and its UART driver    *)
(* (kernel/uart.c): processes read lines and write characters, the device  *)
(* receives keys and sends what it is given, and its interrupts are served *)
(* by one CPU at a time.                                                   *)
(*                                                                         *)
(* An action is a step with cons.lock or uart_tx_lock held, or one of the  *)
(* device.  A process that reads or writes and the interrupt handler are   *)
(* the same kind of actor, for both run uartstart().  The counters wrap as *)
(* C's unsigned integers do, here at Span.                                 *)
(***************************************************************************)
EXTENDS Integers, Sequences, FiniteSets

CONSTANTS Callers, Handler,   \* processes, and the CPU that serves interrupts
          INPUT_BUF_SIZE, UART_TX_BUF_SIZE, Span,
          Output,             \* the characters that processes write
          FirstCount,         \* where the counters begin: 0 when the kernel boots,
                              \* more when as many characters have passed
          MaxN,               \* characters in a call of read() or write()
          MaxKeys, MaxUses    \* bounds for TLC

Unlocked == "nobody"

ASSUME ConsoleAssumption ==
  /\ Handler \notin Callers /\ Unlocked \notin Callers \cup {Handler}
  /\ {INPUT_BUF_SIZE, UART_TX_BUF_SIZE, Span, MaxN} \subseteq Nat \ {0}
  /\ FirstCount \in 0 .. Span - 1 /\ MaxKeys \in Nat /\ MaxUses \in Nat
  /\ \A size \in {INPUT_BUF_SIZE, UART_TX_BUF_SIZE} : Span > size /\ Span % size = 0

Letter == "x"
Enders == {"newline", "eof"}
Keys   == Enders \cup {Letter, "erase", "kill line"}
NoKey  == "no key"
Actors == Callers \cup {Handler}

VARIABLES
  buf, r, w, e, consLock,       \* cons
  txBuf, txW, txR, txLock,      \* uart_tx_buf and its counters
  busy, rx, raised,             \* device: transmitting, received, interrupt raised
  stage, n, got, key,           \* of an actor: where it is; characters wanted and
                                \* read; the key the handler serves
  killed,                       \* p->killed
  keys, uses                    \* the counters of the bounds

cons        == <<buf, r, w, e, consLock>>
uart        == <<txBuf, txW, txR, txLock>>
chip        == <<busy, rx, raised>>
actor       == <<stage, n, got, key, killed>>
bounds      == <<keys, uses>>
consoleVars == <<cons, uart, chip, actor, bounds>>

ConsoleInit ==
  /\ buf = [k \in 0 .. INPUT_BUF_SIZE - 1 |-> NoKey]
  /\ r = FirstCount /\ w = FirstCount /\ e = FirstCount
  /\ consLock = Unlocked
  /\ txBuf = [k \in 0 .. UART_TX_BUF_SIZE - 1 |-> NoKey]
  /\ txW = FirstCount /\ txR = FirstCount /\ txLock = Unlocked
  /\ busy = FALSE /\ rx = NoKey /\ raised = FALSE
  /\ stage = [a \in Actors |-> "idle"] /\ n = [p \in Callers |-> 0] /\ got = [p \in Callers |-> 0]
  /\ key = NoKey /\ killed = [p \in Callers |-> FALSE]
  /\ keys = 0 /\ uses = 0

-----------------------------------------------------------------------------
IsAt(a, s) == stage[a] = s
Moves(a, s) == stage' = [stage EXCEPT ![a] = s]
Awakens(s, a, t) ==
  stage' = [b \in Actors |-> CASE b = a -> t
                               [] stage[b] = "readSleep" /\ s = "readSleep" -> "readLock"
                               [] stage[b] = "putSleep" /\ s = "putSleep" -> "putLock"
                               [] OTHER -> stage[b]]

Advance(k) == (k + 1) % Span
Retreat(k) == (k + Span - 1) % Span
Between(i, j) == (j - i) % Span

\* A process calls read() or write() on the console.
Call(p, s) ==
  /\ IsAt(p, "idle") /\ ~ killed[p] /\ uses < MaxUses /\ uses' = uses + 1
  /\ \E k \in 1 .. MaxN : n' = [n EXCEPT ![p] = k]
  /\ Moves(p, s)
  /\ UNCHANGED <<cons, uart, chip, got, key, killed, keys>>

KillCaller(p) ==
  /\ ~ killed[p] /\ uses < MaxUses /\ uses' = uses + 1
  /\ killed' = [killed EXCEPT ![p] = TRUE]
  /\ Moves(p, CASE stage[p] = "readSleep" -> "readLock"
               [] stage[p] = "putSleep" -> "putLock"
               [] OTHER -> stage[p])
  /\ UNCHANGED <<cons, uart, chip, n, got, key, keys>>

AcquireCons(a, s, t) ==
  /\ IsAt(a, s) /\ consLock = Unlocked
  /\ consLock' = a /\ Moves(a, t)
  /\ UNCHANGED <<buf, r, w, e, uart, chip, n, got, key, killed, bounds>>

AcquireTx(a, s, t) ==
  /\ IsAt(a, s) /\ txLock = Unlocked
  /\ txLock' = a /\ Moves(a, t)
  /\ UNCHANGED <<cons, txBuf, txW, txR, chip, n, got, key, killed, bounds>>

-----------------------------------------------------------------------------
(***************************************************************************)
(* consoleread()                                                           *)
(***************************************************************************)
ReadReturns(p) ==
  /\ consLock' = Unlocked /\ Moves(p, "idle")
  /\ n' = [n EXCEPT ![p] = 0] /\ got' = [got EXCEPT ![p] = 0]

\* Nothing to read: the process is to die, or sleeps.
ReadWaits(p) ==
  /\ IsAt(p, "read") /\ n[p] > 0 /\ r = w
  /\ IF killed[p]
       THEN ReadReturns(p)
       ELSE consLock' = Unlocked /\ Moves(p, "readSleep") /\ UNCHANGED <<n, got>>
  /\ UNCHANGED <<buf, r, w, e, uart, chip, key, killed, bounds>>

NextKey == buf[r % INPUT_BUF_SIZE]

\* ^D ends the call, and stays for the next one if this one has read something.
ReadEof(p) ==
  /\ IsAt(p, "read") /\ n[p] > 0 /\ r # w /\ NextKey = "eof"
  /\ r' = IF got[p] > 0 THEN r ELSE Advance(r)
  /\ ReadReturns(p)
  /\ UNCHANGED <<buf, w, e, uart, chip, key, killed, bounds>>

\* A character is taken; copying it to the process may fail, and newline is the last.
ReadKey(p) ==
  /\ IsAt(p, "read") /\ n[p] > 0 /\ r # w /\ NextKey # "eof"
  /\ r' = Advance(r)
  /\ \/ /\ NextKey # "newline"
        /\ n' = [n EXCEPT ![p] = @ - 1] /\ got' = [got EXCEPT ![p] = @ + 1]
        /\ UNCHANGED <<consLock, stage>>
     \/ ReadReturns(p)
  /\ UNCHANGED <<buf, w, e, uart, chip, key, killed, bounds>>

ReadDone(p) ==
  /\ IsAt(p, "read") /\ n[p] = 0
  /\ ReadReturns(p)
  /\ UNCHANGED <<buf, r, w, e, uart, chip, key, killed, bounds>>

-----------------------------------------------------------------------------
(***************************************************************************)
(* consolewrite(), uartputc() and uartstart()                              *)
(***************************************************************************)
\* Mutant: one character too many fits.
TxFullLate == txW = (txR + UART_TX_BUF_SIZE + 1) % Span

TxFull == txW = (txR + UART_TX_BUF_SIZE) % Span

PutWaits(p) ==
  /\ IsAt(p, "put") /\ TxFull
  /\ txLock' = Unlocked /\ Moves(p, "putSleep")
  /\ UNCHANGED <<cons, txBuf, txW, txR, chip, n, got, key, killed, bounds>>

PutChar(p) ==
  /\ IsAt(p, "put") /\ ~ TxFull
  /\ \E c \in Output : txBuf' = [txBuf EXCEPT ![txW % UART_TX_BUF_SIZE] = c]
  /\ txW' = Advance(txW) /\ Moves(p, "start")
  /\ UNCHANGED <<cons, txR, txLock, chip, n, got, key, killed, bounds>>

\* uartstart(): the device takes a character, and a writer may wait for its place.
StartSend(a) ==
  /\ IsAt(a, "start") /\ txW # txR /\ ~ busy
  /\ txR' = Advance(txR) /\ busy' = TRUE
  /\ Awakens("putSleep", a, "start")
  /\ UNCHANGED <<cons, txBuf, txW, txLock, rx, raised, n, got, key, killed, bounds>>

\* The buffer is empty or the device has enough; a process goes on with its next
\* character, which may fail to be copied from it, the handler is done.
StartReturns(a) ==
  /\ IsAt(a, "start") /\ (txW = txR \/ busy)
  /\ txLock' = Unlocked
  /\ IF a = Handler
       THEN Moves(a, "idle") /\ UNCHANGED n
       ELSE \/ n[a] > 1 /\ n' = [n EXCEPT ![a] = @ - 1] /\ Moves(a, "putLock")
            \/ n' = [n EXCEPT ![a] = 0] /\ Moves(a, "idle")
  /\ UNCHANGED <<cons, txBuf, txW, txR, chip, got, key, killed, bounds>>

-----------------------------------------------------------------------------
(***************************************************************************)
(* uartintr() and consoleintr()                                            *)
(***************************************************************************)
UartInterrupt ==
  /\ IsAt(Handler, "idle") /\ raised
  /\ raised' = FALSE /\ Moves(Handler, "getc")
  /\ UNCHANGED <<cons, uart, busy, rx, n, got, key, killed, bounds>>

Getc ==
  /\ IsAt(Handler, "getc")
  /\ key' = rx /\ rx' = NoKey
  /\ Moves(Handler, IF rx = NoKey THEN "startLock" ELSE "keyLock")
  /\ UNCHANGED <<cons, uart, busy, raised, n, got, killed, bounds>>

KeyDone == consLock' = Unlocked /\ Moves(Handler, "getc") /\ key' = NoKey

\* Mutant: input that is finished but not read can still be erased.
ErasableFinished == e # r /\ (key = "kill line" => buf[Retreat(e) % INPUT_BUF_SIZE] # "newline")

Erasable == e # w /\ (key = "kill line" => buf[Retreat(e) % INPUT_BUF_SIZE] # "newline")

\* Erase one character, and show that.
Erase ==
  /\ IsAt(Handler, "key") /\ key \in {"erase", "kill line"} /\ Erasable
  /\ e' = Retreat(e) /\ Moves(Handler, "erased")
  /\ UNCHANGED <<buf, r, w, consLock, uart, chip, n, got, key, killed, bounds>>

\* uartputc_sync() of the echo: it waits for the device, without uart_tx_lock.
Erased ==
  /\ IsAt(Handler, "erased") /\ ~ busy /\ busy' = TRUE
  /\ IF key = "kill line" THEN Moves(Handler, "key") /\ UNCHANGED <<consLock, key>> ELSE KeyDone
  /\ UNCHANGED <<buf, r, w, e, uart, rx, raised, n, got, killed, bounds>>

Room == Between(r, e) < INPUT_BUF_SIZE

\* There is nothing to erase, or no room for a key.
KeyIgnored ==
  /\ IsAt(Handler, "key")
  /\ IF key \in {"erase", "kill line"} THEN ~ Erasable ELSE ~ Room
  /\ KeyDone
  /\ UNCHANGED <<buf, r, w, e, uart, chip, n, got, killed, bounds>>

Echo ==
  /\ IsAt(Handler, "key") /\ key \in Enders \cup {Letter} /\ Room
  /\ ~ busy /\ busy' = TRUE
  /\ Moves(Handler, "store")
  /\ UNCHANGED <<cons, uart, rx, raised, n, got, key, killed, bounds>>

\* Mutant: input that is finished because no more fits wakes nobody.
StoreKeySilent ==
  /\ IsAt(Handler, "store")
  /\ buf' = [buf EXCEPT ![e % INPUT_BUF_SIZE] = key] /\ e' = Advance(e)
  /\ consLock' = Unlocked /\ key' = NoKey
  /\ IF key \in Enders \/ Between(r, Advance(e)) = INPUT_BUF_SIZE
       THEN w' = Advance(e)
       ELSE UNCHANGED w
  /\ IF key \in Enders THEN Awakens("readSleep", Handler, "getc") ELSE Moves(Handler, "getc")
  /\ UNCHANGED <<r, uart, chip, n, got, killed, bounds>>

\* A finished line is for the readers, who are woken.
StoreKey ==
  /\ IsAt(Handler, "store")
  /\ buf' = [buf EXCEPT ![e % INPUT_BUF_SIZE] = key] /\ e' = Advance(e)
  /\ consLock' = Unlocked /\ key' = NoKey
  /\ IF key \in Enders \/ Between(r, Advance(e)) = INPUT_BUF_SIZE
       THEN w' = Advance(e) /\ Awakens("readSleep", Handler, "getc")
       ELSE UNCHANGED w /\ Moves(Handler, "getc")
  /\ UNCHANGED <<r, uart, chip, n, got, killed, bounds>>

-----------------------------------------------------------------------------
(***************************************************************************)
(* The device, from how uart.c uses it                                     *)
(***************************************************************************)
Transmitted ==
  /\ busy /\ busy' = FALSE /\ raised' = TRUE
  /\ UNCHANGED <<cons, uart, rx, actor, bounds>>

Received ==
  /\ rx = NoKey /\ keys < MaxKeys /\ keys' = keys + 1
  /\ \E k \in Keys : rx' = k
  /\ raised' = TRUE
  /\ UNCHANGED <<cons, uart, busy, actor, uses>>

Caller(p) ==
  \/ AcquireCons(p, "readLock", "read")
  \/ ReadWaits(p) \/ ReadEof(p) \/ ReadKey(p) \/ ReadDone(p)
  \/ AcquireTx(p, "putLock", "put") \/ PutWaits(p) \/ PutChar(p)
  \/ StartSend(p) \/ StartReturns(p)

ServeUart ==
  \/ UartInterrupt \/ Getc
  \/ AcquireCons(Handler, "keyLock", "key")
  \/ Erase \/ Erased \/ KeyIgnored \/ Echo \/ StoreKey
  \/ AcquireTx(Handler, "startLock", "start") \/ StartSend(Handler) \/ StartReturns(Handler)

ConsoleNext ==
  \/ \E p \in Callers : Call(p, "readLock") \/ Call(p, "putLock") \/ KillCaller(p) \/ Caller(p)
  \/ ServeUart \/ Transmitted \/ Received

ConsoleSpec == ConsoleInit /\ [][ConsoleNext]_consoleVars

-----------------------------------------------------------------------------
(***************************************************************************)
(* Properties                                                              *)
(***************************************************************************)
TypeOK ==
  /\ buf \in [0 .. INPUT_BUF_SIZE - 1 -> Keys \cup {NoKey}]
  /\ txBuf \in [0 .. UART_TX_BUF_SIZE - 1 -> Output \cup {NoKey}]
  /\ {r, w, e, txW, txR} \subseteq 0 .. Span - 1
  /\ {consLock, txLock} \subseteq Actors \cup {Unlocked}
  /\ {busy, raised} \subseteq BOOLEAN /\ {rx, key} \subseteq Keys \cup {NoKey}
  /\ stage \in [Actors -> {"idle", "readLock", "read", "readSleep", "putLock", "put", "putSleep",
                        "start", "getc", "keyLock", "key", "erased", "store", "startLock"}]
  /\ n \in [Callers -> 0 .. MaxN] /\ got \in [Callers -> 0 .. MaxN]
  /\ killed \in [Callers -> BOOLEAN]

\* The part of a ring from one of its counters to another.
Part(ring, size, from, to) ==
  [k \in 1 .. Between(from, to) |-> ring[(from + k - 1) % size]]

L == INSTANCE LineInput
       WITH ready <- Part(buf, INPUT_BUF_SIZE, r, w), line <- Part(buf, INPUT_BUF_SIZE, w, e),
            Letters <- {Letter}, Capacity <- INPUT_BUF_SIZE

\* consoleintr() and consoleread() make line input of the keys, wherever the
\* three counters are when they wrap: only the line not yet finished is edited,
\* only finished input is read, and no key that found room is lost or overwritten.
IsLineInput == L!Spec

O == INSTANCE ByteQueue
       WITH queue <- Part(txBuf, UART_TX_BUF_SIZE, txR, txW), writers <- TRUE, ended <- FALSE,
            Bytes <- Output, Capacity <- UART_TX_BUF_SIZE

\* The transmit buffer is a queue: what processes write leaves in that order,
\* from whichever side of the driver uartstart() runs.
OutputInOrder == O!Spec

\* Nothing waits for somebody who will not come: with cons.lock free a reader
\* sleeps only when there is no finished input; with uart_tx_lock free a writer only
\* when the transmit buffer is full, and a character in it has somebody to send it:
\* the device is sending, has raised an interrupt, or the handler will look.
NobodyStranded ==
  /\ consLock = Unlocked => \A p \in Callers : stage[p] = "readSleep" => r = w
  /\ txLock = Unlocked => \A p \in Callers : stage[p] = "putSleep" => TxFull
  /\ txLock = Unlocked /\ txW # txR =>
       busy \/ raised \/ stage[Handler] \in {"getc", "keyLock", "key", "erased", "store", "startLock"}
=============================================================================
