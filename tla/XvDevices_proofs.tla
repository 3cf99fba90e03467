--------------------------- MODULE XvDevices_proofs ---------------------------
(***************************************************************************)
(* Proofs about the two devices of xv6 that processes share, the console   *)
(* (XvConsole) and the disk with its buffer cache (XvDisk): both are rings *)
(* of one width that a driver and a device fill and empty.                 *)
(***************************************************************************)
EXTENDS XvConsole, XvDisk, RingLemmas, FiniteSetTheorems, WellFoundedInduction

-----
\* XvConsole: whatever the number of processes, the sizes of the two
\* buffers and the width of their counters, what is read is line-edited
\* input, what is written leaves in order, and nobody sleeps, and no
\* character stays, for want of somebody to act.
Reading  == {"readLock", "read", "readSleep"}
Writing  == {"putLock", "put", "putSleep", "start"}
Serving  == {"keyLock", "key", "erased", "store"}
ConsBusy == {"read", "key", "erased", "store"}
TxBusy   == {"put", "start"}

Places == {"idle", "getc", "startLock"} \cup Reading \cup Writing \cup Serving

\* What a process does, and what the handler.
Roles ==
  /\ \A p \in Callers : stage[p] \in {"idle"} \cup Reading \cup Writing
  /\ stage[Handler] \in {"idle", "getc", "startLock", "start"} \cup Serving

\* The handler has a key in hand, and room for one it is about to store.
KeyServed ==
  /\ stage[Handler] \in Serving => key \in Keys
  /\ stage[Handler] = "store" =>
       key \in Enders \cup {Letter} /\ Ahead(Span, r, e) < INPUT_BUF_SIZE

\* read() returns no more than it was asked for.
ReadCounts ==
  \A p \in Callers : n[p] + got[p] <= MaxN /\ (stage[p] \notin Reading => got[p] = 0)

\* cons.lock and uart_tx_lock are held by the one actor inside.
Locked ==
  \A a \in Actors :
    /\ consLock = a <=> stage[a] \in ConsBusy
    /\ txLock = a <=> stage[a] \in TxBusy

\* The end of the finished input is between the reader and the editor, and no
\* buffer holds more than it has room for.
InputOutput ==
  /\ Middle(Span, r, w, e) /\ Ahead(Span, r, e) <= INPUT_BUF_SIZE
  /\ Ahead(Span, txR, txW) <= UART_TX_BUF_SIZE

\* Who sleeps has reason to.
SleepersWait ==
  \A p \in Callers : /\ stage[p] = "readSleep" => r = w
                     /\ stage[p] = "putSleep" => TxFull

\* A character to transmit has somebody who will look at it.
Sender ==
  txW # txR =>
    \/ busy \/ raised \/ stage[Handler] \in {"getc", "startLock"} \cup Serving
    \/ \E a \in Actors : stage[a] = "start"

\* The inductive invariant.
Control == Roles /\ KeyServed /\ ReadCounts /\ Locked
ConsoleInv == TypeOK /\ Control /\ InputOutput /\ SleepersWait /\ Sender

Ready == Part(buf, INPUT_BUF_SIZE, r, w)
Line  == Part(buf, INPUT_BUF_SIZE, w, e)
Out   == Part(txBuf, UART_TX_BUF_SIZE, txR, txW)

-----
LEMMA BufferSizes ==
  /\ INPUT_BUF_SIZE \in Nat \ {0} /\ UART_TX_BUF_SIZE \in Nat \ {0} /\ Span \in Nat \ {0}
  /\ INPUT_BUF_SIZE < Span /\ Span % INPUT_BUF_SIZE = 0
  /\ UART_TX_BUF_SIZE < Span /\ Span % UART_TX_BUF_SIZE = 0
  /\ MaxN \in Nat \ {0} /\ FirstCount \in 0 .. Span - 1
  /\ Handler \notin Callers /\ Unlocked \notin Actors
BY ConsoleAssumption DEF Actors

\* A part of a ring, in the terms of RingLemmas.
LEMMA Parts ==
  /\ Ready = Held(buf, INPUT_BUF_SIZE, Span, r, w)
  /\ Line = Held(buf, INPUT_BUF_SIZE, Span, w, e)
  /\ Out = Held(txBuf, UART_TX_BUF_SIZE, Span, txR, txW)
BY DEF Ready, Line, Out, Part, Held, Between, Ahead

LEMMA PartsNext ==
  /\ Ready' = Held(buf', INPUT_BUF_SIZE, Span, r', w')
  /\ Line' = Held(buf', INPUT_BUF_SIZE, Span, w', e')
  /\ Out' = Held(txBuf', UART_TX_BUF_SIZE, Span, txR', txW')
BY DEF Ready, Line, Out, Part, Held, Between, Ahead

\* Distances are distances.
LEMMA Distances ==
  ASSUME NEW from \in 0 .. Span - 1, NEW to \in 0 .. Span - 1
  PROVE  Ahead(Span, from, to) \in 0 .. Span - 1 /\ (Ahead(Span, from, to) = 0 <=> from = to)
<1>1. Ahead(Span, from, to) = Gap(Span, from, to) BY BufferSizes, Distance, Zenon
<1>2. Gap(Span, from, to) \in 0 .. Span - 1 /\ (Gap(Span, from, to) = 0 <=> from = to)
  BY BufferSizes DEF Gap
<1> QED BY <1>1, <1>2, Zenon

LEMMA HeldNothing ==
  ASSUME NEW from \in 0 .. Span - 1, NEW P, NEW ring
  PROVE  Held(ring, P, Span, from, from) = <<>>
<1>1. Ahead(Span, from, from) = 0 BY Distances
<1> QED BY <1>1 DEF Held

\* Counters in range.
LEMMA Counters ==
  ASSUME TypeOK
  PROVE  /\ r \in 0 .. Span - 1 /\ w \in 0 .. Span - 1 /\ e \in 0 .. Span - 1
         /\ txR \in 0 .. Span - 1 /\ txW \in 0 .. Span - 1
BY DEF TypeOK

LEMMA Typed ==
  TypeOK <=>
    /\ buf \in [0 .. INPUT_BUF_SIZE - 1 -> Keys \cup {NoKey}]
    /\ txBuf \in [0 .. UART_TX_BUF_SIZE - 1 -> Output \cup {NoKey}]
    /\ r \in 0 .. Span - 1 /\ w \in 0 .. Span - 1 /\ e \in 0 .. Span - 1
    /\ txR \in 0 .. Span - 1 /\ txW \in 0 .. Span - 1
    /\ consLock \in Actors \cup {Unlocked} /\ txLock \in Actors \cup {Unlocked}
    /\ busy \in BOOLEAN /\ raised \in BOOLEAN
    /\ rx \in Keys \cup {NoKey} /\ key \in Keys \cup {NoKey}
    /\ stage \in [Actors -> Places]
    /\ n \in [Callers -> 0 .. MaxN] /\ got \in [Callers -> 0 .. MaxN]
    /\ killed \in [Callers -> BOOLEAN]
<1>1. Places = {"idle", "readLock", "read", "readSleep", "putLock", "put", "putSleep",
                "start", "getc", "keyLock", "key", "erased", "store", "startLock"}
  BY DEF Places, Reading, Writing, Serving
<1> QED BY <1>1 DEF TypeOK

LEMMA TypedNext ==
  TypeOK' <=>
    /\ buf' \in [0 .. INPUT_BUF_SIZE - 1 -> Keys \cup {NoKey}]
    /\ txBuf' \in [0 .. UART_TX_BUF_SIZE - 1 -> Output \cup {NoKey}]
    /\ r' \in 0 .. Span - 1 /\ w' \in 0 .. Span - 1 /\ e' \in 0 .. Span - 1
    /\ txR' \in 0 .. Span - 1 /\ txW' \in 0 .. Span - 1
    /\ consLock' \in Actors \cup {Unlocked} /\ txLock' \in Actors \cup {Unlocked}
    /\ busy' \in BOOLEAN /\ raised' \in BOOLEAN
    /\ rx' \in Keys \cup {NoKey} /\ key' \in Keys \cup {NoKey}
    /\ stage' \in [Actors -> Places]
    /\ n' \in [Callers -> 0 .. MaxN] /\ got' \in [Callers -> 0 .. MaxN]
    /\ killed' \in [Callers -> BOOLEAN]
<1>1. Places = {"idle", "readLock", "read", "readSleep", "putLock", "put", "putSleep",
                "start", "getc", "keyLock", "key", "erased", "store", "startLock"}
  BY DEF Places, Reading, Writing, Serving
<1> QED BY <1>1 DEF TypeOK

LEMMA FullOutput ==
  ASSUME TypeOK
  PROVE  TxFull <=> Ahead(Span, txR, txW) = UART_TX_BUF_SIZE
<1>1. \A from, to \in 0 .. Span - 1 :
        Ahead(Span, from, to) = UART_TX_BUF_SIZE <=> to = (from + UART_TX_BUF_SIZE) % Span
  BY BufferSizes, FullRing, Zenon
<1> QED BY <1>1, Counters, Zenon DEF TxFull

-----
\* The input ring
\* Reading a key takes the first of the finished input.
LEMMA KeyOut ==
  ASSUME TypeOK, InputOutput, r # w, buf' = buf, r' = Advance(r), w' = w, e' = e
  PROVE  /\ Ready' = Tail(Ready) /\ Ready # <<>> /\ Line' = Line
         /\ Middle(Span, r', w', e') /\ Ahead(Span, r', e') <= INPUT_BUF_SIZE
         /\ r' \in 0 .. Span - 1
<1> DEFINE S == Keys \cup {NoKey}
           d(x, y) == Ahead(Span, x, y)
<1>1. /\ r \in 0 .. Span - 1 /\ w \in 0 .. Span - 1 /\ e \in 0 .. Span - 1
      /\ buf \in [0 .. INPUT_BUF_SIZE - 1 -> S]
  BY DEF TypeOK
<1>2. \A from, to \in 0 .. Span - 1, ring \in [0 .. INPUT_BUF_SIZE - 1 -> S] :
        from # to =>
          /\ Ahead(Span, (from + 1) % Span, to) = Ahead(Span, from, to) - 1
          /\ Held(ring, INPUT_BUF_SIZE, Span, (from + 1) % Span, to)
               = Tail(Held(ring, INPUT_BUF_SIZE, Span, from, to))
          /\ Held(ring, INPUT_BUF_SIZE, Span, from, to) # <<>>
          /\ (from + 1) % Span \in 0 .. Span - 1
  BY BufferSizes, HeldTail, Zenon
<1>3. /\ d(r, w) \in 0 .. Span - 1 /\ d(w, e) \in 0 .. Span - 1 /\ d(r, e) \in 0 .. Span - 1
      /\ d(r, w) # 0 /\ (d(r, e) = 0 <=> r = e)
  BY <1>1, Distances
<1>4. d(r, w) + d(w, e) = d(r, e) /\ d(r, e) <= INPUT_BUF_SIZE BY DEF InputOutput, Middle
<1>5. r # e
  <2> HIDE DEF d
  <2> QED BY <1>3, <1>4
<1>6. /\ d(Advance(r), w) = d(r, w) - 1
      /\ Held(buf, INPUT_BUF_SIZE, Span, Advance(r), w) = Tail(Held(buf, INPUT_BUF_SIZE, Span, r, w))
      /\ Held(buf, INPUT_BUF_SIZE, Span, r, w) # <<>>
      /\ Advance(r) \in 0 .. Span - 1
  BY <1>1, <1>2, Zenon DEF Advance
<1>7. d(Advance(r), e) = d(r, e) - 1 BY <1>1, <1>2, <1>5, Zenon DEF Advance
<1>8. Middle(Span, Advance(r), w, e) /\ d(Advance(r), e) <= INPUT_BUF_SIZE
  <2>1. d(Advance(r), w) + d(w, e) = d(Advance(r), e) /\ d(Advance(r), e) <= INPUT_BUF_SIZE
    <3>1. d(Advance(r), w) = d(r, w) - 1 BY <1>6, Zenon
    <3> HIDE DEF d
    <3> QED BY <1>3, <1>4, <1>7, <3>1, BufferSizes
  <2> QED BY <2>1, Zenon DEF Middle
<1> QED BY <1>6, <1>8, Parts, PartsNext, Zenon

\* Erasing takes the last key of the line.
LEMMA KeyErased ==
  ASSUME TypeOK, InputOutput, e # w, buf' = buf, e' = Retreat(e), r' = r, w' = w
  PROVE  /\ Line' = SubSeq(Line, 1, Len(Line) - 1) /\ Line # <<>> /\ Ready' = Ready
         /\ Middle(Span, r', w', e') /\ Ahead(Span, r', e') <= INPUT_BUF_SIZE
         /\ e' \in 0 .. Span - 1
<1> DEFINE S == Keys \cup {NoKey}
           d(x, y) == Ahead(Span, x, y)
           back == (e + Span - 1) % Span
<1>1. /\ r \in 0 .. Span - 1 /\ w \in 0 .. Span - 1 /\ e \in 0 .. Span - 1
      /\ buf \in [0 .. INPUT_BUF_SIZE - 1 -> S]
  BY DEF TypeOK
<1>2. /\ d(r, w) \in 0 .. Span - 1 /\ d(w, e) \in 0 .. Span - 1 /\ d(r, e) \in 0 .. Span - 1
      /\ d(w, e) # 0 /\ (d(r, e) = 0 <=> r = e)
  BY <1>1, Distances
<1>3. d(r, w) + d(w, e) = d(r, e) /\ d(r, e) <= INPUT_BUF_SIZE BY DEF InputOutput, Middle
<1>4. r # e
  <2> HIDE DEF d
  <2> QED BY <1>2, <1>3
<1>a. DropsLast(S, INPUT_BUF_SIZE, Span) BY BufferSizes, HeldFront, Zenon
<1>5. /\ back \in 0 .. Span - 1 /\ d(w, back) = d(w, e) - 1
      /\ Held(buf, INPUT_BUF_SIZE, Span, w, e) # <<>>
      /\ Held(buf, INPUT_BUF_SIZE, Span, w, back)
           = SubSeq(Held(buf, INPUT_BUF_SIZE, Span, w, e), 1,
                    Len(Held(buf, INPUT_BUF_SIZE, Span, w, e)) - 1)
  BY <1>1, <1>a, ZenonT(40) DEF DropsLast
<1>6. d(r, back) = d(r, e) - 1 BY <1>1, <1>4, <1>a, ZenonT(40) DEF DropsLast
<1>7. Middle(Span, r, w, back) /\ d(r, back) <= INPUT_BUF_SIZE
  <2>1. d(r, w) + d(w, back) = d(r, back) /\ d(r, back) <= INPUT_BUF_SIZE
    <3> HIDE DEF d, back
    <3> QED BY <1>2, <1>3, <1>5, <1>6, BufferSizes
  <2> QED BY <2>1, Zenon DEF Middle
<1>8. e' = back BY DEF Retreat
<1> HIDE DEF back
<1> QED BY <1>5, <1>7, <1>8, Parts, PartsNext, Zenon

\* What the ring holds and how much that is.
LEMMA Input ==
  ASSUME TypeOK, InputOutput
  PROVE  /\ Held(buf, INPUT_BUF_SIZE, Span, r, e) = Ready \o Line
         /\ Ready \in Seq(Keys \cup {NoKey}) /\ Line \in Seq(Keys \cup {NoKey})
         /\ Len(Ready) + Len(Line) = Ahead(Span, r, e)
<1> DEFINE S == Keys \cup {NoKey}
<1>1. /\ r \in 0 .. Span - 1 /\ w \in 0 .. Span - 1 /\ e \in 0 .. Span - 1
      /\ buf \in [0 .. INPUT_BUF_SIZE - 1 -> S] /\ Middle(Span, r, w, e)
  BY DEF TypeOK, InputOutput
<1> HIDE DEF S
<1>2. /\ Held(buf, INPUT_BUF_SIZE, Span, r, e)
           = Held(buf, INPUT_BUF_SIZE, Span, r, w) \o Held(buf, INPUT_BUF_SIZE, Span, w, e)
      /\ Held(buf, INPUT_BUF_SIZE, Span, r, w) \in Seq(S)
      /\ Held(buf, INPUT_BUF_SIZE, Span, w, e) \in Seq(S)
      /\ Len(Held(buf, INPUT_BUF_SIZE, Span, r, w)) = Ahead(Span, r, w)
      /\ Len(Held(buf, INPUT_BUF_SIZE, Span, w, e)) = Ahead(Span, w, e)
  <2>1. Splits(S, INPUT_BUF_SIZE, Span) BY BufferSizes, HeldSplit, Zenon
  <2> QED BY <1>1, <2>1, ZenonT(40) DEF Splits
<1>3. Len(Ready) + Len(Line) = Ahead(Span, r, e) BY <1>1, <1>2, Parts DEF Middle
<1> QED BY <1>2, <1>3, Parts, Zenon DEF S

\* Storing a key adds it to the line, which may finish it.
LEMMA KeyIn ==
  ASSUME TypeOK, InputOutput, Ahead(Span, r, e) < INPUT_BUF_SIZE, key \in Keys,
         buf' = [buf EXCEPT ![e % INPUT_BUF_SIZE] = key], e' = Advance(e), r' = r,
         w' = w \/ w' = Advance(e)
  PROVE  /\ w' = w => Ready' = Ready /\ Line' = Append(Line, key)
         /\ w' = Advance(e) => Ready' = Ready \o Append(Line, key) /\ Line' = <<>>
         /\ Middle(Span, r', w', e') /\ Ahead(Span, r', e') <= INPUT_BUF_SIZE
         /\ Ahead(Span, r, Advance(e)) = Ahead(Span, r, e) + 1
         /\ e' \in 0 .. Span - 1 /\ w' \in 0 .. Span - 1
         /\ buf' \in [0 .. INPUT_BUF_SIZE - 1 -> Keys \cup {NoKey}]
<1> DEFINE S == Keys \cup {NoKey}
           d(x, y) == Ahead(Span, x, y)
           after == (e + 1) % Span
           buf2 == Stored(buf, INPUT_BUF_SIZE, e, key)
<1>1. /\ r \in 0 .. Span - 1 /\ w \in 0 .. Span - 1 /\ e \in 0 .. Span - 1
      /\ buf \in [0 .. INPUT_BUF_SIZE - 1 -> S] /\ key \in S
      /\ Middle(Span, r, w, e)
  BY DEF TypeOK, InputOutput
<1>2. /\ d(r, w) \in 0 .. Span - 1 /\ d(w, e) \in 0 .. Span - 1 /\ d(r, e) \in 0 .. Span - 1
      /\ d(r, w) + d(w, e) = d(r, e) /\ d(r, e) < INPUT_BUF_SIZE
  BY <1>1, Distances DEF Middle
<1>3. d(w, e) < INPUT_BUF_SIZE
  <2> HIDE DEF d
  <2> QED BY <1>2, BufferSizes
<1>4. Appends(S, INPUT_BUF_SIZE, Span) BY BufferSizes, HeldAppend, Zenon
<1>5. /\ d(r, after) = d(r, e) + 1
      /\ Held(buf2, INPUT_BUF_SIZE, Span, r, after)
           = Append(Held(buf, INPUT_BUF_SIZE, Span, r, e), key)
      /\ buf2 \in [0 .. INPUT_BUF_SIZE - 1 -> S] /\ after \in 0 .. Span - 1
  BY <1>1, <1>2, <1>4, ZenonT(40) DEF Appends
<1>6. /\ d(w, after) = d(w, e) + 1
      /\ Held(buf2, INPUT_BUF_SIZE, Span, w, after)
           = Append(Held(buf, INPUT_BUF_SIZE, Span, w, e), key)
  BY <1>1, <1>3, <1>4, ZenonT(40) DEF Appends
<1>7. Held(buf2, INPUT_BUF_SIZE, Span, r, w) = Held(buf, INPUT_BUF_SIZE, Span, r, w)
  <2>1. KeepsHeld(S, INPUT_BUF_SIZE, Span) BY BufferSizes, HeldKept, Zenon
  <2>2. Ahead(Span, r, e) < INPUT_BUF_SIZE OBVIOUS
  <2> HIDE DEF S
  <2> QED BY <1>1, <2>1, <2>2, ZenonT(40) DEF KeepsHeld
<1>8. buf' = buf2 /\ e' = after /\ Advance(e) = after BY DEF Stored, Advance
<1> HIDE DEF S, after, buf2
<1>9. d(after, after) = 0 /\ Held(buf2, INPUT_BUF_SIZE, Span, after, after) = <<>>
  BY <1>5, Distances, HeldNothing
<1>10. w' = w => Ready' = Ready /\ Line' = Append(Line, key)
  BY <1>6, <1>7, <1>8, Parts, PartsNext, Zenon
<1>11. w' = Advance(e) => Ready' = Ready \o Append(Line, key) /\ Line' = <<>>
  <2> SUFFICES ASSUME w' = after PROVE Ready' = Ready \o Append(Line, key) /\ Line' = <<>>
    BY <1>8
  <2>1. Ready' = Append(Held(buf, INPUT_BUF_SIZE, Span, r, e), key) /\ Line' = <<>>
    BY <1>5, <1>8, <1>9, PartsNext, Zenon
  <2>2. Ready' = Append(Ready \o Line, key) BY <2>1, Input, Zenon
  <2>3. Ready \in Seq(S) /\ Line \in Seq(S) BY Input DEF S
  <2>4. Append(Ready \o Line, key) = Ready \o Append(Line, key)
    <3>1. Ready \o Line \in Seq(S) /\ <<key>> \in Seq(S) BY <1>1, <2>3
    <3>2. /\ Append(Ready \o Line, key) = (Ready \o Line) \o <<key>>
          /\ Append(Line, key) = Line \o <<key>>
      BY <1>1, <2>3, <3>1, AppendIsConcat
    <3>3. (Ready \o Line) \o <<key>> = Ready \o (Line \o <<key>>)
      BY <2>3, <3>1, ConcatAssociative
    <3> QED BY <3>2, <3>3, Zenon
  <2> QED BY <2>1, <2>2, <2>4, Zenon
<1>12. Middle(Span, r, w', after) /\ d(r, after) <= INPUT_BUF_SIZE
  <2>1. d(r, after) <= INPUT_BUF_SIZE
    <3> HIDE DEF d
    <3> QED BY <1>2, <1>5, BufferSizes
  <2>2. CASE w' = w
    <3>1. d(r, w) + d(w, after) = d(r, after)
      <4> HIDE DEF d
      <4> QED BY <1>2, <1>5, <1>6
    <3> QED BY <2>1, <2>2, <3>1, Zenon DEF Middle
  <2>3. CASE w' = after
    <3>1. d(r, after) + d(after, after) = d(r, after)
      <4> HIDE DEF d
      <4> QED BY <1>2, <1>5, <1>9
    <3> QED BY <2>1, <2>3, <3>1, Zenon DEF Middle
  <2> QED BY <1>8, <2>2, <2>3
<1> QED BY <1>1, <1>5, <1>8, <1>10, <1>11, <1>12 DEF S

-----
\* The output ring
LEMMA CharIn ==
  ASSUME TypeOK, InputOutput, ~ TxFull, NEW c \in Output,
         txBuf' = [txBuf EXCEPT ![txW % UART_TX_BUF_SIZE] = c],
         txW' = Advance(txW), txR' = txR
  PROVE  /\ Out' = Append(Out, c) /\ Len(Out) < UART_TX_BUF_SIZE
         /\ Ahead(Span, txR', txW') <= UART_TX_BUF_SIZE /\ txW' \in 0 .. Span - 1
         /\ txBuf' \in [0 .. UART_TX_BUF_SIZE - 1 -> Output \cup {NoKey}]
<1> DEFINE S == Output \cup {NoKey}
           after == (txW + 1) % Span
           buf2 == Stored(txBuf, UART_TX_BUF_SIZE, txW, c)
           d == Ahead(Span, txR, txW)
<1>1. /\ txR \in 0 .. Span - 1 /\ txW \in 0 .. Span - 1 /\ c \in S
      /\ txBuf \in [0 .. UART_TX_BUF_SIZE - 1 -> S]
  BY DEF TypeOK
<1>2. d \in 0 .. Span - 1 /\ d <= UART_TX_BUF_SIZE /\ d # UART_TX_BUF_SIZE
  BY <1>1, Distances, FullOutput DEF InputOutput
<1>3. d < UART_TX_BUF_SIZE
  <2> HIDE DEF d
  <2> QED BY <1>2, BufferSizes
<1>4. /\ Ahead(Span, txR, after) = d + 1
      /\ Held(buf2, UART_TX_BUF_SIZE, Span, txR, after)
           = Append(Held(txBuf, UART_TX_BUF_SIZE, Span, txR, txW), c)
      /\ buf2 \in [0 .. UART_TX_BUF_SIZE - 1 -> S] /\ after \in 0 .. Span - 1
  <2>1. Appends(S, UART_TX_BUF_SIZE, Span) BY BufferSizes, HeldAppend, Zenon
  <2> QED BY <1>1, <1>3, <2>1, ZenonT(40) DEF Appends
<1>5. txBuf' = buf2 /\ txW' = after BY DEF Stored, Advance
<1>6. Len(Out) = d BY <1>2 DEF Out, Part, Between, Ahead
<1> HIDE DEF after, buf2, d
<1>7. Ahead(Span, txR', txW') <= UART_TX_BUF_SIZE BY <1>2, <1>3, <1>4, <1>5, BufferSizes
<1>8. Out' = Append(Out, c) BY <1>4, <1>5, Parts, PartsNext, Zenon
<1> QED BY <1>3, <1>4, <1>5, <1>6, <1>7, <1>8

LEMMA CharOut ==
  ASSUME TypeOK, InputOutput, txR # txW, txBuf' = txBuf, txR' = Advance(txR), txW' = txW
  PROVE  /\ Out' = Tail(Out) /\ Out # <<>>
         /\ Ahead(Span, txR', txW') <= UART_TX_BUF_SIZE /\ txR' \in 0 .. Span - 1
<1> DEFINE S == Output \cup {NoKey}
           d == Ahead(Span, txR, txW)
           after == (txR + 1) % Span
<1>1. /\ txR \in 0 .. Span - 1 /\ txW \in 0 .. Span - 1
      /\ txBuf \in [0 .. UART_TX_BUF_SIZE - 1 -> S]
  BY DEF TypeOK
<1>2. /\ Ahead(Span, after, txW) = d - 1
      /\ Held(txBuf, UART_TX_BUF_SIZE, Span, after, txW)
           = Tail(Held(txBuf, UART_TX_BUF_SIZE, Span, txR, txW))
      /\ Held(txBuf, UART_TX_BUF_SIZE, Span, txR, txW) # <<>>
      /\ after \in 0 .. Span - 1
  <2>1. \A from, to \in 0 .. Span - 1, ring \in [0 .. UART_TX_BUF_SIZE - 1 -> S] :
          from # to =>
            /\ Ahead(Span, (from + 1) % Span, to) = Ahead(Span, from, to) - 1
            /\ Held(ring, UART_TX_BUF_SIZE, Span, (from + 1) % Span, to)
                 = Tail(Held(ring, UART_TX_BUF_SIZE, Span, from, to))
            /\ Held(ring, UART_TX_BUF_SIZE, Span, from, to) # <<>>
            /\ (from + 1) % Span \in 0 .. Span - 1
    BY BufferSizes, HeldTail, Zenon
  <2> QED BY <1>1, <2>1, Zenon
<1>3. txR' = after BY DEF Advance
<1>4. d \in 0 .. Span - 1 /\ d <= UART_TX_BUF_SIZE BY <1>1, Distances DEF InputOutput
<1> HIDE DEF d, after
<1>5. Ahead(Span, txR', txW') <= UART_TX_BUF_SIZE BY <1>2, <1>3, <1>4, BufferSizes
<1> QED BY <1>2, <1>3, <1>5, Parts, PartsNext, Zenon
-----
\* Initially, and from one step to the next
LEMMA InitIInv == ConsoleInit => ConsoleInv
<1> SUFFICES ASSUME ConsoleInit PROVE ConsoleInv
  OBVIOUS
<1> USE BufferSizes DEF ConsoleInit
<1>1. TypeOK
  <2>1. stage \in [Actors -> Places] /\ 0 \in 0 .. MaxN BY DEF Places
  <2>2. n \in [Callers -> 0 .. MaxN] /\ got \in [Callers -> 0 .. MaxN] BY <2>1
  <2> QED BY <2>1, <2>2, Typed
<1>2. Control
  BY DEF Control, Roles, KeyServed, ReadCounts, Locked, Serving, ConsBusy, TxBusy, Actors
<1>3. InputOutput
  <2>1. Ahead(Span, FirstCount, FirstCount) = 0 BY Distances
  <2> QED BY <2>1 DEF InputOutput, Middle
<1>4. SleepersWait /\ Sender BY DEF SleepersWait, Sender, Actors
<1> QED BY <1>1, <1>2, <1>3, <1>4 DEF ConsoleInv

LEMMA KeepsCallRead ==
  ASSUME ConsoleInv, NEW p \in Callers, Call(p, "readLock")
  PROVE  ConsoleInv'
<1> USE BufferSizes DEF ConsoleInv, Control
<1>a. PICK k \in 1 .. MaxN : n' = [n EXCEPT ![p] = k] BY DEF Call
<1>b. /\ stage[p] = "idle" /\ stage' = [stage EXCEPT ![p] = "readLock"]
      /\ UNCHANGED <<cons, uart, chip, got, key, killed>>
  BY DEF Call, IsAt, Moves
<1>c. k \in 0 .. MaxN BY <1>a
<1>1. TypeOK'
  <2>1. n' \in [Callers -> 0 .. MaxN] BY <1>a, <1>c, Typed
  <2>2. stage' \in [Actors -> Places] BY <1>b, Typed DEF Places, Reading, Writing
  <2> QED BY <1>b, <2>1, <2>2 DEF TypeOK, Places, Reading, Writing, Serving, cons, uart, chip
<1>2. Roles'
  BY <1>1 DEF TypeOK, Roles, Reading, Writing, Serving, Actors, Call, IsAt, Moves, cons, uart,
    chip
<1>3. KeyServed'
  BY <1>1 DEF TypeOK, Roles, KeyServed, Serving, Reading, Writing, Actors, Call, IsAt, Moves,
    cons, uart, chip
<1>4. ReadCounts'
  <2> SUFFICES ASSUME NEW q \in Callers
               PROVE  n'[q] + got'[q] <= MaxN /\ (stage'[q] \notin Reading => got'[q] = 0)
    BY DEF ReadCounts
  <2>1. n \in [Callers -> 0 .. MaxN] /\ got \in [Callers -> 0 .. MaxN] /\ stage \in [Actors -> Places]
    BY Typed
  <2>2. got' = got BY <1>b
  <2>3. CASE q = p
    <3>1. got[p] = 0 BY <1>b DEF ReadCounts, Reading
    <3>2. n'[p] = k BY <1>a, <2>1
    <3> QED BY <1>c, <2>2, <2>3, <3>1, <3>2
  <2>4. CASE q # p
    <3>1. n'[q] = n[q] /\ stage'[q] = stage[q] BY <1>a, <1>b, <2>1, <2>4 DEF Actors
    <3> QED BY <2>2, <3>1 DEF ReadCounts
  <2> QED BY <2>3, <2>4
<1>5. Locked'
  BY <1>1 DEF TypeOK, Roles, Locked, ConsBusy, TxBusy, Actors, Call, IsAt, Moves, cons, uart,
    chip
<1>6. InputOutput' BY DEF InputOutput, Call, IsAt, Moves, cons, uart, chip
<1>7. SleepersWait'
  BY <1>1 DEF TypeOK, SleepersWait, TxFull, Actors, Call, IsAt, Moves, cons, uart, chip
<1>8. Sender'
  BY <1>1 DEF TypeOK, Roles, Sender, Serving, Reading, Writing, Actors, Call, IsAt, Moves, cons,
    uart, chip
<1> QED BY <1>1, <1>2, <1>3, <1>4, <1>5, <1>6, <1>7, <1>8

LEMMA KeepsCallWrite ==
  ASSUME ConsoleInv, NEW p \in Callers, Call(p, "putLock")
  PROVE  ConsoleInv'
<1> USE BufferSizes DEF ConsoleInv, Control
<1>a. PICK k \in 1 .. MaxN : n' = [n EXCEPT ![p] = k] BY DEF Call
<1>b. /\ stage[p] = "idle" /\ stage' = [stage EXCEPT ![p] = "putLock"]
      /\ UNCHANGED <<cons, uart, chip, got, key, killed>>
  BY DEF Call, IsAt, Moves
<1>c. k \in 0 .. MaxN BY <1>a
<1>1. TypeOK'
  <2>1. n' \in [Callers -> 0 .. MaxN] BY <1>a, <1>c, Typed
  <2>2. stage' \in [Actors -> Places] BY <1>b, Typed DEF Places, Reading, Writing
  <2> QED BY <1>b, <2>1, <2>2 DEF TypeOK, Places, Reading, Writing, Serving, cons, uart, chip
<1>2. Roles'
  BY <1>1 DEF TypeOK, Roles, Reading, Writing, Serving, Actors, Call, IsAt, Moves, cons, uart,
    chip
<1>3. KeyServed'
  BY <1>1 DEF TypeOK, Roles, KeyServed, Serving, Reading, Writing, Actors, Call, IsAt, Moves,
    cons, uart, chip
<1>4. ReadCounts'
  <2> SUFFICES ASSUME NEW q \in Callers
               PROVE  n'[q] + got'[q] <= MaxN /\ (stage'[q] \notin Reading => got'[q] = 0)
    BY DEF ReadCounts
  <2>1. n \in [Callers -> 0 .. MaxN] /\ got \in [Callers -> 0 .. MaxN] /\ stage \in [Actors -> Places]
    BY Typed
  <2>2. got' = got BY <1>b
  <2>3. CASE q = p
    <3>1. got[p] = 0 BY <1>b DEF ReadCounts, Reading
    <3>2. n'[p] = k BY <1>a, <2>1
    <3> QED BY <1>c, <2>2, <2>3, <3>1, <3>2
  <2>4. CASE q # p
    <3>1. n'[q] = n[q] /\ stage'[q] = stage[q] BY <1>a, <1>b, <2>1, <2>4 DEF Actors
    <3> QED BY <2>2, <3>1 DEF ReadCounts
  <2> QED BY <2>3, <2>4
<1>5. Locked'
  BY <1>1 DEF TypeOK, Roles, Locked, ConsBusy, TxBusy, Actors, Call, IsAt, Moves, cons, uart,
    chip
<1>6. InputOutput' BY DEF InputOutput, Call, IsAt, Moves, cons, uart, chip
<1>7. SleepersWait'
  BY <1>1 DEF TypeOK, SleepersWait, TxFull, Actors, Call, IsAt, Moves, cons, uart, chip
<1>8. Sender'
  BY <1>1 DEF TypeOK, Roles, Sender, Serving, Reading, Writing, Actors, Call, IsAt, Moves, cons,
    uart, chip
<1> QED BY <1>1, <1>2, <1>3, <1>4, <1>5, <1>6, <1>7, <1>8

LEMMA KeepsKill ==
  ASSUME ConsoleInv, NEW p \in Callers, KillCaller(p)
  PROVE  ConsoleInv'
<1> USE BufferSizes DEF ConsoleInv, Control
<1>1. TypeOK' BY DEF TypeOK, ReadCounts, Roles, Actors, KillCaller, Moves, cons, uart, chip
<1>2. Roles'
  BY <1>1 DEF TypeOK, Roles, Reading, Writing, Serving, Actors, KillCaller, Moves, cons, uart,
    chip
<1>3. KeyServed'
  BY <1>1 DEF TypeOK, Roles, KeyServed, Serving, Reading, Writing, Actors, KillCaller, Moves,
    cons, uart, chip
<1>4. ReadCounts'
  BY <1>1 DEF TypeOK, Roles, ReadCounts, Reading, Writing, Actors, KillCaller, Moves, cons,
    uart, chip
<1>5. Locked'
  BY <1>1 DEF TypeOK, Roles, Locked, ConsBusy, TxBusy, Actors, KillCaller, Moves, cons, uart,
    chip
<1>6. InputOutput' BY DEF InputOutput, KillCaller, Moves, cons, uart, chip
<1>7. SleepersWait'
  BY <1>1 DEF TypeOK, SleepersWait, TxFull, Actors, KillCaller, Moves, cons, uart, chip
<1>8. Sender'
  BY <1>1 DEF TypeOK, Roles, Sender, Serving, Reading, Writing, Actors, KillCaller, Moves, cons,
    uart, chip
<1> QED BY <1>1, <1>2, <1>3, <1>4, <1>5, <1>6, <1>7, <1>8

LEMMA KeepsAcquireConsRead ==
  ASSUME ConsoleInv, NEW p \in Callers, AcquireCons(p, "readLock", "read")
  PROVE  ConsoleInv'
<1> USE BufferSizes DEF ConsoleInv, Control
<1>1. TypeOK'
  BY DEF TypeOK, ReadCounts, Roles, Actors, AcquireCons, IsAt, Moves, uart, chip, bounds
<1>2. Roles'
  BY <1>1 DEF TypeOK, Roles, Reading, Writing, Serving, Actors, AcquireCons, IsAt, Moves, uart,
    chip, bounds
<1>3. KeyServed'
  BY <1>1 DEF TypeOK, Roles, KeyServed, Serving, Reading, Writing, Actors, AcquireCons, IsAt,
    Moves, uart, chip, bounds
<1>4. ReadCounts'
  BY <1>1 DEF TypeOK, Roles, ReadCounts, Reading, Writing, Actors, AcquireCons, IsAt, Moves,
    uart, chip, bounds
<1>5. Locked'
  BY <1>1 DEF TypeOK, Roles, Locked, ConsBusy, TxBusy, Actors, AcquireCons, IsAt, Moves, uart,
    chip, bounds
<1>6. InputOutput' BY DEF InputOutput, AcquireCons, IsAt, Moves, uart, chip, bounds
<1>7. SleepersWait'
  BY <1>1 DEF TypeOK, SleepersWait, TxFull, Actors, AcquireCons, IsAt, Moves, uart, chip, bounds
<1>8. Sender'
  BY <1>1 DEF TypeOK, Roles, Sender, Serving, Reading, Writing, Actors, AcquireCons, IsAt,
    Moves, uart, chip, bounds
<1> QED BY <1>1, <1>2, <1>3, <1>4, <1>5, <1>6, <1>7, <1>8

LEMMA KeepsReadWaits ==
  ASSUME ConsoleInv, NEW p \in Callers, ReadWaits(p)
  PROVE  ConsoleInv'
<1> USE BufferSizes DEF ConsoleInv, Control
<1>a. /\ consLock' = Unlocked /\ UNCHANGED <<buf, r, w, e, uart, chip, key, killed>>
      /\ \/ /\ stage' = [stage EXCEPT ![p] = "idle"]
            /\ n' = [n EXCEPT ![p] = 0] /\ got' = [got EXCEPT ![p] = 0]
         \/ stage' = [stage EXCEPT ![p] = "readSleep"] /\ UNCHANGED <<n, got>>
  BY DEF ReadWaits, ReadReturns, Moves
<1>b. /\ p \in Actors /\ stage[p] = "read" /\ consLock = p /\ r = w
      /\ stage'[p] \in {"idle", "readSleep"} /\ \A b \in Actors : b # p => stage'[b] = stage[b]
  BY <1>a, Typed DEF ReadWaits, IsAt, Locked, ConsBusy, Actors
<1>1. TypeOK'
  <2>1. n' \in [Callers -> 0 .. MaxN] /\ got' \in [Callers -> 0 .. MaxN]
    <3>1. n \in [Callers -> 0 .. MaxN] /\ got \in [Callers -> 0 .. MaxN] /\ 0 \in 0 .. MaxN
      BY Typed
    <3>2. CASE UNCHANGED <<n, got>> BY <3>1, <3>2
    <3>3. CASE n' = [n EXCEPT ![p] = 0] /\ got' = [got EXCEPT ![p] = 0] BY <3>1, <3>3
    <3> QED BY <1>a, <3>2, <3>3
  <2>2. stage' \in [Actors -> Places] BY <1>a, Typed DEF Places, Reading
  <2> QED BY <1>a, <2>1, <2>2, Typed, TypedNext DEF uart, chip
<1>2. Roles' BY <1>b DEF Roles, Reading, Actors
<1>3. KeyServed'
  BY <1>1 DEF TypeOK, Roles, KeyServed, Serving, Reading, Writing, Actors, ReadWaits,
    ReadReturns, IsAt, Moves, uart, chip, bounds
<1>4. ReadCounts'
  <2> SUFFICES ASSUME NEW q \in Callers
               PROVE  n'[q] + got'[q] <= MaxN /\ (stage'[q] \notin Reading => got'[q] = 0)
    BY DEF ReadCounts
  <2>1. n \in [Callers -> 0 .. MaxN] /\ got \in [Callers -> 0 .. MaxN] /\ stage \in [Actors -> Places]
    BY Typed
  <2>2. n[q] + got[q] <= MaxN /\ (stage[q] \notin Reading => got[q] = 0) BY DEF ReadCounts
  <2>3. CASE UNCHANGED <<n, got>> BY <1>a, <2>1, <2>2, <2>3 DEF Reading, Actors, ReadWaits, IsAt
  <2>4. CASE n' = [n EXCEPT ![p] = 0] /\ got' = [got EXCEPT ![p] = 0]
    <3>1. CASE q = p BY <2>1, <2>4, <3>1
    <3>2. CASE q # p BY <1>a, <2>1, <2>2, <2>4, <3>2 DEF Actors
    <3> QED BY <3>1, <3>2
  <2> QED BY <1>a, <2>3, <2>4
<1>5. Locked' BY <1>a, <1>b DEF Locked, ConsBusy, TxBusy, uart
<1>6. InputOutput' BY DEF InputOutput, ReadWaits, ReadReturns, IsAt, Moves, uart, chip, bounds
<1>7. SleepersWait' BY <1>a, <1>b DEF SleepersWait, TxFull, Actors, uart
<1>8. Sender'
  BY <1>1 DEF TypeOK, Roles, Sender, Serving, Reading, Writing, Actors, ReadWaits, ReadReturns,
    IsAt, Moves, uart, chip, bounds
<1> QED BY <1>1, <1>2, <1>3, <1>4, <1>5, <1>6, <1>7, <1>8

LEMMA KeepsReadEof ==
  ASSUME ConsoleInv, NEW p \in Callers, ReadEof(p)
  PROVE  ConsoleInv'
<1> USE BufferSizes DEF ConsoleInv, Control
<1>a. /\ consLock' = Unlocked /\ stage' = [stage EXCEPT ![p] = "idle"]
      /\ n' = [n EXCEPT ![p] = 0] /\ got' = [got EXCEPT ![p] = 0]
      /\ stage[p] = "read" /\ r # w /\ (r' = r \/ r' = Advance(r))
      /\ UNCHANGED <<buf, w, e, uart, chip, key, killed>>
  BY DEF ReadEof, ReadReturns, Moves, IsAt
<1>b. Middle(Span, r', w', e') /\ Ahead(Span, r', e') <= INPUT_BUF_SIZE /\ r' \in 0 .. Span - 1
  <2>1. CASE r' = r BY <1>a, <2>1, Typed DEF InputOutput
  <2>2. CASE r' = Advance(r) BY <1>a, <2>2, KeyOut
  <2> QED BY <1>a, <2>1, <2>2
<1>1. TypeOK'
  BY <1>a, <1>b, Typed, TypedNext DEF Places, Reading, Writing, Serving, Actors, cons, uart,
    chip
<1>2. Roles'
  BY <1>1 DEF TypeOK, Roles, Reading, Writing, Serving, Actors, ReadEof, ReadReturns, IsAt,
    Moves, uart, chip, bounds
<1>3. KeyServed'
  BY <1>a, Typed DEF Locked, KeyServed, ConsBusy, Places, Reading, Writing, Serving, Actors,
    cons, uart, chip
<1>4. ReadCounts'
  BY <1>1 DEF TypeOK, Roles, ReadCounts, Reading, Writing, Actors, ReadEof, ReadReturns, IsAt,
    Moves, uart, chip, bounds
<1>5. Locked'
  BY <1>1 DEF TypeOK, Roles, Locked, ConsBusy, TxBusy, Actors, ReadEof, ReadReturns, IsAt,
    Moves, uart, chip, bounds
<1>6. InputOutput' BY <1>a, <1>b DEF InputOutput, uart
<1>7. SleepersWait'
  BY <1>1 DEF TypeOK, SleepersWait, TxFull, Actors, ReadEof, ReadReturns, IsAt, Moves, uart,
    chip, bounds
<1>8. Sender'
  BY <1>1 DEF TypeOK, Roles, Sender, Serving, Reading, Writing, Actors, ReadEof, ReadReturns,
    IsAt, Moves, uart, chip, bounds
<1> QED BY <1>1, <1>2, <1>3, <1>4, <1>5, <1>6, <1>7, <1>8

LEMMA KeepsReadKey ==
  ASSUME ConsoleInv, NEW p \in Callers, ReadKey(p)
  PROVE  ConsoleInv'
<1> USE BufferSizes DEF ConsoleInv, Control
<1>a. /\ stage[p] = "read" /\ n[p] > 0 /\ r # w /\ r' = Advance(r)
      /\ UNCHANGED <<buf, w, e, uart, chip, key, killed>>
      /\ \/ /\ n' = [n EXCEPT ![p] = n[p] - 1] /\ got' = [got EXCEPT ![p] = got[p] + 1]
            /\ UNCHANGED <<consLock, stage>>
         \/ /\ n' = [n EXCEPT ![p] = 0] /\ got' = [got EXCEPT ![p] = 0]
            /\ consLock' = Unlocked /\ stage' = [stage EXCEPT ![p] = "idle"]
  BY DEF ReadKey, ReadReturns, Moves, IsAt
<1>b. Middle(Span, r', w', e') /\ Ahead(Span, r', e') <= INPUT_BUF_SIZE /\ r' \in 0 .. Span - 1
  BY <1>a, KeyOut
<1>c. \A q \in Callers : n'[q] + got'[q] <= MaxN /\ n'[q] \in 0 .. MaxN /\ got'[q] \in 0 .. MaxN
  <2> TAKE q \in Callers
  <2>1. n \in [Callers -> 0 .. MaxN] /\ got \in [Callers -> 0 .. MaxN] BY Typed
  <2>2. n[q] + got[q] <= MaxN BY DEF ReadCounts
  <2>3. CASE q = p BY <1>a, <2>1, <2>2, <2>3
  <2>4. CASE q # p BY <1>a, <2>1, <2>2, <2>4
  <2> QED BY <2>3, <2>4
<1>1. TypeOK'
  <2>1. n' \in [Callers -> 0 .. MaxN] /\ got' \in [Callers -> 0 .. MaxN]
    <3>1. n' = [q \in Callers |-> n'[q]] /\ got' = [q \in Callers |-> got'[q]] BY <1>a, Typed
    <3> QED BY <1>c, <3>1
  <2>2. stage' \in [Actors -> Places] /\ consLock' \in Actors \cup {Unlocked}
    BY <1>a, Typed DEF Places
  <2> QED BY <1>a, <1>b, <2>1, <2>2, Typed, TypedNext DEF uart, chip
<1>2. Roles' BY <1>a, Typed DEF Roles, Actors
<1>3. KeyServed'
  BY <1>a, Typed DEF Locked, KeyServed, ConsBusy, Places, Reading, Writing, Serving, Actors,
    cons, uart, chip
<1>4. ReadCounts'
  <2> SUFFICES ASSUME NEW q \in Callers, stage'[q] \notin Reading PROVE got'[q] = 0
    BY <1>c DEF ReadCounts
  <2>1. got \in [Callers -> 0 .. MaxN] /\ stage \in [Actors -> Places] BY Typed
  <2>2. CASE q = p BY <1>a, <2>1, <2>2 DEF Reading
  <2>3. CASE q # p BY <1>a, <2>1, <2>3 DEF ReadCounts, Actors
  <2> QED BY <2>2, <2>3
<1>5. Locked'
  <2>1. p \in Actors /\ consLock = p /\ txLock' = txLock
    BY <1>a DEF Locked, ConsBusy, Actors, uart
  <2>2. CASE UNCHANGED <<consLock, stage>> BY <2>1, <2>2 DEF Locked
  <2>3. CASE consLock' = Unlocked /\ stage' = [stage EXCEPT ![p] = "idle"]
    <3>1. stage'[p] = "idle" /\ \A b \in Actors : b # p => stage'[b] = stage[b]
      BY <2>1, <2>3, Typed
    <3>2. stage[p] \notin TxBusy BY <1>a DEF TxBusy
    <3> QED BY <2>1, <2>3, <3>1, <3>2 DEF Locked, ConsBusy, TxBusy
  <2> QED BY <1>a, <2>2, <2>3
<1>6. InputOutput' BY <1>a, <1>b DEF InputOutput, uart
<1>7. SleepersWait'
  BY <1>1 DEF TypeOK, SleepersWait, TxFull, Actors, ReadKey, ReadReturns, IsAt, Moves, uart,
    chip, bounds
<1>8. Sender'
  BY <1>1 DEF TypeOK, Roles, Sender, Serving, Reading, Writing, Actors, ReadKey, ReadReturns,
    IsAt, Moves, uart, chip, bounds
<1> QED BY <1>1, <1>2, <1>3, <1>4, <1>5, <1>6, <1>7, <1>8

LEMMA KeepsReadDone ==
  ASSUME ConsoleInv, NEW p \in Callers, ReadDone(p)
  PROVE  ConsoleInv'
<1> USE BufferSizes DEF ConsoleInv, Control
<1>1. TypeOK'
  BY DEF TypeOK, ReadCounts, Roles, Actors, ReadDone, ReadReturns, IsAt, Moves, uart, chip,
    bounds
<1>2. Roles'
  BY <1>1 DEF TypeOK, Roles, Reading, Writing, Serving, Actors, ReadDone, ReadReturns, IsAt,
    Moves, uart, chip, bounds
<1>3. KeyServed'
  BY <1>1 DEF TypeOK, Roles, KeyServed, Serving, Reading, Writing, Actors, ReadDone,
    ReadReturns, IsAt, Moves, uart, chip, bounds
<1>4. ReadCounts'
  BY <1>1 DEF TypeOK, Roles, ReadCounts, Reading, Writing, Actors, ReadDone, ReadReturns, IsAt,
    Moves, uart, chip, bounds
<1>5. Locked'
  BY <1>1 DEF TypeOK, Roles, Locked, ConsBusy, TxBusy, Actors, ReadDone, ReadReturns, IsAt,
    Moves, uart, chip, bounds
<1>6. InputOutput' BY DEF InputOutput, ReadDone, ReadReturns, IsAt, Moves, uart, chip, bounds
<1>7. SleepersWait'
  BY <1>1 DEF TypeOK, SleepersWait, TxFull, Actors, ReadDone, ReadReturns, IsAt, Moves, uart,
    chip, bounds
<1>8. Sender'
  BY <1>1 DEF TypeOK, Roles, Sender, Serving, Reading, Writing, Actors, ReadDone, ReadReturns,
    IsAt, Moves, uart, chip, bounds
<1> QED BY <1>1, <1>2, <1>3, <1>4, <1>5, <1>6, <1>7, <1>8

LEMMA KeepsAcquireTxWrite ==
  ASSUME ConsoleInv, NEW p \in Callers, AcquireTx(p, "putLock", "put")
  PROVE  ConsoleInv'
<1> USE BufferSizes DEF ConsoleInv, Control
<1>1. TypeOK'
  BY DEF TypeOK, ReadCounts, Roles, Actors, AcquireTx, IsAt, Moves, cons, chip, bounds
<1>2. Roles'
  BY <1>1 DEF TypeOK, Roles, Reading, Writing, Serving, Actors, AcquireTx, IsAt, Moves, cons,
    chip, bounds
<1>3. KeyServed'
  BY <1>1 DEF TypeOK, Roles, KeyServed, Serving, Reading, Writing, Actors, AcquireTx, IsAt,
    Moves, cons, chip, bounds
<1>4. ReadCounts'
  BY <1>1 DEF TypeOK, Roles, ReadCounts, Reading, Writing, Actors, AcquireTx, IsAt, Moves, cons,
    chip, bounds
<1>5. Locked'
  BY <1>1 DEF TypeOK, Roles, Locked, ConsBusy, TxBusy, Actors, AcquireTx, IsAt, Moves, cons,
    chip, bounds
<1>6. InputOutput' BY DEF InputOutput, AcquireTx, IsAt, Moves, cons, chip, bounds
<1>7. SleepersWait'
  BY <1>1 DEF TypeOK, SleepersWait, TxFull, Actors, AcquireTx, IsAt, Moves, cons, chip, bounds
<1>8. Sender'
  BY <1>1 DEF TypeOK, Roles, Sender, Serving, Reading, Writing, Actors, AcquireTx, IsAt, Moves,
    cons, chip, bounds
<1> QED BY <1>1, <1>2, <1>3, <1>4, <1>5, <1>6, <1>7, <1>8

LEMMA KeepsPutWaits ==
  ASSUME ConsoleInv, NEW p \in Callers, PutWaits(p)
  PROVE  ConsoleInv'
<1> USE BufferSizes DEF ConsoleInv, Control
<1>1. TypeOK'
  BY DEF TypeOK, ReadCounts, Roles, Actors, PutWaits, IsAt, Moves, cons, chip, bounds
<1>2. Roles'
  BY <1>1 DEF TypeOK, Roles, Reading, Writing, Serving, Actors, PutWaits, IsAt, Moves, cons,
    chip, bounds
<1>3. KeyServed'
  BY <1>1 DEF TypeOK, Roles, KeyServed, Serving, Reading, Writing, Actors, PutWaits, IsAt,
    Moves, cons, chip, bounds
<1>4. ReadCounts'
  BY <1>1 DEF TypeOK, Roles, ReadCounts, Reading, Writing, Actors, PutWaits, IsAt, Moves, cons,
    chip, bounds
<1>5. Locked'
  BY <1>1 DEF TypeOK, Roles, Locked, ConsBusy, TxBusy, Actors, PutWaits, IsAt, Moves, cons,
    chip, bounds
<1>6. InputOutput' BY DEF InputOutput, PutWaits, IsAt, Moves, cons, chip, bounds
<1>7. SleepersWait'
  BY <1>1 DEF TypeOK, SleepersWait, TxFull, Actors, PutWaits, IsAt, Moves, cons, chip, bounds
<1>8. Sender'
  BY <1>1 DEF TypeOK, Roles, Sender, Serving, Reading, Writing, Actors, PutWaits, IsAt, Moves,
    cons, chip, bounds
<1> QED BY <1>1, <1>2, <1>3, <1>4, <1>5, <1>6, <1>7, <1>8

LEMMA KeepsPutChar ==
  ASSUME ConsoleInv, NEW p \in Callers, PutChar(p)
  PROVE  ConsoleInv'
<1> USE BufferSizes DEF ConsoleInv, Control
<1>a. PICK c \in Output : txBuf' = [txBuf EXCEPT ![txW % UART_TX_BUF_SIZE] = c] BY DEF PutChar
<1>b. /\ stage[p] = "put" /\ ~ TxFull /\ txW' = Advance(txW) /\ stage' = [stage EXCEPT ![p] = "start"]
      /\ UNCHANGED <<cons, txR, txLock, chip, n, got, key, killed>>
  BY DEF PutChar, IsAt, Moves
<1>c. /\ Ahead(Span, txR', txW') <= UART_TX_BUF_SIZE /\ txW' \in 0 .. Span - 1
      /\ txBuf' \in [0 .. UART_TX_BUF_SIZE - 1 -> Output \cup {NoKey}]
  BY <1>a, <1>b, CharIn
<1>1. TypeOK'
  BY <1>b, <1>c, Typed, TypedNext DEF Places, Reading, Writing, Serving, Actors, cons, uart,
    chip
<1>2. Roles'
  BY <1>1 DEF TypeOK, Roles, Reading, Writing, Serving, Actors, PutChar, IsAt, Moves, cons,
    chip, bounds
<1>3. KeyServed'
  BY <1>1 DEF TypeOK, Roles, KeyServed, Serving, Reading, Writing, Actors, PutChar, IsAt, Moves,
    cons, chip, bounds
<1>4. ReadCounts'
  BY <1>1 DEF TypeOK, Roles, ReadCounts, Reading, Writing, Actors, PutChar, IsAt, Moves, cons,
    chip, bounds
<1>5. Locked'
  BY <1>1 DEF TypeOK, Roles, Locked, ConsBusy, TxBusy, Actors, PutChar, IsAt, Moves, cons, chip,
    bounds
<1>6. InputOutput' BY <1>b, <1>c DEF InputOutput, cons
<1>7. SleepersWait'
  BY <1>1 DEF TypeOK, SleepersWait, TxFull, Actors, PutChar, IsAt, Moves, cons, chip, bounds
<1>8. Sender'
  BY <1>1 DEF TypeOK, Roles, Sender, Serving, Reading, Writing, Actors, PutChar, IsAt, Moves,
    cons, chip, bounds
<1> QED BY <1>1, <1>2, <1>3, <1>4, <1>5, <1>6, <1>7, <1>8

LEMMA KeepsStartSend ==
  ASSUME ConsoleInv, NEW a \in Actors, StartSend(a)
  PROVE  ConsoleInv'
<1> USE BufferSizes DEF ConsoleInv, Control
<1>a. /\ stage[a] = "start" /\ txR # txW /\ txR' = Advance(txR) /\ busy' = TRUE
      /\ UNCHANGED <<cons, txBuf, txW, txLock, rx, raised, n, got, key, killed>>
  BY DEF StartSend, IsAt
<1>b. Ahead(Span, txR', txW') <= UART_TX_BUF_SIZE /\ txR' \in 0 .. Span - 1 BY <1>a, CharOut
<1>1. TypeOK'
  <2>1. stage' \in [Actors -> Places] BY Typed DEF Places, Reading, Writing, StartSend, Awakens
  <2> QED BY <1>a, <1>b, <2>1, Typed, TypedNext DEF cons
<1>2. Roles'
  BY <1>1 DEF TypeOK, Roles, Reading, Writing, Serving, Actors, StartSend, Awakens, IsAt, cons,
    bounds
<1>3. KeyServed'
  BY <1>1 DEF TypeOK, Roles, KeyServed, Serving, Reading, Writing, Actors, StartSend, Awakens,
    IsAt, cons, bounds
<1>4. ReadCounts'
  BY <1>1 DEF TypeOK, Roles, ReadCounts, Reading, Writing, Actors, StartSend, Awakens, IsAt,
    cons, bounds
<1>5. Locked'
  BY <1>1 DEF TypeOK, Roles, Locked, ConsBusy, TxBusy, Actors, StartSend, Awakens, IsAt, cons,
    bounds
<1>6. InputOutput' BY <1>a, <1>b DEF InputOutput, cons
<1>7. SleepersWait'
  BY <1>1 DEF TypeOK, SleepersWait, TxFull, Actors, StartSend, Awakens, IsAt, cons, bounds
<1>8. Sender'
  BY <1>1 DEF TypeOK, Roles, Sender, Serving, Reading, Writing, Actors, StartSend, Awakens,
    IsAt, cons, bounds
<1> QED BY <1>1, <1>2, <1>3, <1>4, <1>5, <1>6, <1>7, <1>8

LEMMA KeepsStartReturns ==
  ASSUME ConsoleInv, NEW a \in Actors, StartReturns(a)
  PROVE  ConsoleInv'
<1> USE BufferSizes DEF ConsoleInv, Control
<1>a. /\ stage[a] = "start" /\ txLock' = Unlocked
      /\ UNCHANGED <<cons, txBuf, txW, txR, chip, got, key, killed>>
      /\ \/ stage' = [stage EXCEPT ![a] = "idle"] /\ n' = n
         \/ /\ a \in Callers /\ stage' = [stage EXCEPT ![a] = "idle"] /\ n' = [n EXCEPT ![a] = 0]
         \/ /\ a \in Callers /\ stage' = [stage EXCEPT ![a] = "putLock"]
            /\ n[a] > 1 /\ n' = [n EXCEPT ![a] = n[a] - 1]
  BY DEF StartReturns, IsAt, Moves, Actors
<1>b. \A q \in Callers : n'[q] \in 0 .. MaxN /\ n'[q] <= n[q]
  <2> TAKE q \in Callers
  <2>1. n \in [Callers -> 0 .. MaxN] BY Typed
  <2>2. CASE q = a BY <1>a, <2>1, <2>2
  <2>3. CASE q # a BY <1>a, <2>1, <2>3
  <2> QED BY <2>2, <2>3
<1>1. TypeOK'
  <2>1. n' \in [Callers -> 0 .. MaxN]
    <3>1. n' = [q \in Callers |-> n'[q]] BY <1>a, Typed
    <3> QED BY <1>b, <3>1
  <2>2. stage' \in [Actors -> Places] BY <1>a, Typed DEF Places, Writing
  <2> QED BY <1>a, <2>1, <2>2, Typed, TypedNext DEF cons, chip
<1>2. Roles' BY <1>a, Typed DEF Roles, Reading, Writing, Serving, Actors
<1>3. KeyServed'
  BY <1>1 DEF TypeOK, Roles, KeyServed, Serving, Reading, Writing, Actors, StartReturns, IsAt,
    Moves, cons, chip, bounds
<1>4. ReadCounts'
  <2> SUFFICES ASSUME NEW q \in Callers
               PROVE  n'[q] + got'[q] <= MaxN /\ (stage'[q] \notin Reading => got'[q] = 0)
    BY DEF ReadCounts
  <2>1. n \in [Callers -> 0 .. MaxN] /\ got \in [Callers -> 0 .. MaxN] /\ stage \in [Actors -> Places]
    BY Typed
  <2>2. n[q] + got[q] <= MaxN /\ (stage[q] \notin Reading => got[q] = 0) BY DEF ReadCounts
  <2>3. n'[q] \in 0 .. MaxN /\ n'[q] <= n[q] /\ got' = got BY <1>a, <1>b
  <2>4. stage'[q] \notin Reading => stage[q] \notin Reading BY <1>a, <2>1 DEF Reading, Actors
  <2> QED BY <2>1, <2>2, <2>3, <2>4
<1>5. Locked'
  <2>1. \A b \in Actors : b # a => stage'[b] = stage[b] BY <1>a, Typed
  <2>2. stage'[a] \in {"idle", "putLock"} BY <1>a, Typed
  <2>3. consLock' = consLock /\ txLock = a BY <1>a DEF Locked, TxBusy, cons
  <2> QED BY <1>a, <2>1, <2>2, <2>3 DEF Locked, ConsBusy, TxBusy
<1>6. InputOutput' BY DEF InputOutput, StartReturns, IsAt, Moves, cons, chip, bounds
<1>7. SleepersWait'
  BY <1>1 DEF TypeOK, SleepersWait, TxFull, Actors, StartReturns, IsAt, Moves, cons, chip,
    bounds
<1>8. Sender'
  BY <1>1 DEF TypeOK, Roles, Sender, Serving, Reading, Writing, Actors, StartReturns, IsAt,
    Moves, cons, chip, bounds
<1> QED BY <1>1, <1>2, <1>3, <1>4, <1>5, <1>6, <1>7, <1>8

LEMMA KeepsInterrupt ==
  ASSUME ConsoleInv, UartInterrupt
  PROVE  ConsoleInv'
<1> USE BufferSizes DEF ConsoleInv, Control
<1>1. TypeOK'
  BY DEF TypeOK, ReadCounts, Roles, Actors, UartInterrupt, IsAt, Moves, cons, uart, bounds
<1>2. Roles'
  BY <1>1 DEF TypeOK, Roles, Reading, Writing, Serving, Actors, UartInterrupt, IsAt, Moves,
    cons, uart, bounds
<1>3. KeyServed'
  BY <1>1 DEF TypeOK, Roles, KeyServed, Serving, Reading, Writing, Actors, UartInterrupt, IsAt,
    Moves, cons, uart, bounds
<1>4. ReadCounts'
  BY <1>1 DEF TypeOK, Roles, ReadCounts, Reading, Writing, Actors, UartInterrupt, IsAt, Moves,
    cons, uart, bounds
<1>5. Locked'
  BY <1>1 DEF TypeOK, Roles, Locked, ConsBusy, TxBusy, Actors, UartInterrupt, IsAt, Moves, cons,
    uart, bounds
<1>6. InputOutput' BY DEF InputOutput, UartInterrupt, IsAt, Moves, cons, uart, bounds
<1>7. SleepersWait'
  BY <1>1 DEF TypeOK, SleepersWait, TxFull, Actors, UartInterrupt, IsAt, Moves, cons, uart,
    bounds
<1>8. Sender'
  BY <1>1 DEF TypeOK, Roles, Sender, Serving, Reading, Writing, Actors, UartInterrupt, IsAt,
    Moves, cons, uart, bounds
<1> QED BY <1>1, <1>2, <1>3, <1>4, <1>5, <1>6, <1>7, <1>8

LEMMA KeepsGetc ==
  ASSUME ConsoleInv, Getc
  PROVE  ConsoleInv'
<1> USE BufferSizes DEF ConsoleInv, Control
<1>1. TypeOK' BY DEF TypeOK, ReadCounts, Roles, Actors, Getc, IsAt, Moves, cons, uart, bounds
<1>2. Roles'
  BY <1>1 DEF TypeOK, Roles, Reading, Writing, Serving, Actors, Getc, IsAt, Moves, cons, uart,
    bounds
<1>3. KeyServed'
  BY <1>1 DEF TypeOK, Roles, KeyServed, Serving, Reading, Writing, Actors, Getc, IsAt, Moves,
    cons, uart, bounds
<1>4. ReadCounts'
  BY <1>1 DEF TypeOK, Roles, ReadCounts, Reading, Writing, Actors, Getc, IsAt, Moves, cons,
    uart, bounds
<1>5. Locked'
  BY <1>1 DEF TypeOK, Roles, Locked, ConsBusy, TxBusy, Actors, Getc, IsAt, Moves, cons, uart,
    bounds
<1>6. InputOutput' BY DEF InputOutput, Getc, IsAt, Moves, cons, uart, bounds
<1>7. SleepersWait'
  BY <1>1 DEF TypeOK, SleepersWait, TxFull, Actors, Getc, IsAt, Moves, cons, uart, bounds
<1>8. Sender'
  BY <1>1 DEF TypeOK, Roles, Sender, Serving, Reading, Writing, Actors, Getc, IsAt, Moves, cons,
    uart, bounds
<1> QED BY <1>1, <1>2, <1>3, <1>4, <1>5, <1>6, <1>7, <1>8

LEMMA KeepsAcquireConsKey ==
  ASSUME ConsoleInv, AcquireCons(Handler, "keyLock", "key")
  PROVE  ConsoleInv'
<1> USE BufferSizes DEF ConsoleInv, Control
<1>1. TypeOK'
  BY DEF TypeOK, ReadCounts, Roles, Actors, AcquireCons, IsAt, Moves, uart, chip, bounds
<1>2. Roles'
  BY <1>1 DEF TypeOK, Roles, Reading, Writing, Serving, Actors, AcquireCons, IsAt, Moves, uart,
    chip, bounds
<1>3. KeyServed'
  BY <1>1 DEF TypeOK, Roles, KeyServed, Serving, Reading, Writing, Actors, AcquireCons, IsAt,
    Moves, uart, chip, bounds
<1>4. ReadCounts'
  BY <1>1 DEF TypeOK, Roles, ReadCounts, Reading, Writing, Actors, AcquireCons, IsAt, Moves,
    uart, chip, bounds
<1>5. Locked'
  BY <1>1 DEF TypeOK, Roles, Locked, ConsBusy, TxBusy, Actors, AcquireCons, IsAt, Moves, uart,
    chip, bounds
<1>6. InputOutput' BY DEF InputOutput, AcquireCons, IsAt, Moves, uart, chip, bounds
<1>7. SleepersWait'
  BY <1>1 DEF TypeOK, SleepersWait, TxFull, Actors, AcquireCons, IsAt, Moves, uart, chip, bounds
<1>8. Sender'
  BY <1>1 DEF TypeOK, Roles, Sender, Serving, Reading, Writing, Actors, AcquireCons, IsAt,
    Moves, uart, chip, bounds
<1> QED BY <1>1, <1>2, <1>3, <1>4, <1>5, <1>6, <1>7, <1>8

LEMMA KeepsErase ==
  ASSUME ConsoleInv, Erase
  PROVE  ConsoleInv'
<1> USE BufferSizes DEF ConsoleInv, Control
<1>a. /\ stage[Handler] = "key" /\ stage' = [stage EXCEPT ![Handler] = "erased"] /\ e # w /\ e' = Retreat(e)
      /\ UNCHANGED <<buf, r, w, consLock, uart, chip, n, got, key, killed>>
  BY DEF Erase, Erasable, IsAt, Moves
<1>b. Middle(Span, r', w', e') /\ Ahead(Span, r', e') <= INPUT_BUF_SIZE /\ e' \in 0 .. Span - 1
  BY <1>a, KeyErased
<1>1. TypeOK'
  BY <1>a, <1>b, Typed, TypedNext DEF Places, Reading, Writing, Serving, Actors, cons, uart,
    chip
<1>2. Roles'
  BY <1>1 DEF TypeOK, Roles, Reading, Writing, Serving, Actors, Erase, Erasable, IsAt, Moves,
    uart, chip, bounds
<1>3. KeyServed'
  BY <1>1 DEF TypeOK, Roles, KeyServed, Serving, Reading, Writing, Actors, Erase, Erasable,
    IsAt, Moves, uart, chip, bounds
<1>4. ReadCounts'
  BY <1>1 DEF TypeOK, Roles, ReadCounts, Reading, Writing, Actors, Erase, Erasable, IsAt, Moves,
    uart, chip, bounds
<1>5. Locked'
  BY <1>1 DEF TypeOK, Roles, Locked, ConsBusy, TxBusy, Actors, Erase, Erasable, IsAt, Moves,
    uart, chip, bounds
<1>6. InputOutput' BY <1>a, <1>b DEF InputOutput, uart
<1>7. SleepersWait'
  BY <1>1 DEF TypeOK, SleepersWait, TxFull, Actors, Erase, Erasable, IsAt, Moves, uart, chip,
    bounds
<1>8. Sender'
  BY <1>1 DEF TypeOK, Roles, Sender, Serving, Reading, Writing, Actors, Erase, Erasable, IsAt,
    Moves, uart, chip, bounds
<1> QED BY <1>1, <1>2, <1>3, <1>4, <1>5, <1>6, <1>7, <1>8

LEMMA KeepsErased ==
  ASSUME ConsoleInv, Erased
  PROVE  ConsoleInv'
<1> USE BufferSizes DEF ConsoleInv, Control
<1>a. /\ stage[Handler] = "erased" /\ busy' = TRUE
      /\ UNCHANGED <<buf, r, w, e, uart, rx, raised, n, got, killed>>
      /\ \/ /\ stage' = [stage EXCEPT ![Handler] = "key"] /\ UNCHANGED <<consLock, key>>
         \/ /\ stage' = [stage EXCEPT ![Handler] = "getc"] /\ consLock' = Unlocked /\ key' = NoKey
  BY DEF Erased, KeyDone, IsAt, Moves
<1>b. \A p \in Callers : stage'[p] = stage[p] BY <1>a, Typed DEF Actors
<1>c. stage' \in [Actors -> Places] /\ stage'[Handler] \in {"key", "getc"}
  BY <1>a, Typed DEF Places, Serving, Actors
<1>1. TypeOK' BY <1>a, <1>c, Typed, TypedNext DEF uart
<1>2. Roles' BY <1>b, <1>c DEF Roles, Serving
<1>3. KeyServed' BY <1>a, Typed DEF KeyServed, Serving, Actors
<1>4. ReadCounts' BY <1>a, <1>b DEF ReadCounts
<1>5. Locked' BY <1>a, Typed DEF Locked, ConsBusy, TxBusy, Actors, uart
<1>6. InputOutput' BY <1>a DEF InputOutput, uart
<1>7. SleepersWait' BY <1>a, <1>b DEF SleepersWait, TxFull, uart
<1>8. Sender' BY <1>a DEF Sender
<1> QED BY <1>1, <1>2, <1>3, <1>4, <1>5, <1>6, <1>7, <1>8

LEMMA KeepsKeyIgnored ==
  ASSUME ConsoleInv, KeyIgnored
  PROVE  ConsoleInv'
<1> USE BufferSizes DEF ConsoleInv, Control
<1>1. TypeOK'
  BY DEF TypeOK, ReadCounts, Roles, Actors, KeyIgnored, KeyDone, IsAt, Moves, uart, chip, bounds
<1>2. Roles'
  BY <1>1 DEF TypeOK, Roles, Reading, Writing, Serving, Actors, KeyIgnored, KeyDone, IsAt,
    Moves, uart, chip, bounds
<1>3. KeyServed'
  BY <1>1 DEF TypeOK, Roles, KeyServed, Serving, Reading, Writing, Actors, KeyIgnored, KeyDone,
    IsAt, Moves, uart, chip, bounds
<1>4. ReadCounts'
  BY <1>1 DEF TypeOK, Roles, ReadCounts, Reading, Writing, Actors, KeyIgnored, KeyDone, IsAt,
    Moves, uart, chip, bounds
<1>5. Locked'
  BY <1>1 DEF TypeOK, Roles, Locked, ConsBusy, TxBusy, Actors, KeyIgnored, KeyDone, IsAt, Moves,
    uart, chip, bounds
<1>6. InputOutput' BY DEF InputOutput, KeyIgnored, KeyDone, IsAt, Moves, uart, chip, bounds
<1>7. SleepersWait'
  BY <1>1 DEF TypeOK, SleepersWait, TxFull, Actors, KeyIgnored, KeyDone, IsAt, Moves, uart,
    chip, bounds
<1>8. Sender'
  BY <1>1 DEF TypeOK, Roles, Sender, Serving, Reading, Writing, Actors, KeyIgnored, KeyDone,
    IsAt, Moves, uart, chip, bounds
<1> QED BY <1>1, <1>2, <1>3, <1>4, <1>5, <1>6, <1>7, <1>8

LEMMA KeepsEcho ==
  ASSUME ConsoleInv, Echo
  PROVE  ConsoleInv'
<1> USE BufferSizes DEF ConsoleInv, Control
<1>1. TypeOK'
  BY DEF TypeOK, ReadCounts, Roles, Actors, Echo, Room, Between, Ahead, IsAt, Moves, cons, uart,
    bounds
<1>2. Roles'
  BY <1>1 DEF TypeOK, Roles, Reading, Writing, Serving, Actors, Echo, Room, Between, Ahead,
    IsAt, Moves, cons, uart, bounds
<1>3. KeyServed'
  BY <1>1 DEF TypeOK, Roles, KeyServed, Serving, Reading, Writing, Actors, Echo, Room, Between,
    Ahead, IsAt, Moves, cons, uart, bounds
<1>4. ReadCounts'
  BY <1>1 DEF TypeOK, Roles, ReadCounts, Reading, Writing, Actors, Echo, Room, Between, Ahead,
    IsAt, Moves, cons, uart, bounds
<1>5. Locked'
  BY <1>1 DEF TypeOK, Roles, Locked, ConsBusy, TxBusy, Actors, Echo, Room, Between, Ahead, IsAt,
    Moves, cons, uart, bounds
<1>6. InputOutput'
  BY DEF InputOutput, Echo, Room, Between, Ahead, IsAt, Moves, cons, uart, bounds
<1>7. SleepersWait'
  BY <1>1 DEF TypeOK, SleepersWait, TxFull, Actors, Echo, Room, Between, Ahead, IsAt, Moves,
    cons, uart, bounds
<1>8. Sender'
  BY <1>1 DEF TypeOK, Roles, Sender, Serving, Reading, Writing, Actors, Echo, Room, Between,
    Ahead, IsAt, Moves, cons, uart, bounds
<1> QED BY <1>1, <1>2, <1>3, <1>4, <1>5, <1>6, <1>7, <1>8

LEMMA KeepsStore ==
  ASSUME ConsoleInv, StoreKey
  PROVE  ConsoleInv'
<1> USE BufferSizes DEF ConsoleInv, Control
<1>a. /\ stage[Handler] = "store" /\ consLock' = Unlocked /\ key' = NoKey /\ e' = Advance(e)
      /\ buf' = [buf EXCEPT ![e % INPUT_BUF_SIZE] = key] /\ (w' = w \/ w' = Advance(e))
      /\ UNCHANGED <<r, uart, chip, n, got, killed>>
  BY DEF StoreKey, IsAt
<1>b. /\ stage' \in [Actors -> Places] /\ stage'[Handler] = "getc"
      /\ \A p \in Callers : stage'[p] = stage[p] \/ (stage[p] = "readSleep" /\ stage'[p] = "readLock")
  <2>1. CASE Awakens("readSleep", Handler, "getc")
    <3>1. stage' \in [Actors -> Places] BY <2>1, Typed DEF Awakens, Places, Reading, Writing
    <3>2. stage'[Handler] = "getc" BY <1>a, <2>1 DEF Awakens, Actors
    <3>3. \A p \in Callers : stage'[p] = stage[p] \/ (stage[p] = "readSleep" /\ stage'[p] = "readLock")
      BY <2>1 DEF Awakens, Actors
    <3> QED BY <3>1, <3>2, <3>3
  <2>2. CASE Moves(Handler, "getc") BY <2>2, Typed DEF Moves, Places, Actors
  <2> QED BY <2>1, <2>2 DEF StoreKey
<1>c. w' = w \/ \A p \in Callers : stage'[p] # "readSleep"
  BY Typed DEF StoreKey, Awakens, Actors
<1>d. /\ Middle(Span, r', w', e') /\ Ahead(Span, r', e') <= INPUT_BUF_SIZE
      /\ e' \in 0 .. Span - 1 /\ w' \in 0 .. Span - 1
      /\ buf' \in [0 .. INPUT_BUF_SIZE - 1 -> Keys \cup {NoKey}]
  <2>1. key \in Keys /\ Ahead(Span, r, e) < INPUT_BUF_SIZE BY <1>a DEF KeyServed, Serving
  <2> QED BY <1>a, <2>1, KeyIn
<1>1. TypeOK' BY <1>a, <1>b, <1>d, Typed, TypedNext DEF uart, chip
<1>2. Roles' BY <1>b DEF Roles, Reading
<1>3. KeyServed' BY <1>b DEF KeyServed, Serving
<1>4. ReadCounts'
  <2>1. n' = n /\ got' = got BY <1>a
  <2> QED BY <1>b, <2>1 DEF ReadCounts, Reading
<1>5. Locked' BY <1>a, <1>b DEF Locked, ConsBusy, TxBusy, Actors, uart
<1>6. InputOutput' BY <1>a, <1>d DEF InputOutput, uart
<1>7. SleepersWait' BY <1>a, <1>b, <1>c DEF SleepersWait, TxFull, uart
<1>8. Sender' BY <1>b DEF Sender
<1> QED BY <1>1, <1>2, <1>3, <1>4, <1>5, <1>6, <1>7, <1>8

LEMMA KeepsAcquireTxStart ==
  ASSUME ConsoleInv, AcquireTx(Handler, "startLock", "start")
  PROVE  ConsoleInv'
<1> USE BufferSizes DEF ConsoleInv, Control
<1>1. TypeOK'
  BY DEF TypeOK, ReadCounts, Roles, Actors, AcquireTx, IsAt, Moves, cons, chip, bounds
<1>2. Roles'
  BY <1>1 DEF TypeOK, Roles, Reading, Writing, Serving, Actors, AcquireTx, IsAt, Moves, cons,
    chip, bounds
<1>3. KeyServed'
  BY <1>1 DEF TypeOK, Roles, KeyServed, Serving, Reading, Writing, Actors, AcquireTx, IsAt,
    Moves, cons, chip, bounds
<1>4. ReadCounts'
  BY <1>1 DEF TypeOK, Roles, ReadCounts, Reading, Writing, Actors, AcquireTx, IsAt, Moves, cons,
    chip, bounds
<1>5. Locked'
  BY <1>1 DEF TypeOK, Roles, Locked, ConsBusy, TxBusy, Actors, AcquireTx, IsAt, Moves, cons,
    chip, bounds
<1>6. InputOutput' BY DEF InputOutput, AcquireTx, IsAt, Moves, cons, chip, bounds
<1>7. SleepersWait'
  BY <1>1 DEF TypeOK, SleepersWait, TxFull, Actors, AcquireTx, IsAt, Moves, cons, chip, bounds
<1>8. Sender'
  BY <1>1 DEF TypeOK, Roles, Sender, Serving, Reading, Writing, Actors, AcquireTx, IsAt, Moves,
    cons, chip, bounds
<1> QED BY <1>1, <1>2, <1>3, <1>4, <1>5, <1>6, <1>7, <1>8

LEMMA KeepsTransmitted ==
  ASSUME ConsoleInv, Transmitted
  PROVE  ConsoleInv'
<1> USE BufferSizes DEF ConsoleInv, Control
<1>1. TypeOK' BY DEF TypeOK, ReadCounts, Roles, Actors, Transmitted, cons, uart, actor, bounds
<1>2. Roles'
  BY <1>1 DEF TypeOK, Roles, Reading, Writing, Serving, Actors, Transmitted, cons, uart, actor,
    bounds
<1>3. KeyServed'
  BY <1>1 DEF TypeOK, Roles, KeyServed, Serving, Reading, Writing, Actors, Transmitted, cons,
    uart, actor, bounds
<1>4. ReadCounts'
  BY <1>1 DEF TypeOK, Roles, ReadCounts, Reading, Writing, Actors, Transmitted, cons, uart,
    actor, bounds
<1>5. Locked'
  BY <1>1 DEF TypeOK, Roles, Locked, ConsBusy, TxBusy, Actors, Transmitted, cons, uart, actor,
    bounds
<1>6. InputOutput' BY DEF InputOutput, Transmitted, cons, uart, actor, bounds
<1>7. SleepersWait'
  BY <1>1 DEF TypeOK, SleepersWait, TxFull, Actors, Transmitted, cons, uart, actor, bounds
<1>8. Sender'
  BY <1>1 DEF TypeOK, Roles, Sender, Serving, Reading, Writing, Actors, Transmitted, cons, uart,
    actor, bounds
<1> QED BY <1>1, <1>2, <1>3, <1>4, <1>5, <1>6, <1>7, <1>8

LEMMA KeepsReceived ==
  ASSUME ConsoleInv, Received
  PROVE  ConsoleInv'
<1> USE BufferSizes DEF ConsoleInv, Control
<1>1. TypeOK' BY DEF TypeOK, ReadCounts, Roles, Actors, Received, cons, uart, actor
<1>2. Roles'
  BY <1>1 DEF TypeOK, Roles, Reading, Writing, Serving, Actors, Received, cons, uart, actor
<1>3. KeyServed'
  BY <1>1 DEF TypeOK, Roles, KeyServed, Serving, Reading, Writing, Actors, Received, cons, uart,
    actor
<1>4. ReadCounts'
  BY <1>1 DEF TypeOK, Roles, ReadCounts, Reading, Writing, Actors, Received, cons, uart, actor
<1>5. Locked'
  BY <1>1 DEF TypeOK, Roles, Locked, ConsBusy, TxBusy, Actors, Received, cons, uart, actor
<1>6. InputOutput' BY DEF InputOutput, Received, cons, uart, actor
<1>7. SleepersWait'
  BY <1>1 DEF TypeOK, SleepersWait, TxFull, Actors, Received, cons, uart, actor
<1>8. Sender'
  BY <1>1 DEF TypeOK, Roles, Sender, Serving, Reading, Writing, Actors, Received, cons, uart,
    actor
<1> QED BY <1>1, <1>2, <1>3, <1>4, <1>5, <1>6, <1>7, <1>8

LEMMA NextIInv == ConsoleInv /\ [ConsoleNext]_consoleVars => ConsoleInv'
<1> SUFFICES ASSUME ConsoleInv, [ConsoleNext]_consoleVars PROVE ConsoleInv'
  OBVIOUS
<1>1. CASE \E p \in Callers : Call(p, "readLock") \/ Call(p, "putLock") \/ KillCaller(p) \/ Caller(p)
  <2>1. PICK p \in Callers : Call(p, "readLock") \/ Call(p, "putLock") \/ KillCaller(p) \/ Caller(p)
    BY <1>1
  <2>2. p \in Actors BY DEF Actors
  <2>3. CASE Caller(p)
    BY <2>2, <2>3, KeepsAcquireConsRead, KeepsReadWaits, KeepsReadEof, KeepsReadKey,
      KeepsReadDone, KeepsAcquireTxWrite, KeepsPutWaits, KeepsPutChar, KeepsStartSend,
      KeepsStartReturns DEF Caller
  <2> QED BY <2>1, <2>3, KeepsCallRead, KeepsCallWrite, KeepsKill
<1>2. CASE ServeUart
  <2>1. Handler \in Actors BY DEF Actors
  <2> QED BY <1>2, <2>1, KeepsInterrupt, KeepsGetc, KeepsAcquireConsKey, KeepsErase,
    KeepsErased, KeepsKeyIgnored, KeepsEcho, KeepsStore, KeepsAcquireTxStart, KeepsStartSend,
    KeepsStartReturns DEF ServeUart
<1>3. CASE Transmitted \/ Received BY <1>3, KeepsTransmitted, KeepsReceived
<1>4. CASE UNCHANGED consoleVars
  <2> USE <1>4 DEF consoleVars, cons, uart, chip, actor, bounds
  <2>1. TypeOK' BY Typed, TypedNext DEF ConsoleInv
  <2>2. Control' BY DEF ConsoleInv, Control, Roles, KeyServed, ReadCounts, Locked
  <2>3. InputOutput' /\ SleepersWait' /\ Sender'
    BY DEF ConsoleInv, InputOutput, SleepersWait, TxFull, Sender
  <2> QED BY <2>1, <2>2, <2>3 DEF ConsoleInv
<1> QED BY <1>1, <1>2, <1>3, <1>4 DEF ConsoleNext

LEMMA Inductive == ConsoleSpec => []ConsoleInv
BY InitIInv, NextIInv, PTL DEF ConsoleSpec

-----
\* The theorems
\* Counters, owners of the locks and locals of the calls stay in range: no cell
\* outside a buffer is touched, and read() returns at most what it was asked for.
THEOREM TypeCorrect == ConsoleSpec => []TypeOK
<1>1. ConsoleInv => TypeOK BY DEF ConsoleInv
<1> QED BY <1>1, Inductive, PTL

\* With the lock free nobody sleeps on a condition of consoleread() or uartputc()
\* that holds, and what uart_tx_buf holds has somebody to send it.
THEOREM Awake == ConsoleSpec => []NobodyStranded
<1>1. ASSUME ConsoleInv PROVE NobodyStranded
  <2>1. \A p \in Callers : /\ stage[p] = "readSleep" => r = w
                           /\ stage[p] = "putSleep" => TxFull
    BY <1>1 DEF ConsoleInv, SleepersWait
  <2>2. ASSUME txLock = Unlocked, txW # txR
        PROVE  busy \/ raised \/ stage[Handler] \in {"getc", "startLock"} \cup Serving
    <3>1. \A a \in Actors : stage[a] # "start"
      BY <1>1, <2>2, BufferSizes DEF ConsoleInv, Control, Locked, TxBusy
    <3> QED BY <1>1, <2>2, <3>1 DEF ConsoleInv, Sender
  <2> QED BY <2>1, <2>2 DEF NobodyStranded, Serving
<1> QED BY <1>1, Inductive, PTL

-----
\* The refinements
LEMMA Empty ==
  ASSUME ConsoleInit
  PROVE  Ready = <<>> /\ Line = <<>> /\ Out = <<>>
<1>1. /\ Held(buf, INPUT_BUF_SIZE, Span, FirstCount, FirstCount) = <<>>
      /\ Held(txBuf, UART_TX_BUF_SIZE, Span, FirstCount, FirstCount) = <<>>
  BY BufferSizes, HeldNothing
<1> QED BY <1>1, Parts DEF ConsoleInit

\* The ring of the input changes in three actions, that of the output in two.
LEMMA Untouched ==
  ASSUME [ConsoleNext]_consoleVars
  PROVE  /\ \/ UNCHANGED <<Ready, Line>>
            \/ \E p \in Callers : ReadEof(p) \/ ReadKey(p)
            \/ Erase \/ StoreKey
         /\ \/ UNCHANGED Out
            \/ \E p \in Callers : PutChar(p)
            \/ \E a \in Actors : StartSend(a)
<1>1. UNCHANGED <<buf, r, w, e>> => UNCHANGED <<Ready, Line>> BY DEF Ready, Line
<1>2. UNCHANGED <<txBuf, txR, txW>> => UNCHANGED Out BY DEF Out
<1> USE DEF cons, uart
<1>3. CASE \E p \in Callers : Call(p, "readLock") \/ Call(p, "putLock") \/ KillCaller(p) \/ Caller(p)
  <2>1. PICK p \in Callers : Call(p, "readLock") \/ Call(p, "putLock") \/ KillCaller(p) \/ Caller(p)
    BY <1>3
  <2>2. p \in Actors BY DEF Actors
  <2>3. UNCHANGED <<buf, r, w, e>> \/ ReadEof(p) \/ ReadKey(p)
    BY <2>1 DEF Call, KillCaller, Caller, AcquireCons, ReadWaits, ReadDone, AcquireTx, PutWaits,
      PutChar, StartSend, StartReturns
  <2>4. UNCHANGED <<txBuf, txR, txW>> \/ PutChar(p) \/ StartSend(p)
    BY <2>1 DEF Call, KillCaller, Caller, AcquireCons, ReadWaits, ReadEof, ReadKey, ReadDone,
      AcquireTx, PutWaits, StartReturns
  <2> QED BY <1>1, <1>2, <2>2, <2>3, <2>4
<1>4. CASE ServeUart
  <2>1. UNCHANGED <<buf, r, w, e>> \/ Erase \/ StoreKey
    BY <1>4 DEF ServeUart, UartInterrupt, Getc, AcquireCons, Erased, KeyIgnored, KeyDone, Echo,
      AcquireTx, StartSend, StartReturns
  <2>2. UNCHANGED <<txBuf, txR, txW>> \/ StartSend(Handler)
    BY <1>4 DEF ServeUart, UartInterrupt, Getc, AcquireCons, Erase, Erased, KeyIgnored, Echo,
      StoreKey, AcquireTx, StartReturns
  <2>3. Handler \in Actors BY DEF Actors
  <2> QED BY <1>1, <1>2, <2>1, <2>2, <2>3
<1>5. CASE Transmitted \/ Received BY <1>1, <1>2, <1>5 DEF Transmitted, Received
<1>6. CASE UNCHANGED consoleVars BY <1>1, <1>2, <1>6 DEF consoleVars
<1> QED BY <1>3, <1>4, <1>5, <1>6 DEF ConsoleNext

LEMMA LineInit == ConsoleInit => L!Init
BY Empty DEF Ready, Line, L!Init

LEMMA LineNext == ConsoleInv /\ [ConsoleNext]_consoleVars => [L!Next]_(L!vars)
<1> SUFFICES ASSUME ConsoleInv, [ConsoleNext]_consoleVars PROVE [L!Next]_(L!vars)
  OBVIOUS
<1>1. CASE UNCHANGED <<Ready, Line>> BY <1>1 DEF L!vars, Ready, Line
<1>2. ASSUME NEW p \in Callers, ReadEof(p) \/ ReadKey(p) PROVE [L!Next]_(L!vars)
  <2>1. r # w /\ UNCHANGED <<buf, w, e>> /\ (r' = r \/ r' = Advance(r))
    BY <1>2 DEF ReadEof, ReadKey
  <2>2. CASE r' = r BY <2>1, <2>2 DEF L!vars, Part, Between
  <2>3. CASE r' = Advance(r)
    <3>1. Ready' = Tail(Ready) /\ Ready # <<>> /\ Line' = Line
      BY <2>1, <2>3, KeyOut DEF ConsoleInv
    <3> QED BY <3>1 DEF L!Next, L!Read, Ready, Line
  <2> QED BY <2>1, <2>2, <2>3
<1>3. CASE Erase
  <2>1. e # w /\ e' = Retreat(e) /\ UNCHANGED <<buf, r, w>> BY <1>3 DEF Erase, Erasable
  <2>2. Line' = SubSeq(Line, 1, Len(Line) - 1) /\ Line # <<>> /\ Ready' = Ready
    BY <2>1, KeyErased DEF ConsoleInv
  <2> QED BY <2>2 DEF L!Next, L!Erase, Ready, Line
<1>4. CASE StoreKey
  <2>1. key \in Enders \cup {Letter} /\ key \in Keys /\ Ahead(Span, r, e) < INPUT_BUF_SIZE
    BY <1>4 DEF StoreKey, IsAt, ConsoleInv, Control, KeyServed, Keys
  <2>2. /\ buf' = [buf EXCEPT ![e % INPUT_BUF_SIZE] = key] /\ e' = Advance(e) /\ r' = r
        /\ IF key \in Enders \/ Ahead(Span, r, Advance(e)) = INPUT_BUF_SIZE
             THEN w' = Advance(e) ELSE w' = w
    BY <1>4 DEF StoreKey, Between, Ahead
  <2>3. /\ w' = w => Ready' = Ready /\ Line' = Append(Line, key)
        /\ w' = Advance(e) => Ready' = Ready \o Append(Line, key) /\ Line' = <<>>
        /\ Ahead(Span, r, Advance(e)) = Ahead(Span, r, e) + 1
    BY <2>1, <2>2, KeyIn DEF ConsoleInv
  <2>4. Len(Ready) + Len(Line) = Ahead(Span, r, e) BY Input DEF ConsoleInv
  <2>5. Len(Ready) + Len(Line) < INPUT_BUF_SIZE BY <2>1, <2>4
  <2>6. key \in Enders \/ Ahead(Span, r, Advance(e)) = INPUT_BUF_SIZE
          <=> key \in Enders \/ Len(Ready) + Len(Line) + 1 = INPUT_BUF_SIZE
    BY <2>3, <2>4
  <2>7. IF key \in Enders \/ Len(Ready) + Len(Line) + 1 = INPUT_BUF_SIZE
          THEN Ready' = Ready \o Append(Line, key) /\ Line' = <<>>
          ELSE Line' = Append(Line, key) /\ Ready' = Ready
    BY <2>2, <2>3, <2>6, Zenon
  <2>8. L!Type(key) BY <2>5, <2>7 DEF L!Type, L!Ends, Ready, Line
  <2> QED BY <2>1, <2>8 DEF L!Next
<1> QED BY <1>1, <1>2, <1>3, <1>4, Untouched

LEMMA OutputInit == ConsoleInit => O!Init
BY Empty DEF Out, O!Init

LEMMA OutputNext == ConsoleInv /\ [ConsoleNext]_consoleVars => [O!Next]_(O!vars)
<1> SUFFICES ASSUME ConsoleInv, [ConsoleNext]_consoleVars PROVE [O!Next]_(O!vars)
  OBVIOUS
<1>1. CASE UNCHANGED Out BY <1>1 DEF O!vars, Out
<1>2. ASSUME NEW p \in Callers, PutChar(p) PROVE O!Next
  <2>1. PICK c \in Output : txBuf' = [txBuf EXCEPT ![txW % UART_TX_BUF_SIZE] = c]
    BY <1>2 DEF PutChar
  <2>2. ~ TxFull /\ txW' = Advance(txW) /\ txR' = txR BY <1>2 DEF PutChar
  <2>3. Out' = Append(Out, c) /\ Len(Out) < UART_TX_BUF_SIZE
    BY <2>1, <2>2, CharIn DEF ConsoleInv
  <2>4. O!Put(c) BY <2>3 DEF O!Put, Out
  <2> QED BY <2>4 DEF O!Next
<1>3. ASSUME NEW a \in Actors, StartSend(a) PROVE O!Next
  <2>1. txR # txW /\ txBuf' = txBuf /\ txR' = Advance(txR) /\ txW' = txW BY <1>3 DEF StartSend
  <2>2. Out' = Tail(Out) /\ Out # <<>> BY <2>1, CharOut DEF ConsoleInv
  <2>3. O!Get BY <2>2 DEF O!Get, Out
  <2> QED BY <2>3 DEF O!Next
<1> QED BY <1>1, <1>2, <1>3, Untouched

\* consoleintr() and consoleread() implement a line editor: only the line that is
\* not finished is edited, and finished input is read once, in order.
THEOREM InputRefinement == ConsoleSpec => IsLineInput
<1>1. ConsoleInit => L!Init BY LineInit
<1>2. ConsoleInv /\ [ConsoleNext]_consoleVars => [L!Next]_(L!vars) BY LineNext
<1> QED BY <1>1, <1>2, Inductive, PTL DEF ConsoleSpec, IsLineInput, L!Spec

\* The transmit buffer implements a bounded queue: what uartputc() puts in leaves
\* in order, once, whether write() or the interrupt runs uartstart().
THEOREM OutputRefinement == ConsoleSpec => OutputInOrder
<1>1. ConsoleInit => O!Init BY OutputInit
<1>2. ConsoleInv /\ [ConsoleNext]_consoleVars => [O!Next]_(O!vars) BY OutputNext
<1> QED BY <1>1, <1>2, Inductive, PTL DEF ConsoleSpec, OutputInOrder, O!Spec

-----
\* XvDisk: whatever the number of processes, blocks, buffers and
\* descriptors, the order in which the device serves its requests and the
\* place where the rings wrap, the cache is a store of blocks, a
\* descriptor belongs to one request, and no sleeper is forgotten.
Contents  == Values \cup Blocks \cup {Zero}
Inside    == {"use", "submit", "descSleep", "ioSleep", "wait"}  \* with the sleep-lock
Asking    == Inside \ {"use"}                                   \* in virtio_disk_rw()
Users(b)  == {p \in Procs : mine[p] = b}
Clean(b)  == data[b] = platter[blockno[b]]

\* What the rings hold, and the requests that the driver has not seen answered.
AvailQ == Held(avail, NUM, Wrap, seen, availIdx)
UsedQ  == Held(used, NUM, Wrap, used_idx, usedIdx)
InAvail == ToSet(AvailQ)
InUsed  == ToSet(UsedQ)
Told    == InAvail \cup service
Queued  == Told \cup InUsed
Once(s) == \A i, j \in DOMAIN s : s[i] = s[j] => i = j
Orderly == Once(AvailQ) /\ Once(UsedQ)

CacheTyped ==
  /\ blockno \in [Bufs -> Blocks \cup {NoBlock}] /\ valid \in [Bufs -> BOOLEAN]
  /\ data \in [Bufs -> Contents] /\ onDisk \in [Bufs -> BOOLEAN]
  /\ refcnt \in [Bufs -> Nat] /\ lock \in [Bufs -> Procs \cup {Nobody}]
  /\ order \in [1 .. NBUF -> Bufs] /\ platter \in [Blocks -> Contents]

DiskTyped ==
  /\ free \in SUBSET Descs /\ next \in [Descs -> Descs]
  /\ req \in [Descs -> [write : BOOLEAN, buf : Bufs \cup {NoBuf}]]
  /\ info \in [Descs -> Bufs \cup {NoBuf}] /\ failed \in [Descs -> BOOLEAN]
  /\ avail \in [Descs -> Descs] /\ used \in [Descs -> Descs] /\ service \in SUBSET Descs
  /\ availIdx \in 0 .. Wrap - 1 /\ usedIdx \in 0 .. Wrap - 1
  /\ used_idx \in 0 .. Wrap - 1 /\ seen \in 0 .. Wrap - 1
  /\ irq \in BOOLEAN /\ handler \in {"idle", "loop"}

ProcsTyped ==
  /\ pc \in [Procs -> Inside \cup {"user", "panic", "acquire", "lockSleep", "released"}]
  /\ mine \in [Procs -> Bufs \cup {NoBuf}] /\ io \in [Procs -> {"read", "write"}]
  /\ idx \in [Procs -> Descs \cup {NoDesc}] /\ calls \in 0 .. MaxCalls

\* Who has which buffer, and who is inside its sleep-lock.
Owners ==
  /\ \A p \in Procs : mine[p] = NoBuf <=> pc[p] \in {"user", "panic"}
  /\ \A p \in Procs, b \in Bufs : mine[p] = b => blockno[b] \in Blocks
  /\ \A p \in Procs, b \in Bufs : lock[b] = p <=> mine[p] = b /\ pc[p] \in Inside

Counted == \A b \in Bufs : refcnt[b] = Cardinality(Users(b))

\* A block is in one buffer, and every buffer is in the list.
Cache ==
  /\ \A a, b \in Bufs : blockno[a] = blockno[b] /\ blockno[a] # NoBlock => a = b
  /\ \A b \in Bufs : valid[b] => blockno[b] \in Blocks
  /\ \A b \in Bufs : \E k \in 1 .. NBUF : order[k] = b

\* When a buffer equals the disk, and when it is not yet valid.
Fresh ==
  /\ \A b \in Bufs : valid[b] /\ lock[b] = Nobody => Clean(b)
  /\ \A p \in Procs : pc[p] = "use" => valid[mine[p]] /\ Clean(mine[p])
  /\ \A p \in Procs : pc[p] \in Asking => (valid[mine[p]] <=> io[p] = "write")
  /\ \A p \in Requesters : idx[p] \notin Told => Clean(mine[p])

\* The descriptors of a request are its own.
Chains ==
  /\ \A p \in Requesters :
       /\ idx[p] \in Descs
       /\ idx[p] # next[idx[p]] /\ idx[p] # next[next[idx[p]]]
       /\ next[idx[p]] # next[next[idx[p]]]
       /\ Chain(idx[p]) \cap free = {}
       /\ info[idx[p]] = mine[p]
       /\ req[idx[p]] = [write |-> io[p] = "write", buf |-> mine[p]]
  /\ \A p, q \in Requesters : p # q => Chain(idx[p]) \cap Chain(idx[q]) = {}
  /\ \A d \in Descs \ free : \E p \in Requesters : d \in Chain(idx[p])

\* A request is in one place, once.
Rings ==
  /\ Orderly /\ InAvail \cap service = {} /\ Told \cap InUsed = {}

\* Who waits for what the device has, and the device has nothing else.
Served ==
  /\ \A d \in Queued : \E p \in Requesters : idx[p] = d
  /\ \A p \in Requesters : onDisk[mine[p]] <=> idx[p] \in Queued
  /\ \A d \in InUsed : ~ failed[d]

\* Whoever sleeps has a reason.
Sleepers ==
  /\ \A p \in Procs : pc[p] = "lockSleep" => lock[mine[p]] # Nobody
  /\ \A p \in Procs : pc[p] = "descSleep" => Cardinality(free) < 3
  /\ \A p \in Procs : pc[p] = "ioSleep" => idx[p] \in Queued
  /\ used_idx # usedIdx => irq \/ handler = "loop"

\* The inductive invariant.
IInv ==
  /\ CacheTyped /\ DiskTyped /\ ProcsTyped /\ Owners /\ Counted /\ Cache /\ Fresh
  /\ Chains /\ Rings /\ Served /\ Sleepers

-----
\* Numbers, sets and sequences.
LEMMA Sizes ==
  /\ NUM \in Nat \ {0} /\ NUM >= 3 /\ Wrap \in Nat \ {0} /\ NUM < Wrap /\ Wrap % NUM = 0
  /\ Start \in 0 .. Wrap - 1 /\ MaxCalls \in Nat /\ NBUF \in Nat
  /\ IsFiniteSet(Procs)
  /\ Nobody \notin Procs /\ NoBlock \notin Blocks
  /\ NoBuf \notin Bufs /\ NoDesc \notin Descs /\ Descs \subseteq Nat /\ 0 \in Descs
BY DiskAssumption, BuffersAssumption, NamesAssumption DEF Bufs, Descs, NoBuf, NoDesc

LEMMA FiniteDescs == IsFiniteSet(Descs) /\ Cardinality(Descs) = NUM
<1>1. NUM - 1 \in Int /\ 0 \in Int /\ 0 <= NUM - 1 BY Sizes
<1>2. IsFiniteSet(0 .. NUM - 1) /\ Cardinality(0 .. NUM - 1) = (NUM - 1) - 0 + 1
  BY <1>1, FS_Interval
<1> QED BY <1>1, <1>2, Sizes DEF Descs

LEMMA FreeIsFinite ==
  ASSUME free \in SUBSET Descs
  PROVE  /\ IsFiniteSet(free) /\ Cardinality(free) \in Nat
         /\ IsFiniteSet(Descs \ free) /\ Cardinality(Descs \ free) = NUM - Cardinality(free)
<1>1. IsFiniteSet(free) /\ Cardinality(free) \in Nat
  BY FiniteDescs, FS_Subset, FS_CardinalityType
<1>2. Descs \cap free = free OBVIOUS
<1>3. /\ IsFiniteSet(Descs \ free)
      /\ Cardinality(Descs \ free) = Cardinality(Descs) - Cardinality(Descs \cap free)
  BY <1>1, FiniteDescs, FS_Difference
<1> QED BY <1>1, <1>2, <1>3, FiniteDescs

\* Every set of numbers has a least one, and one with a bound a greatest.
LEMMA Least ==
  ASSUME NEW S \in SUBSET Nat, S # {}
  PROVE  \E m \in S : \A x \in S : m <= x
<1> DEFINE R == OpToRel(<, Nat)
<1>1. IsWellFoundedOn(R, Nat) BY NatLessThanWellFounded, Zenon
<1>2. \A x, y \in Nat : y < x => <<y, x>> \in R BY DEF OpToRel
<1> HIDE DEF R
<1>3. PICK m \in S : \A y \in S : ~ (<<y, m>> \in R) BY <1>1, WFMin, Zenon
<1>4. \A x \in S : ~ (x < m) BY <1>2, <1>3
<1> QED BY <1>4

LEMMA Greatest ==
  ASSUME NEW top \in Nat, NEW S \in SUBSET (1 .. top), S # {}
  PROVE  \E m \in S : \A x \in S : x <= m
<1> DEFINE T == {top - x : x \in S}
<1>1. \A x \in S : x \in 1 .. top /\ top - x \in T OBVIOUS
<1>2. \A t \in T : \E x \in S : t = top - x OBVIOUS
<1> HIDE DEF T
<1>3. T \in SUBSET Nat /\ T # {}
  <2>1. \A x \in S : top - x \in Nat BY <1>1
  <2>2. \A t \in T : t \in Nat BY <1>2, <2>1
  <2>3. T # {} BY <1>1
  <2> QED BY <2>2, <2>3
<1>4. PICK t \in T : \A x \in T : t <= x BY <1>3, Least, Zenon
<1>5. PICK m \in S : t = top - m BY <1>2
<1>6. \A x \in S : top - m <= top - x BY <1>1, <1>4, <1>5
<1>7. \A x \in S : x <= m BY <1>1, <1>6
<1> QED BY <1>7

LEMMA ThreeLeast ==
  ASSUME NEW F \in SUBSET Nat, IsFiniteSet(F), Cardinality(F) >= 3
  PROVE  \E a, b, c \in F : a < b /\ b < c /\ \A d \in F : d < c => d \in {a, b, c}
<1>0. Cardinality(F) \in Nat BY FS_CardinalityType
<1>1. F # {} BY FS_EmptySet
<1>2. PICK a \in F : \A x \in F : a <= x BY <1>1, Least, Zenon
<1> DEFINE G == F \ {a}
<1>3. IsFiniteSet(G) /\ Cardinality(G) = Cardinality(F) - 1 /\ G \in SUBSET Nat
  BY FS_RemoveElement, Zenon
<1> HIDE DEF G
<1>4. G # {} BY <1>0, <1>3, FS_EmptySet
<1>5. PICK b \in G : \A x \in G : b <= x BY <1>3, <1>4, Least, Zenon
<1> DEFINE H == G \ {b}
<1>6. IsFiniteSet(H) /\ Cardinality(H) = Cardinality(G) - 1 /\ H \in SUBSET Nat
  BY <1>3, FS_RemoveElement, Zenon
<1> HIDE DEF H
<1>7. H # {} BY <1>0, <1>3, <1>6, FS_EmptySet
<1>8. PICK c \in H : \A x \in H : c <= x BY <1>6, <1>7, Least, Zenon
<1>9. G = F \ {a} /\ H = F \ {a, b} BY DEF G, H
<1>10. a \in F /\ b \in F /\ c \in F /\ b # a /\ c # a /\ c # b BY <1>9
<1>11. a < b /\ b < c BY <1>2, <1>5, <1>8, <1>9, <1>10
<1>12. \A d \in F : d < c => d \in {a, b, c} BY <1>8, <1>9, <1>10
<1> QED BY <1>10, <1>11, <1>12

LEMMA OnceAppend ==
  ASSUME NEW S, NEW s \in Seq(S), Once(s), NEW d \in S, d \notin ToSet(s)
  PROVE  /\ Append(s, d) \in Seq(S) /\ Once(Append(s, d))
         /\ ToSet(Append(s, d)) = ToSet(s) \cup {d}
<1> DEFINE t == Append(s, d)
<1>1. /\ Len(s) \in Nat /\ DOMAIN s = 1 .. Len(s)
      /\ t \in Seq(S) /\ DOMAIN t = 1 .. Len(s) + 1 /\ t[Len(s) + 1] = d
      /\ \A i \in 1 .. Len(s) : t[i] = s[i]
  OBVIOUS
<1>2. \A i \in DOMAIN t : i \in DOMAIN s \/ i = Len(s) + 1 BY <1>1
<1>3. \A i \in DOMAIN s : s[i] # d BY DEF ToSet
<1> HIDE DEF t
<1>4. Once(t) BY <1>1, <1>2, <1>3 DEF Once
<1>5. ToSet(t) = ToSet(s) \cup {d} BY <1>1, <1>2 DEF ToSet
<1> QED BY <1>1, <1>4, <1>5 DEF t

LEMMA OnceTail ==
  ASSUME NEW S, NEW s \in Seq(S), Once(s), s # <<>>
  PROVE  /\ Tail(s) \in Seq(S) /\ Once(Tail(s)) /\ Head(s) \in ToSet(s)
         /\ ToSet(Tail(s)) = ToSet(s) \ {Head(s)}
<1> DEFINE t == Tail(s)
<1>1. /\ Len(s) \in Nat \ {0} /\ DOMAIN s = 1 .. Len(s)
      /\ t \in Seq(S) /\ DOMAIN t = 1 .. Len(s) - 1 /\ Head(s) = s[1]
      /\ \A i \in 1 .. Len(s) - 1 : t[i] = s[i + 1]
  OBVIOUS
<1>2. \A i \in DOMAIN t : i + 1 \in DOMAIN s /\ i + 1 # 1 BY <1>1
<1>3. \A i \in DOMAIN s : i # 1 => i - 1 \in DOMAIN t /\ t[i - 1] = s[i] BY <1>1
<1> HIDE DEF t
<1>4. Once(t)
  <2> SUFFICES ASSUME NEW i \in DOMAIN t, NEW j \in DOMAIN t, t[i] = t[j]
               PROVE  i = j
    BY DEF Once
  <2>1. s[i + 1] = s[j + 1] BY <1>1
  <2>2. i + 1 = j + 1 BY <1>2, <2>1 DEF Once
  <2> QED BY <1>1, <2>2
<1>5. ASSUME NEW x PROVE x \in ToSet(t) <=> x \in ToSet(s) /\ x # Head(s)
  <2>1. ASSUME NEW i \in DOMAIN t, x = t[i] PROVE x \in ToSet(s) /\ x # Head(s)
    <3>1. x = s[i + 1] /\ i + 1 \in DOMAIN s /\ i + 1 # 1 /\ 1 \in DOMAIN s BY <1>1, <1>2, <2>1
    <3> QED BY <1>1, <3>1 DEF Once, ToSet
  <2>2. ASSUME NEW i \in DOMAIN s, x = s[i], x # Head(s) PROVE x \in ToSet(t)
    BY <1>1, <1>3, <2>2 DEF ToSet
  <2> QED BY <2>1, <2>2 DEF ToSet
<1>6. Head(s) \in ToSet(s) BY <1>1 DEF ToSet
<1> QED BY <1>1, <1>4, <1>5, <1>6 DEF t

\* Without repetition there are no more entries than there is to choose from.
LEMMA OnceBounded ==
  ASSUME NEW T, IsFiniteSet(T), NEW S, NEW s \in Seq(S), Once(s), ToSet(s) \subseteq T
  PROVE  Len(s) <= Cardinality(T)
<1>1. Len(s) \in Nat /\ DOMAIN s = 1 .. Len(s) OBVIOUS
<1>2. IsFiniteSet(1 .. Len(s)) /\ Cardinality(1 .. Len(s)) = Len(s) BY <1>1, FS_Interval
<1> DEFINE f == [k \in 1 .. Len(s) |-> s[k]]
<1>3. f \in [1 .. Len(s) -> T] BY <1>1 DEF ToSet
<1>4. \A i, j \in 1 .. Len(s) : f[i] = f[j] => i = j BY <1>1 DEF Once
<1> HIDE DEF f
<1>5. ~ (Cardinality(T) < Cardinality(1 .. Len(s))) BY <1>2, <1>3, <1>4, FS_PigeonHole
<1> QED BY <1>2, <1>5, FS_CardinalityType

\* The front of a ring.
RingStart(ring, from, to) ==
  /\ Held(ring, NUM, Wrap, from, to) \in Seq(Descs)
  /\ Len(Held(ring, NUM, Wrap, from, to)) = Ahead(Wrap, from, to)
  /\ Ahead(Wrap, from, to) \in Nat
  /\ from # to => /\ Held(ring, NUM, Wrap, from, to) # <<>>
                  /\ Head(Held(ring, NUM, Wrap, from, to)) = ring[from % NUM]
                  /\ ring[from % NUM] \in Descs

LEMMA RingFront ==
  ASSUME NEW ring \in [Descs -> Descs],
         NEW from \in 0 .. Wrap - 1, NEW to \in 0 .. Wrap - 1
  PROVE  RingStart(ring, from, to)
<1> DEFINE top == Ahead(Wrap, from, to)
           h == Held(ring, NUM, Wrap, from, to)
<1>0. top = Gap(Wrap, from, to) BY Sizes, Distance, Zenon
<1>1. top \in Nat /\ (from # to => top >= 1) BY <1>0, Sizes DEF Gap
<1> HIDE DEF top
<1>2. ASSUME NEW k \in 1 .. top PROVE (from + k - 1) % NUM \in Descs
  <2>1. from + k - 1 \in Int BY <1>1
  <2> HIDE <1>0
  <2>2. (from + k - 1) % NUM \in 0 .. NUM - 1 BY <2>1, Sizes, Division
  <2> QED BY <2>2 DEF Descs
<1>3. h = [k \in 1 .. top |-> ring[(from + k - 1) % NUM]] BY DEF Held, top
<1>4. h \in [1 .. top -> Descs] BY <1>2, <1>3
<1>5. h \in Seq(Descs) /\ Len(h) = top BY <1>1, <1>4
<1>6. ASSUME from # to PROVE h # <<>> /\ Head(h) = ring[from % NUM] /\ ring[from % NUM] \in Descs
  <2>1. 1 \in 1 .. top /\ from + 1 - 1 = from BY <1>1, <1>6
  <2>2. h[1] = ring[from % NUM] BY <1>3, <2>1
  <2>3. h[1] \in Descs BY <1>4, <2>1
  <2> QED BY <1>1, <1>5, <1>6, <2>2, <2>3
<1> QED BY <1>1, <1>5, <1>6 DEF top, RingStart

-----
\* What the steps do to the rings, and which descriptors a request gets.
LEMMA FirstThree ==
  ASSUME free \in SUBSET Descs, Cardinality(free) >= 3
  PROVE  \E a, b, c \in free :
           /\ a # b /\ a # c /\ b # c
           /\ First(3)[1] = a /\ First(3)[2] = b /\ First(3)[3] = c
           /\ ToSet(First(3)) = {a, b, c}
<1>1. free \in SUBSET Nat /\ IsFiniteSet(free) BY Sizes, FreeIsFinite
<1>2. PICK a, b, c \in free : a < b /\ b < c /\ \A d \in free : d < c => d \in {a, b, c}
  BY <1>1, ThreeLeast
<1> DEFINE Good(s) == /\ \A i, j \in 1 .. 3 : i < j => s[i] < s[j]
                      /\ \A d \in free : d < s[3] => d \in ToSet(s)
           t == [i \in 1 .. 3 |-> IF i = 1 THEN a ELSE IF i = 2 THEN b ELSE c]
<1>3. t \in [1 .. 3 -> free] /\ t[1] = a /\ t[2] = b /\ t[3] = c /\ DOMAIN t = 1 .. 3 OBVIOUS
<1>4. 1 \in 1 .. 3 /\ 2 \in 1 .. 3 /\ 3 \in 1 .. 3 /\ \A i \in 1 .. 3 : i \in {1, 2, 3} OBVIOUS
<1> HIDE DEF t
<1>5. ToSet(t) = {a, b, c} BY <1>3, <1>4 DEF ToSet
<1>6. \A i, j \in 1 .. 3 : i < j => t[i] < t[j] BY <1>1, <1>2, <1>3, <1>4
<1>7. Good(t) BY <1>2, <1>3, <1>5, <1>6
<1>8. First(3) = CHOOSE s \in [1 .. 3 -> free] : Good(s) BY DEF First
<1>9. First(3) \in [1 .. 3 -> free] /\ Good(First(3))
  <2> HIDE DEF Good
  <2> QED BY <1>3, <1>7, <1>8
<1> DEFINE s == First(3)
<1> HIDE DEF s
<1>10. s \in [1 .. 3 -> free] /\ s[1] < s[2] /\ s[2] < s[3] BY <1>4, <1>9 DEF s
<1>11. s[1] \in free /\ s[2] \in free /\ s[3] \in free BY <1>4, <1>10
<1>12. s[1] # s[2] /\ s[1] # s[3] /\ s[2] # s[3]
  <2>1. s[1] \in Nat /\ s[2] \in Nat /\ s[3] \in Nat BY <1>1, <1>11
  <2> QED BY <1>10, <2>1
<1>13. ToSet(s) = {s[1], s[2], s[3]} BY <1>4, <1>10 DEF ToSet
<1> QED BY <1>11, <1>12, <1>13 DEF s

\* The queues are sequences of descriptors that are not free, and there is room.
LEMMA Queues ==
  ASSUME IInv
  PROVE  /\ AvailQ \in Seq(Descs) /\ UsedQ \in Seq(Descs)
         /\ Len(AvailQ) = Ahead(Wrap, seen, availIdx) /\ Len(UsedQ) = Ahead(Wrap, used_idx, usedIdx)
         /\ Queued \subseteq Descs \ free
         /\ seen # availIdx => AvailQ # <<>> /\ Head(AvailQ) = avail[seen % NUM]
         /\ used_idx # usedIdx => UsedQ # <<>> /\ Head(UsedQ) = used[used_idx % NUM]
<1>1. /\ avail \in [Descs -> Descs] /\ used \in [Descs -> Descs]
      /\ availIdx \in 0 .. Wrap - 1 /\ usedIdx \in 0 .. Wrap - 1
      /\ used_idx \in 0 .. Wrap - 1 /\ seen \in 0 .. Wrap - 1
  BY DEF IInv, DiskTyped
<1>2. /\ AvailQ \in Seq(Descs) /\ Len(AvailQ) = Ahead(Wrap, seen, availIdx)
      /\ seen # availIdx => AvailQ # <<>> /\ Head(AvailQ) = avail[seen % NUM]
  BY <1>1, RingFront DEF AvailQ, RingStart
<1>3. /\ UsedQ \in Seq(Descs) /\ Len(UsedQ) = Ahead(Wrap, used_idx, usedIdx)
      /\ used_idx # usedIdx => UsedQ # <<>> /\ Head(UsedQ) = used[used_idx % NUM]
  BY <1>1, RingFront DEF UsedQ, RingStart
<1>4. ASSUME NEW d \in Queued PROVE d \in Descs \ free
  <2>1. PICK p \in Requesters : idx[p] = d BY <1>4 DEF IInv, Served
  <2> QED BY <2>1 DEF IInv, Chains, Chain
<1> QED BY <1>2, <1>3, <1>4

\* What the driver or the device does to a ring: a descriptor is put at the end of
\* it, where there is room, or the first one is passed.
Puts(ring, from, to, d) ==
  /\ Held([ring EXCEPT ![to % NUM] = d], NUM, Wrap, from, Inc(to))
       = Append(Held(ring, NUM, Wrap, from, to), d)
  /\ [ring EXCEPT ![to % NUM] = d] \in [Descs -> Descs]
  /\ Inc(to) \in 0 .. Wrap - 1

Passes(ring, from, to) ==
  /\ Held(ring, NUM, Wrap, Inc(from), to) = Tail(Held(ring, NUM, Wrap, from, to))
  /\ Inc(from) \in 0 .. Wrap - 1

LEMMA RingPut ==
  ASSUME NEW ring \in [Descs -> Descs], NEW d \in Descs,
         NEW from \in 0 .. Wrap - 1, NEW to \in 0 .. Wrap - 1, Ahead(Wrap, from, to) < NUM
  PROVE  Puts(ring, from, to, d)
<1>1. NUM \in Nat \ {0} /\ Wrap \in Nat \ {0} /\ NUM < Wrap /\ Wrap % NUM = 0 BY Sizes
<1>2. Appends(Descs, NUM, Wrap) BY <1>1, HeldAppend, Zenon
<1>3. ring \in [0 .. NUM - 1 -> Descs] BY DEF Descs
<1>4. /\ Held(Stored(ring, NUM, to, d), NUM, Wrap, from, (to + 1) % Wrap)
           = Append(Held(ring, NUM, Wrap, from, to), d)
      /\ Stored(ring, NUM, to, d) \in [0 .. NUM - 1 -> Descs]
      /\ (to + 1) % Wrap \in 0 .. Wrap - 1
  BY <1>2, <1>3, ZenonT(30) DEF Appends
<1> QED BY <1>4 DEF Puts, Stored, Descs, Inc

LEMMA RingPass ==
  ASSUME NEW ring \in [Descs -> Descs],
         NEW from \in 0 .. Wrap - 1, NEW to \in 0 .. Wrap - 1, from # to
  PROVE  Passes(ring, from, to)
<1>1. NUM \in Nat \ {0} /\ Wrap \in Nat \ {0} /\ NUM < Wrap /\ Wrap % NUM = 0 BY Sizes
<1>2. \A from2, to2 \in 0 .. Wrap - 1, ring2 \in [0 .. NUM - 1 -> Descs] :
        from2 # to2 =>
          /\ Ahead(Wrap, (from2 + 1) % Wrap, to2) = Ahead(Wrap, from2, to2) - 1
          /\ Held(ring2, NUM, Wrap, (from2 + 1) % Wrap, to2)
               = Tail(Held(ring2, NUM, Wrap, from2, to2))
          /\ Held(ring2, NUM, Wrap, from2, to2) # <<>>
          /\ (from2 + 1) % Wrap \in 0 .. Wrap - 1
  BY <1>1, HeldTail, ZenonT(30)
<1> QED BY <1>2, ZenonT(30) DEF Passes, Descs, Inc

\* The rings stay as they are in steps that leave their cells and indices alone.
LEMMA RingsStill ==
  ASSUME UNCHANGED <<avail, availIdx, used, usedIdx, used_idx, seen>>
  PROVE  InAvail' = InAvail /\ InUsed' = InUsed /\ (Orderly => Orderly')
<1>1. AvailQ' = AvailQ /\ UsedQ' = UsedQ BY DEF AvailQ, UsedQ
<1> QED BY <1>1 DEF InAvail, InUsed, Orderly

\* Submit() puts the first of three descriptors that were free into the ring.
LEMMA SubmitEffect ==
  ASSUME IInv, NEW p \in Procs, Submit(p)
  PROVE  \E a, b, c \in free :
           /\ a # b /\ a # c /\ b # c /\ a \notin Queued
           /\ free' = free \ {a, b, c}
           /\ next' = [next EXCEPT ![a] = b, ![b] = c, ![c] = 0]
           /\ req' = [req EXCEPT ![a] = [write |-> io[p] = "write", buf |-> mine[p]]]
           /\ failed' = [failed EXCEPT ![a] = TRUE]
           /\ info' = [info EXCEPT ![a] = mine[p]] /\ idx' = [idx EXCEPT ![p] = a]
           /\ Orderly' /\ InAvail' = InAvail \cup {a} /\ InUsed' = InUsed
           /\ avail' \in [Descs -> Descs] /\ availIdx' \in 0 .. Wrap - 1
<1>1. /\ free \in SUBSET Descs /\ Cardinality(free) >= 3 /\ avail \in [Descs -> Descs]
      /\ availIdx \in 0 .. Wrap - 1 /\ seen \in 0 .. Wrap - 1
  BY DEF IInv, DiskTyped, Submit
<1> DEFINE s == First(3)
<1>2. PICK a, b, c \in free :
        /\ a # b /\ a # c /\ b # c
        /\ s[1] = a /\ s[2] = b /\ s[3] = c /\ ToSet(s) = {a, b, c}
  BY <1>1, FirstThree
<1> HIDE DEF s
<1>3. /\ free' = free \ ToSet(s)
      /\ next' = [next EXCEPT ![s[1]] = s[2], ![s[2]] = s[3], ![s[3]] = 0]
      /\ req' = [req EXCEPT ![s[1]] = [write |-> io[p] = "write", buf |-> mine[p]]]
      /\ failed' = [failed EXCEPT ![s[1]] = TRUE]
      /\ info' = [info EXCEPT ![s[1]] = mine[p]]
      /\ avail' = [avail EXCEPT ![availIdx % NUM] = s[1]] /\ availIdx' = Inc(availIdx)
      /\ idx' = [idx EXCEPT ![p] = s[1]]
      /\ UNCHANGED <<used, usedIdx, used_idx, seen>>
  BY DEF Submit, device, s
<1>4. /\ AvailQ \in Seq(Descs) /\ Len(AvailQ) = Ahead(Wrap, seen, availIdx)
      /\ Queued \subseteq Descs \ free /\ ToSet(AvailQ) \subseteq Descs \ free
  BY Queues DEF Queued, Told, InAvail
<1>5. Once(AvailQ) /\ Once(UsedQ) BY DEF IInv, Rings, Orderly
<1>6. a \notin Queued /\ a \notin ToSet(AvailQ) BY <1>2, <1>4
<1>7. Ahead(Wrap, seen, availIdx) < NUM
  <2>1. Len(AvailQ) <= Cardinality(Descs \ free) BY <1>1, <1>4, <1>5, FreeIsFinite, OnceBounded
  <2> QED BY <2>1, <1>1, <1>4, FreeIsFinite, Sizes
<1>8. a \in Descs BY <1>1, <1>2
<1>9. /\ Held(avail', NUM, Wrap, seen, availIdx')
           = Append(Held(avail, NUM, Wrap, seen, availIdx), a)
      /\ avail' \in [Descs -> Descs] /\ availIdx' \in 0 .. Wrap - 1
  <2>1. avail' = [avail EXCEPT ![availIdx % NUM] = a] /\ availIdx' = Inc(availIdx) BY <1>2, <1>3
  <2>2. Puts(avail, seen, availIdx, a) BY <1>1, <1>7, <1>8, RingPut
  <2> QED BY <2>1, <2>2 DEF Puts
<1>10. AvailQ' = Append(AvailQ, a) /\ UsedQ' = UsedQ BY <1>3, <1>9 DEF AvailQ, UsedQ
<1>11. Once(AvailQ') /\ ToSet(AvailQ') = ToSet(AvailQ) \cup {a}
  BY <1>4, <1>5, <1>6, <1>8, <1>10, OnceAppend
<1>12. Orderly' /\ InAvail' = InAvail \cup {a} /\ InUsed' = InUsed
  BY <1>5, <1>10, <1>11 DEF Orderly, InAvail, InUsed
<1> QED BY <1>2, <1>3, <1>6, <1>9, <1>12

LEMMA TakeEffect ==
  ASSUME IInv, Take
  PROVE  \E d \in InAvail :
           /\ Orderly' /\ InAvail' = InAvail \ {d} /\ InUsed' = InUsed
           /\ d \in Descs /\ service' = service \cup {d} /\ seen' \in 0 .. Wrap - 1
<1> DEFINE d == avail[seen % NUM]
<1>1. /\ avail \in [Descs -> Descs] /\ availIdx \in 0 .. Wrap - 1 /\ seen \in 0 .. Wrap - 1
      /\ seen # availIdx /\ seen' = Inc(seen) /\ service' = service \cup {d}
      /\ UNCHANGED <<avail, availIdx, used, usedIdx, used_idx>>
  BY DEF IInv, DiskTyped, Take, rings
<1>2. AvailQ \in Seq(Descs) /\ AvailQ # <<>> /\ Head(AvailQ) = d BY <1>1, Queues
<1> HIDE DEF d
<1>3. AvailQ' = Tail(AvailQ) /\ UsedQ' = UsedQ /\ seen' \in 0 .. Wrap - 1
  <2>1. Passes(avail, seen, availIdx) BY <1>1, RingPass
  <2> QED BY <1>1, <2>1 DEF AvailQ, UsedQ, Passes
<1>4. Once(AvailQ) /\ Once(UsedQ) BY DEF IInv, Rings, Orderly
<1>5. /\ Once(AvailQ') /\ d \in ToSet(AvailQ) /\ ToSet(AvailQ') = ToSet(AvailQ) \ {d}
  BY <1>2, <1>3, <1>4, OnceTail
<1>6. d \in Descs BY <1>5, Queues DEF Queued, Told, InAvail
<1> QED BY <1>1, <1>3, <1>4, <1>5, <1>6 DEF Orderly, InAvail, InUsed

LEMMA ServeEffect ==
  ASSUME IInv, NEW d \in Descs, Serve(d)
  PROVE  /\ Orderly' /\ InUsed' = InUsed \cup {d} /\ InAvail' = InAvail
         /\ used' \in [Descs -> Descs] /\ usedIdx' \in 0 .. Wrap - 1
<1>1. /\ used \in [Descs -> Descs] /\ usedIdx \in 0 .. Wrap - 1 /\ used_idx \in 0 .. Wrap - 1
      /\ d \in service /\ used' = [used EXCEPT ![usedIdx % NUM] = d] /\ usedIdx' = Inc(usedIdx)
      /\ UNCHANGED <<avail, availIdx, used_idx, seen>>
  BY DEF IInv, DiskTyped, Serve
<1>2. Once(AvailQ) /\ Once(UsedQ) /\ d \notin ToSet(UsedQ)
  BY <1>1 DEF IInv, Rings, Orderly, Told, InUsed
<1>3. /\ UsedQ \in Seq(Descs) /\ Len(UsedQ) = Ahead(Wrap, used_idx, usedIdx)
      /\ ToSet(UsedQ) \subseteq Descs \ {d}
  BY <1>2, Queues DEF Queued, InUsed
<1>4. Ahead(Wrap, used_idx, usedIdx) < NUM
  <2>1. IsFiniteSet(Descs \ {d}) /\ Cardinality(Descs \ {d}) = NUM - 1
    BY FiniteDescs, FS_RemoveElement
  <2>2. Len(UsedQ) <= Cardinality(Descs \ {d}) BY <1>2, <1>3, <2>1, OnceBounded
  <2> QED BY <1>3, <2>1, <2>2, Sizes
<1>5. /\ Held(used', NUM, Wrap, used_idx, usedIdx')
           = Append(Held(used, NUM, Wrap, used_idx, usedIdx), d)
      /\ used' \in [Descs -> Descs] /\ usedIdx' \in 0 .. Wrap - 1
  <2>1. Puts(used, used_idx, usedIdx, d) BY <1>1, <1>4, RingPut
  <2> QED BY <1>1, <2>1 DEF Puts
<1>6. UsedQ' = Append(UsedQ, d) /\ AvailQ' = AvailQ BY <1>1, <1>5 DEF AvailQ, UsedQ
<1>7. Once(UsedQ') /\ ToSet(UsedQ') = ToSet(UsedQ) \cup {d} BY <1>2, <1>3, <1>6, OnceAppend
<1> QED BY <1>2, <1>5, <1>6, <1>7 DEF Orderly, InAvail, InUsed

LEMMA CompletedEffect ==
  ASSUME IInv, Completed
  PROVE  \E d \in InUsed, p \in Requesters :
           /\ Orderly' /\ InUsed' = InUsed \ {d} /\ InAvail' = InAvail
           /\ used_idx' \in 0 .. Wrap - 1
           /\ idx[p] = d /\ info[d] = mine[p]
           /\ onDisk' = [onDisk EXCEPT ![mine[p]] = FALSE]
           /\ Wakes(WaitForIo(mine[p]), "wait", Nobody, "none")
<1> DEFINE d == used[used_idx % NUM]
<1>1. /\ used \in [Descs -> Descs] /\ usedIdx \in 0 .. Wrap - 1 /\ used_idx \in 0 .. Wrap - 1
      /\ used_idx # usedIdx /\ used_idx' = Inc(used_idx)
      /\ onDisk' = [onDisk EXCEPT ![info[d]] = FALSE]
      /\ Wakes(WaitForIo(info[d]), "wait", Nobody, "none")
      /\ UNCHANGED <<avail, availIdx, used, usedIdx, seen>>
  BY DEF IInv, DiskTyped, Completed, device
<1>2. UsedQ \in Seq(Descs) /\ UsedQ # <<>> /\ Head(UsedQ) = d BY <1>1, Queues
<1> HIDE DEF d
<1>3. UsedQ' = Tail(UsedQ) /\ AvailQ' = AvailQ /\ used_idx' \in 0 .. Wrap - 1
  <2>1. Passes(used, used_idx, usedIdx) BY <1>1, RingPass
  <2> QED BY <1>1, <2>1 DEF AvailQ, UsedQ, Passes
<1>4. Once(AvailQ) /\ Once(UsedQ) BY DEF IInv, Rings, Orderly
<1>5. Once(UsedQ') /\ d \in ToSet(UsedQ) /\ ToSet(UsedQ') = ToSet(UsedQ) \ {d}
  BY <1>2, <1>3, <1>4, OnceTail
<1>6. PICK p \in Requesters : idx[p] = d BY <1>5 DEF IInv, Served, Queued, InUsed
<1>7. info[d] = mine[p] BY <1>6 DEF IInv, Chains
<1> QED BY <1>1, <1>3, <1>4, <1>5, <1>6, <1>7 DEF Orderly, InAvail, InUsed

\* The buffer that bget() recycles is one that nobody has, if there is one.
LEMMA UnusedIs ==
  ASSUME IInv, \E b \in Bufs : refcnt[b] = 0
  PROVE  Unused \in Bufs /\ refcnt[Unused] = 0 /\ Users(Unused) = {}
<1>1. ASSUME NEW b \in Bufs
      PROVE  /\ IsFiniteSet(Users(b)) /\ refcnt[b] = Cardinality(Users(b)) /\ refcnt[b] \in Nat
             /\ refcnt[b] = 0 <=> Users(b) = {}
  <2>1. IsFiniteSet(Users(b)) BY Sizes, FS_Subset DEF Users
  <2>2. refcnt[b] = Cardinality(Users(b)) /\ refcnt[b] \in Nat BY DEF IInv, Counted, CacheTyped
  <2> QED BY <2>1, <2>2, FS_EmptySet
<1> DEFINE K == {k \in 1 .. NBUF : refcnt[order[k]] = 0}
<1>2. K # {} /\ K \in SUBSET (1 .. NBUF)
  <2>1. PICK b \in Bufs : refcnt[b] = 0 OBVIOUS
  <2>2. PICK k \in 1 .. NBUF : order[k] = b BY DEF IInv, Cache
  <2> QED BY <2>1, <2>2
<1>3. NBUF \in Nat /\ order \in [1 .. NBUF -> Bufs] BY Sizes DEF IInv, CacheTyped
<1>4. \A k \in 1 .. NBUF : k \in K <=> refcnt[order[k]] = 0 OBVIOUS
<1> HIDE DEF K
<1>5. PICK m \in K : \A x \in K : x <= m BY <1>2, <1>3, Greatest, Zenon
<1> DEFINE Latest(k) == /\ refcnt[order[k]] = 0
                      /\ \A j \in k + 1 .. NBUF : refcnt[order[j]] > 0
<1>6. m \in 1 .. NBUF /\ Latest(m)
  <2>1. m \in 1 .. NBUF /\ refcnt[order[m]] = 0 BY <1>2, <1>4, <1>5
  <2>2. ASSUME NEW j \in m + 1 .. NBUF PROVE refcnt[order[j]] > 0
    <3>1. j \in 1 .. NBUF /\ ~ (j <= m) BY <1>3, <2>1
    <3>2. refcnt[order[j]] # 0 /\ order[j] \in Bufs BY <1>3, <1>4, <1>5, <3>1
    <3>3. refcnt[order[j]] \in Nat BY <1>1, <3>2
    <3> QED BY <3>2, <3>3
  <2> QED BY <2>1, <2>2
<1>7. Unused = order[CHOOSE k \in 1 .. NBUF : Latest(k)] BY DEF Unused
<1> HIDE DEF Latest
<1> DEFINE c == CHOOSE k \in 1 .. NBUF : Latest(k)
<1>8. c \in 1 .. NBUF /\ Latest(c) BY <1>6
<1> HIDE DEF c
<1>9. Unused \in Bufs /\ refcnt[Unused] = 0 BY <1>3, <1>7, <1>8 DEF c, Latest
<1> QED BY <1>1, <1>9

\* A process takes or lets go of a buffer.
LEMMA UsersFinite ==
  ASSUME NEW b
  PROVE  /\ IsFiniteSet(Users(b)) /\ Cardinality(Users(b)) \in Nat
         /\ \A p \in Procs \ Users(b) : Cardinality(Users(b) \cup {p}) = Cardinality(Users(b)) + 1
         /\ \A p \in Users(b) : Cardinality(Users(b) \ {p}) = Cardinality(Users(b)) - 1
<1>1. IsFiniteSet(Users(b)) /\ Cardinality(Users(b)) \in Nat
  BY Sizes, FS_Subset, FS_CardinalityType DEF Users
<1> QED BY <1>1, FS_AddElement, FS_RemoveElement

LEMMA CountJoins ==
  ASSUME Counted, ProcsTyped, refcnt \in [Bufs -> Nat], NEW p \in Procs, NEW b \in Bufs,
         mine[p] = NoBuf, mine' = [mine EXCEPT ![p] = b],
         refcnt' = [refcnt EXCEPT ![b] = refcnt[b] + 1]
  PROVE  Counted'
<1>1. mine \in [Procs -> Bufs \cup {NoBuf}] /\ NoBuf \notin Bufs BY Sizes DEF ProcsTyped
<1>2. p \notin Users(b) /\ Users(b)' = Users(b) \cup {p} BY <1>1 DEF Users
<1>3. \A x \in Bufs \ {b} : Users(x)' = Users(x) BY <1>1 DEF Users
<1>4. ASSUME NEW x \in Bufs PROVE refcnt'[x] = Cardinality(Users(x)')
  <2>1. CASE x = b
    <3>1. Cardinality(Users(b) \cup {p}) = Cardinality(Users(b)) + 1 BY <1>2, UsersFinite
    <3> QED BY <1>2, <2>1, <3>1 DEF Counted
  <2>2. CASE x # b BY <1>3, <2>2 DEF Counted
  <2> QED BY <2>1, <2>2
<1> QED BY <1>4 DEF Counted

LEMMA CountLeaves ==
  ASSUME Counted, ProcsTyped, refcnt \in [Bufs -> Nat], NEW p \in Procs, NEW b \in Bufs,
         mine[p] = b, mine' = [mine EXCEPT ![p] = NoBuf],
         refcnt' = [refcnt EXCEPT ![b] = refcnt[b] - 1]
  PROVE  Counted' /\ refcnt' \in [Bufs -> Nat]
<1>1. mine \in [Procs -> Bufs \cup {NoBuf}] /\ NoBuf \notin Bufs BY Sizes DEF ProcsTyped
<1>2. p \in Users(b) /\ Users(b)' = Users(b) \ {p} BY <1>1 DEF Users
<1>3. \A x \in Bufs \ {b} : Users(x)' = Users(x) BY <1>1 DEF Users
<1>4. Cardinality(Users(b) \ {p}) = Cardinality(Users(b)) - 1 BY <1>2, UsersFinite
<1>5. ASSUME NEW x \in Bufs PROVE refcnt'[x] = Cardinality(Users(x)')
  <2>1. CASE x = b BY <1>2, <1>4, <2>1 DEF Counted
  <2>2. CASE x # b BY <1>3, <2>2 DEF Counted
  <2> QED BY <2>1, <2>2
<1>6. \A x \in Bufs : Cardinality(Users(x)') \in Nat
  <2>1. Cardinality(Users(b) \ {p}) \in Nat
    BY UsersFinite, FS_RemoveElement, <1>2, FS_CardinalityType
  <2> QED BY <1>2, <1>3, <2>1, UsersFinite
<1>7. refcnt' \in [Bufs -> Int] /\ \A x \in Bufs : refcnt'[x] \in Nat BY <1>5, <1>6
<1> QED BY <1>5, <1>7 DEF Counted

LEMMA ToFrontKeeps ==
  ASSUME order \in [1 .. NBUF -> Bufs], NEW b \in Bufs,
         \A x \in Bufs : \E k \in 1 .. NBUF : order[k] = x
  PROVE  /\ ToFront(b) \in [1 .. NBUF -> Bufs]
         /\ \A x \in Bufs : \E k \in 1 .. NBUF : ToFront(b)[k] = x
<1> DEFINE place == CHOOSE k \in 1 .. NBUF : order[k] = b
           f == ToFront(b)
<1>1. place \in 1 .. NBUF /\ order[place] = b OBVIOUS
<1>2. f = [k \in 1 .. NBUF |->
             IF k = 1 THEN b ELSE IF k <= place THEN order[k - 1] ELSE order[k]]
  BY DEF ToFront
<1>3. NBUF \in Nat BY Sizes
<1> HIDE DEF place, f
<1>4. f \in [1 .. NBUF -> Bufs] BY <1>1, <1>2, <1>3
<1>5. ASSUME NEW x \in Bufs PROVE \E k \in 1 .. NBUF : f[k] = x
  <2>1. PICK j \in 1 .. NBUF : order[j] = x OBVIOUS
  <2>2. CASE x = b BY <1>1, <1>2, <1>3, <2>2
  <2>3. CASE j < place
    <3>1. j + 1 \in 1 .. NBUF /\ j + 1 <= place /\ j + 1 # 1 /\ j + 1 - 1 = j
      BY <1>1, <1>3, <2>3
    <3> QED BY <1>2, <2>1, <3>1
  <2>4. CASE j > place
    <3>1. j # 1 /\ ~ (j <= place) BY <1>1, <1>3, <2>4
    <3> QED BY <1>2, <2>1, <3>1
  <2>5. x # b => j # place BY <1>1, <2>1
  <2> QED BY <1>1, <1>3, <2>2, <2>3, <2>4, <2>5
<1> QED BY <1>4, <1>5 DEF f

-----
\* What stays when nobody begins or ends a request.
\* Two requests are about two buffers, which belong to the requesters.
LEMMA Requests ==
  ASSUME IInv
  PROVE  /\ \A p \in Requesters :
             /\ p \in Procs /\ mine[p] \in Bufs /\ blockno[mine[p]] \in Blocks
             /\ lock[mine[p]] = p /\ idx[p] \in Descs /\ Chain(idx[p]) \cap free = {}
         /\ \A p, q \in Requesters :
              p # q => /\ idx[p] # idx[q] /\ mine[p] # mine[q]
                       /\ Chain(idx[p]) \cap Chain(idx[q]) = {}
<1>1. ASSUME NEW p \in Requesters PROVE p \in Procs /\ pc[p] \in {"ioSleep", "wait"}
  BY DEF Requesters
<1>2. ASSUME NEW p \in Requesters
      PROVE  mine[p] \in Bufs /\ blockno[mine[p]] \in Blocks /\ lock[mine[p]] = p
  <2>1. mine[p] \in Bufs /\ pc[p] \in Inside BY <1>1, Sizes DEF IInv, ProcsTyped, Owners, Inside
  <2> QED BY <1>1, <2>1 DEF IInv, Owners
<1>3. ASSUME NEW p \in Requesters
      PROVE  idx[p] \in Descs /\ idx[p] \in Chain(idx[p]) /\ Chain(idx[p]) \cap free = {}
  BY DEF IInv, Chains, Chain
<1>4. ASSUME NEW p \in Requesters, NEW q \in Requesters, p # q
      PROVE  /\ idx[p] # idx[q] /\ mine[p] # mine[q]
             /\ Chain(idx[p]) \cap Chain(idx[q]) = {}
  <2>1. Chain(idx[p]) \cap Chain(idx[q]) = {} BY <1>4 DEF IInv, Chains
  <2> QED BY <1>2, <1>3, <1>4, <2>1
<1> QED BY <1>1, <1>2, <1>3, <1>4

SameRequests ==
  /\ Requesters' = Requesters
  /\ \A p \in Requesters : mine'[p] = mine[p] /\ io'[p] = io[p] /\ idx'[p] = idx[p]

LEMMA ChainsStay ==
  ASSUME Chains, SameRequests, UNCHANGED <<free, next, req, info>>
  PROVE  Chains'
<1>1. \A d : Chain(d)' = Chain(d) BY DEF Chain
<1> QED BY <1>1 DEF Chains, SameRequests

LEMMA ServedStay ==
  ASSUME Served, SameRequests, UNCHANGED <<onDisk, failed>>,
         Queued' = Queued, InUsed' = InUsed
  PROVE  Served'
BY DEF Served, SameRequests

\* The device serves a request of a process that still waits, with its buffer.
LEMMA ServeMoves ==
  ASSUME IInv, NEW d \in Descs, Serve(d)
  PROVE  \E p \in Requesters :
           /\ idx[p] = d /\ mine[p] \in Bufs /\ blockno[mine[p]] \in Blocks
           /\ IF io[p] = "write"
                THEN /\ platter' = [platter EXCEPT ![blockno[mine[p]]] = data[mine[p]]]
                     /\ data' = data
                ELSE /\ data' = [data EXCEPT ![mine[p]] = platter[blockno[mine[p]]]]
                     /\ platter' = platter
<1>1. d \in Queued BY DEF Serve, Queued, Told
<1>2. PICK p \in Requesters : idx[p] = d BY <1>1 DEF IInv, Served
<1>3. req[d] = [write |-> io[p] = "write", buf |-> mine[p]] BY <1>2 DEF IInv, Chains
<1>4. req[d].write = (io[p] = "write") BY <1>3
<1>5. req[d].buf = mine[p] BY <1>3
<1>6. IF io[p] = "write"
        THEN /\ platter' = [platter EXCEPT ![blockno[mine[p]]] = data[mine[p]]]
             /\ data' = data
        ELSE /\ data' = [data EXCEPT ![mine[p]] = platter[blockno[mine[p]]]]
             /\ platter' = platter
  BY <1>4, <1>5, Zenon DEF Serve
<1> QED BY <1>2, <1>6, Requests

-----
\* The invariant is kept, action by action.
\* Short helpers that every step below sees through.
USE DEF At, Goto, Wakes, WaitForDesc, WaitForLock, WaitForIo, cache, descs, rings, device,
        procs, Inside, Asking, Clean, Told, Queued

LEMMA BgetKeeps ==
  ASSUME IInv, NEW p \in Procs, NEW k \in Blocks, Bget(p, k)
  PROVE  IInv'
<1>1. /\ pc[p] = "user" /\ pc' = [pc EXCEPT ![p] = "acquire"] /\ calls' \in 0 .. MaxCalls
      /\ mine[p] = NoBuf
      /\ UNCHANGED <<data, onDisk, lock, order, descs, rings, device, handler, io, idx>>
  BY Sizes DEF IInv, Owners, ProcsTyped, Bget
<1>2. InAvail' = InAvail /\ InUsed' = InUsed /\ (Orderly => Orderly')
  BY RingsStill DEF Bget, rings, device
<1>3. p \notin Requesters /\ Requesters' = Requesters BY <1>1 DEF IInv, ProcsTyped, Requesters
<1>4. CASE \E b \in Cached(k) :
        /\ mine' = [mine EXCEPT ![p] = b] /\ refcnt' = [refcnt EXCEPT ![b] = @ + 1]
        /\ UNCHANGED <<blockno, valid>>
  <2>1. PICK b \in Bufs :
          /\ blockno[b] = k /\ mine' = [mine EXCEPT ![p] = b]
          /\ refcnt' = [refcnt EXCEPT ![b] = @ + 1] /\ UNCHANGED <<blockno, valid>>
    BY <1>4 DEF Cached
  <2>2. SameRequests BY <1>1, <1>3, <2>1 DEF IInv, ProcsTyped, SameRequests, Requesters
  <2>3. CacheTyped' BY <1>1, <2>1 DEF IInv, CacheTyped
  <2>4. DiskTyped' BY <1>1 DEF IInv, DiskTyped
  <2>5. ProcsTyped' BY <1>1, <2>1 DEF IInv, ProcsTyped
  <2>6. Owners' BY <1>1, <2>1, Sizes DEF IInv, ProcsTyped, Owners
  <2>7. Counted' BY <1>1, <2>1, CountJoins DEF IInv, CacheTyped
  <2>8. Cache' BY <1>1, <2>1 DEF IInv, Cache
  <2>9. Fresh' BY <1>1, <1>2, <2>1 DEF IInv, Fresh, Requesters
  <2>10. Chains' BY <1>1, <2>2, ChainsStay DEF IInv
  <2>11. Rings' BY <1>1, <1>2 DEF IInv, Rings
  <2>12. Served' BY <1>1, <1>2, <2>2, ServedStay DEF IInv
  <2>13. Sleepers' BY <1>1, <1>2, <2>1 DEF IInv, Sleepers
  <2> QED BY <2>3, <2>4, <2>5, <2>6, <2>7, <2>8, <2>9, <2>10, <2>11, <2>12, <2>13 DEF IInv
<1>5. CASE /\ Cached(k) = {} /\ \E b \in Bufs : refcnt[b] = 0
           /\ mine' = [mine EXCEPT ![p] = Unused] /\ refcnt' = [refcnt EXCEPT ![Unused] = 1]
           /\ blockno' = [blockno EXCEPT ![Unused] = k]
           /\ valid' = [valid EXCEPT ![Unused] = FALSE]
  <2>1. PICK u \in Bufs :
          /\ refcnt[u] = 0 /\ Users(u) = {} /\ \A b \in Bufs : blockno[b] # k
          /\ mine' = [mine EXCEPT ![p] = u] /\ refcnt' = [refcnt EXCEPT ![u] = 1]
          /\ blockno' = [blockno EXCEPT ![u] = k] /\ valid' = [valid EXCEPT ![u] = FALSE]
    BY <1>1, <1>5, UnusedIs DEF Cached
  <2>2. SameRequests BY <1>1, <1>3, <2>1 DEF IInv, ProcsTyped, SameRequests, Requesters
  <2>3. refcnt' = [refcnt EXCEPT ![u] = refcnt[u] + 1] BY <2>1
  <2>4. CacheTyped' BY <1>1, <2>1 DEF IInv, CacheTyped
  <2>5. DiskTyped' BY <1>1 DEF IInv, DiskTyped
  <2>6. ProcsTyped' BY <1>1, <2>1 DEF IInv, ProcsTyped
  <2>7. Owners' BY <1>1, <2>1 DEF IInv, CacheTyped, ProcsTyped, Owners, Users
  <2>8. Counted' BY <1>1, <2>1, <2>3, CountJoins DEF IInv, CacheTyped
  <2>9. Cache' BY <1>1, <2>1 DEF IInv, Cache
  <2>10. Fresh' BY <1>1, <1>2, <2>1 DEF IInv, CacheTyped, Fresh, Requesters, Users
  <2>11. Chains' BY <1>1, <2>2, ChainsStay DEF IInv
  <2>12. Rings' BY <1>1, <1>2 DEF IInv, Rings
  <2>13. Served' BY <1>1, <1>2, <2>2, ServedStay DEF IInv
  <2>14. Sleepers' BY <1>1, <1>2, <2>1 DEF IInv, Sleepers
  <2> QED BY <2>4, <2>5, <2>6, <2>7, <2>8, <2>9, <2>10, <2>11, <2>12, <2>13, <2>14 DEF IInv
<1> QED BY <1>4, <1>5 DEF Bget

LEMMA BgetPanicsKeeps ==
  ASSUME IInv, NEW p \in Procs, NEW k \in Blocks, BgetPanics(p, k)
  PROVE  IInv'
<1>1. /\ pc[p] = "user" /\ pc' = [pc EXCEPT ![p] = "panic"] /\ calls' \in 0 .. MaxCalls
      /\ mine[p] = NoBuf
      /\ UNCHANGED <<cache, descs, rings, device, handler, mine, io, idx>>
  BY Sizes DEF IInv, Owners, ProcsTyped, BgetPanics
<1>2. InAvail' = InAvail /\ InUsed' = InUsed /\ (Orderly => Orderly')
  BY RingsStill DEF BgetPanics
<1>3. SameRequests BY <1>1 DEF IInv, ProcsTyped, SameRequests, Requesters
<1>4. CacheTyped' /\ DiskTyped' /\ ProcsTyped'
  BY <1>1 DEF IInv, CacheTyped, DiskTyped, ProcsTyped
<1>5. Owners' BY <1>1 DEF IInv, ProcsTyped, Owners
<1>6. Counted' /\ Cache' BY <1>1 DEF IInv, Counted, Users, Cache
<1>7. Fresh' BY <1>1, <1>2 DEF IInv, ProcsTyped, Fresh, Requesters
<1>8. Chains' BY <1>1, <1>3, ChainsStay DEF IInv
<1>9. Rings' BY <1>1, <1>2 DEF IInv, Rings
<1>10. Served' BY <1>1, <1>2, <1>3, ServedStay DEF IInv
<1>11. Sleepers' BY <1>1, <1>2 DEF IInv, ProcsTyped, Sleepers
<1> QED BY <1>4, <1>5, <1>6, <1>7, <1>8, <1>9, <1>10, <1>11 DEF IInv

LEMMA AcquireKeeps ==
  ASSUME IInv, NEW p \in Procs, Acquire(p)
  PROVE  IInv'
<1>1. InAvail' = InAvail /\ InUsed' = InUsed /\ (Orderly => Orderly') BY RingsStill DEF Acquire
<1>2. SameRequests BY DEF IInv, ProcsTyped, SameRequests, Requesters, Acquire
<1>3. CacheTyped' BY DEF IInv, CacheTyped, Acquire
<1>4. DiskTyped' BY DEF IInv, DiskTyped, Acquire
<1>5. ProcsTyped' BY DEF IInv, ProcsTyped, Acquire
<1>6. Owners' BY Sizes DEF IInv, CacheTyped, ProcsTyped, Owners, Acquire
<1>7. Counted' BY DEF IInv, Counted, Users, Acquire
<1>8. Cache' BY DEF IInv, Cache, Acquire
<1>9. Fresh' BY <1>1 DEF IInv, ProcsTyped, Owners, Fresh, Requesters, Acquire
<1>10. Chains' BY <1>2, ChainsStay DEF IInv, Acquire
<1>11. Rings' BY <1>1 DEF IInv, Rings, Acquire
<1>12. Served' BY <1>1, <1>2, ServedStay DEF IInv, Acquire
<1>13. Sleepers' BY <1>1 DEF IInv, Sleepers, Acquire
<1> QED BY <1>3, <1>4, <1>5, <1>6, <1>7, <1>8, <1>9, <1>10, <1>11, <1>12, <1>13 DEF IInv

LEMMA AcquireWaitsKeeps ==
  ASSUME IInv, NEW p \in Procs, AcquireWaits(p)
  PROVE  IInv'
<1>1. InAvail' = InAvail /\ InUsed' = InUsed /\ (Orderly => Orderly')
  BY RingsStill DEF AcquireWaits
<1>2. SameRequests BY DEF IInv, ProcsTyped, SameRequests, Requesters, AcquireWaits
<1>3. CacheTyped' BY DEF IInv, CacheTyped, AcquireWaits
<1>4. DiskTyped' BY DEF IInv, DiskTyped, AcquireWaits
<1>5. ProcsTyped' BY DEF IInv, ProcsTyped, AcquireWaits
<1>6. Owners' BY DEF IInv, Owners, AcquireWaits
<1>7. Counted' BY DEF IInv, Counted, Users, AcquireWaits
<1>8. Cache' BY DEF IInv, Cache, AcquireWaits
<1>9. Fresh' BY <1>1 DEF IInv, Fresh, Requesters, AcquireWaits
<1>10. Chains' BY <1>2, ChainsStay DEF IInv, AcquireWaits
<1>11. Rings' BY <1>1 DEF IInv, Rings, AcquireWaits
<1>12. Served' BY <1>1, <1>2, ServedStay DEF IInv, AcquireWaits
<1>13. Sleepers' BY <1>1 DEF IInv, Sleepers, AcquireWaits
<1> QED BY <1>3, <1>4, <1>5, <1>6, <1>7, <1>8, <1>9, <1>10, <1>11, <1>12, <1>13 DEF IInv

LEMMA BwriteKeeps ==
  ASSUME IInv, NEW p \in Procs, Bwrite(p)
  PROVE  IInv'
<1>1. InAvail' = InAvail /\ InUsed' = InUsed /\ (Orderly => Orderly') BY RingsStill DEF Bwrite
<1>2. SameRequests BY DEF IInv, ProcsTyped, SameRequests, Requesters, Bwrite
<1>3. CacheTyped'
  <2>1. mine[p] \in Bufs BY DEF IInv, ProcsTyped, Owners, Bwrite
  <2>2. PICK v \in Values : data' = [data EXCEPT ![mine[p]] = v] BY DEF Bwrite
  <2> QED BY <2>1, <2>2 DEF IInv, Contents, CacheTyped, Bwrite
<1>4. DiskTyped' BY DEF IInv, DiskTyped, Bwrite
<1>5. ProcsTyped' BY Sizes DEF IInv, ProcsTyped, Bwrite
<1>6. Owners' BY DEF IInv, Owners, Bwrite
<1>7. Counted' BY DEF IInv, Counted, Users, Bwrite
<1>8. Cache' BY DEF IInv, Cache, Bwrite
<1>9. Fresh' BY <1>1, Sizes DEF IInv, ProcsTyped, Owners, Fresh, Requesters, Bwrite
<1>10. Chains' BY <1>2, ChainsStay DEF IInv, Bwrite
<1>11. Rings' BY <1>1 DEF IInv, Rings, Bwrite
<1>12. Served' BY <1>1, <1>2, ServedStay DEF IInv, Bwrite
<1>13. Sleepers' BY <1>1 DEF IInv, Sleepers, Bwrite
<1> QED BY <1>3, <1>4, <1>5, <1>6, <1>7, <1>8, <1>9, <1>10, <1>11, <1>12, <1>13 DEF IInv

LEMMA BrelseKeeps ==
  ASSUME IInv, NEW p \in Procs, Brelse(p)
  PROVE  IInv'
<1>1. InAvail' = InAvail /\ InUsed' = InUsed /\ (Orderly => Orderly') BY RingsStill DEF Brelse
<1>2. SameRequests BY DEF IInv, ProcsTyped, SameRequests, Requesters, Brelse
<1>3. CacheTyped' BY DEF IInv, CacheTyped, Brelse
<1>4. DiskTyped' BY DEF IInv, DiskTyped, Brelse
<1>5. ProcsTyped' BY DEF IInv, ProcsTyped, Brelse
<1>6. Owners' BY Sizes DEF IInv, CacheTyped, Owners, Brelse
<1>7. Counted' BY DEF IInv, Counted, Users, Brelse
<1>8. Cache' BY DEF IInv, Cache, Brelse
<1>9. Fresh' BY <1>1 DEF IInv, Fresh, Requesters, Brelse
<1>10. Chains' BY <1>2, ChainsStay DEF IInv, Brelse
<1>11. Rings' BY <1>1 DEF IInv, Rings, Brelse
<1>12. Served' BY <1>1, <1>2, ServedStay DEF IInv, Brelse
<1>13. Sleepers' BY <1>1 DEF IInv, Sleepers, Brelse
<1> QED BY <1>3, <1>4, <1>5, <1>6, <1>7, <1>8, <1>9, <1>10, <1>11, <1>12, <1>13 DEF IInv

LEMMA UnrefKeeps ==
  ASSUME IInv, NEW p \in Procs, Unref(p)
  PROVE  IInv'
<1>1. /\ pc[p] = "released" /\ mine[p] \in Bufs
      /\ refcnt' = [refcnt EXCEPT ![mine[p]] = @ - 1]
      /\ order' = IF refcnt[mine[p]] = 1 THEN ToFront(mine[p]) ELSE order
      /\ mine' = [mine EXCEPT ![p] = NoBuf] /\ pc' = [pc EXCEPT ![p] = "user"]
      /\ UNCHANGED <<blockno, valid, data, onDisk, lock, descs, rings, device, handler, io, idx,
                     calls>>
  BY DEF IInv, Owners, ProcsTyped, Unref
<1>2. InAvail' = InAvail /\ InUsed' = InUsed /\ (Orderly => Orderly') BY RingsStill DEF Unref
<1>3. SameRequests BY <1>1 DEF IInv, ProcsTyped, SameRequests, Requesters
<1>4. Counted' /\ refcnt' \in [Bufs -> Nat] BY <1>1, CountLeaves DEF IInv, CacheTyped
<1>5. /\ order' \in [1 .. NBUF -> Bufs]
      /\ \A b \in Bufs : \E k \in 1 .. NBUF : order'[k] = b
  BY <1>1, ToFrontKeeps DEF IInv, CacheTyped, Cache
<1>6. CacheTyped' BY <1>1, <1>4, <1>5 DEF IInv, CacheTyped
<1>7. DiskTyped' BY <1>1 DEF IInv, DiskTyped
<1>8. ProcsTyped' BY <1>1 DEF IInv, ProcsTyped
<1>9. Owners' BY <1>1, Sizes DEF IInv, ProcsTyped, Owners
<1>10. Counted' BY <1>4
<1>11. Cache' BY <1>1, <1>5 DEF IInv, Cache
<1>12. Fresh' BY <1>1, <1>2 DEF IInv, Fresh, Requesters
<1>13. Chains' BY <1>1, <1>3, ChainsStay DEF IInv
<1>14. Rings' BY <1>1, <1>2 DEF IInv, Rings
<1>15. Served' BY <1>1, <1>2, <1>3, ServedStay DEF IInv
<1>16. Sleepers' BY <1>1, <1>2 DEF IInv, Sleepers
<1> QED BY <1>6, <1>7, <1>8, <1>9, <1>10, <1>11, <1>12, <1>13, <1>14, <1>15, <1>16 DEF IInv

LEMMA SubmitKeeps ==
  ASSUME IInv, NEW p \in Procs, Submit(p)
  PROVE  IInv'
<1>1. PICK a, b, c \in free :
        /\ a # b /\ a # c /\ b # c /\ a \notin Queued
        /\ free' = free \ {a, b, c}
        /\ next' = [next EXCEPT ![a] = b, ![b] = c, ![c] = 0]
        /\ req' = [req EXCEPT ![a] = [write |-> io[p] = "write", buf |-> mine[p]]]
        /\ failed' = [failed EXCEPT ![a] = TRUE]
        /\ info' = [info EXCEPT ![a] = mine[p]] /\ idx' = [idx EXCEPT ![p] = a]
        /\ Orderly' /\ InAvail' = InAvail \cup {a} /\ InUsed' = InUsed
        /\ avail' \in [Descs -> Descs] /\ availIdx' \in 0 .. Wrap - 1
  BY SubmitEffect
<1>2. /\ pc[p] = "submit" /\ pc' = [pc EXCEPT ![p] = "ioSleep"]
      /\ onDisk' = [onDisk EXCEPT ![mine[p]] = TRUE]
      /\ UNCHANGED <<blockno, valid, data, refcnt, lock, order, used, usedIdx, used_idx, seen,
                     service, platter, irq, handler, mine, io, calls>>
  BY DEF Submit, device
<1>3. p \notin Requesters /\ Requesters' = Requesters \cup {p} /\ mine[p] \in Bufs
  BY <1>2, Sizes DEF IInv, ProcsTyped, Owners, Requesters
<1>4. a \in Descs /\ b \in Descs /\ c \in Descs BY <1>1 DEF IInv, DiskTyped
<1>5. idx'[p] = a /\ next'[a] = b /\ next'[b] = c /\ info'[a] = mine[p]
      /\ req'[a] = [write |-> io[p] = "write", buf |-> mine[p]]
  BY <1>1, <1>4 DEF IInv, DiskTyped, ProcsTyped
<1>6. ASSUME NEW q \in Requesters
      PROVE  /\ q # p /\ idx'[q] = idx[q] /\ Chain(idx[q])' = Chain(idx[q])
             /\ Chain(idx[q]) \cap {a, b, c} = {} /\ idx[q] # a /\ mine[q] # mine[p]
             /\ info'[idx[q]] = info[idx[q]] /\ req'[idx[q]] = req[idx[q]]
             /\ next'[idx[q]] = next[idx[q]] /\ next'[next[idx[q]]] = next[next[idx[q]]]
  <2>1. q \in Procs /\ q # p /\ idx[q] \in Descs /\ lock[mine[q]] = q BY <1>3, Requests
  <2>2. mine[q] # mine[p] BY <1>2, <1>3, <2>1 DEF IInv, Owners
  <2>3. Chain(idx[q]) \cap {a, b, c} = {} BY <1>1, Requests
  <2>4. idx[q] \notin {a, b, c} /\ next[idx[q]] \notin {a, b, c} /\ next[idx[q]] \in Descs
    BY <2>1, <2>3 DEF Chain, IInv, DiskTyped
  <2>5. next'[idx[q]] = next[idx[q]] /\ next'[next[idx[q]]] = next[next[idx[q]]]
    BY <1>1, <2>1, <2>4 DEF IInv, DiskTyped
  <2>6. idx'[q] = idx[q] /\ info'[idx[q]] = info[idx[q]] /\ req'[idx[q]] = req[idx[q]]
    BY <1>1, <2>1, <2>4 DEF IInv, DiskTyped, ProcsTyped
  <2> QED BY <2>1, <2>2, <2>3, <2>4, <2>5, <2>6 DEF Chain
<1>7. Cardinality(free) < 3 => Cardinality(free') < 3
  <2>1. free' \subseteq free /\ IsFiniteSet(free) /\ Cardinality(free) \in Nat
    BY <1>1, FreeIsFinite DEF IInv, DiskTyped
  <2>2. IsFiniteSet(free') /\ Cardinality(free') <= Cardinality(free) BY <2>1, FS_Subset
  <2> QED BY <2>1, <2>2, FS_CardinalityType
<1>8. CacheTyped' BY <1>2 DEF IInv, CacheTyped
<1>9. DiskTyped' BY <1>1, <1>2, Sizes DEF IInv, DiskTyped, ProcsTyped
<1>10. ProcsTyped' BY <1>1, <1>2 DEF IInv, DiskTyped, ProcsTyped
<1>11. Owners' BY <1>2 DEF IInv, Owners
<1>12. Counted' BY <1>2 DEF IInv, Counted, Users
<1>13. Cache' BY <1>2 DEF IInv, Cache
<1>14. Fresh' BY <1>1, <1>2 DEF IInv, ProcsTyped, Fresh, Requesters
<1>15. Chains'
  <2>1. ASSUME NEW q \in Requesters'
        PROVE  /\ idx'[q] \in Descs
               /\ idx'[q] # next'[idx'[q]] /\ idx'[q] # next'[next'[idx'[q]]]
               /\ next'[idx'[q]] # next'[next'[idx'[q]]]
               /\ Chain(idx[q])' \cap free' = {}
               /\ info'[idx'[q]] = mine'[q]
               /\ req'[idx'[q]] = [write |-> io'[q] = "write", buf |-> mine'[q]]
    <3>1. CASE q = p BY <1>1, <1>2, <1>4, <1>5, <3>1 DEF Chain
    <3>2. CASE q \in Requesters
      <4>1. /\ idx[q] \in Descs /\ idx[q] # next[idx[q]] /\ idx[q] # next[next[idx[q]]]
            /\ next[idx[q]] # next[next[idx[q]]] /\ Chain(idx[q]) \cap free = {}
            /\ info[idx[q]] = mine[q]
            /\ req[idx[q]] = [write |-> io[q] = "write", buf |-> mine[q]]
        BY <3>2 DEF IInv, Chains
      <4>2. /\ idx'[q] = idx[q] /\ Chain(idx[q])' = Chain(idx[q])
            /\ info'[idx[q]] = info[idx[q]] /\ req'[idx[q]] = req[idx[q]]
            /\ next'[idx[q]] = next[idx[q]] /\ next'[next[idx[q]]] = next[next[idx[q]]]
        BY <1>6, <3>2
      <4>3. mine' = mine /\ io' = io /\ free' \subseteq free BY <1>1, <1>2
      <4> QED BY <4>1, <4>2, <4>3
    <3> QED BY <1>3, <3>1, <3>2
  <2>2. Chain(idx[p])' = {a, b, c} BY <1>5 DEF Chain
  <2>3. ASSUME NEW q \in Requesters', NEW other \in Requesters', q # other
        PROVE  Chain(idx[q])' \cap Chain(idx[other])' = {}
    <3>1. CASE q = p BY <1>3, <1>6, <2>2, <2>3, <3>1
    <3>2. CASE other = p BY <1>3, <1>6, <2>2, <2>3, <3>2
    <3>3. CASE q \in Requesters /\ other \in Requesters BY <1>6, <2>3, <3>3 DEF IInv, Chains
    <3> QED BY <1>3, <3>1, <3>2, <3>3
  <2>4. ASSUME NEW d \in Descs \ free' PROVE \E q \in Requesters' : d \in Chain(idx[q])'
    <3>1. CASE d \in {a, b, c} BY <1>3, <2>2, <3>1
    <3>2. CASE d \notin free BY <1>3, <1>6, <3>2 DEF IInv, Chains
    <3> QED BY <1>1, <3>1, <3>2
  <2> QED BY <2>1, <2>3, <2>4 DEF Chains
<1>16. Rings' BY <1>1, <1>2 DEF IInv, Rings
<1>17. Served'
  <2>1. Queued' = Queued \cup {a} /\ InUsed' = InUsed BY <1>1, <1>2
  <2>2. \A d \in Queued' : \E q \in Requesters' : idx'[q] = d
    BY <1>3, <1>5, <1>6, <2>1 DEF IInv, Served
  <2>3. ASSUME NEW q \in Requesters' PROVE onDisk'[mine'[q]] <=> idx'[q] \in Queued'
    <3>1. CASE q = p BY <1>2, <1>3, <1>5, <2>1, <3>1 DEF IInv, CacheTyped
    <3>2. CASE q \in Requesters
      <4>1. onDisk'[mine'[q]] = onDisk[mine[q]]
        BY <1>2, <1>6, <3>2, Requests DEF IInv, CacheTyped
      <4>2. onDisk[mine[q]] <=> idx[q] \in Queued BY <3>2 DEF IInv, Served
      <4> QED BY <1>6, <2>1, <3>2, <4>1, <4>2
    <3> QED BY <1>3, <3>1, <3>2
  <2>4. \A d \in InUsed' : ~ failed'[d]
    <3>1. \A d \in InUsed : d # a /\ ~ failed[d] BY <1>1 DEF IInv, Served
    <3> QED BY <1>1, <2>1, <3>1 DEF IInv, DiskTyped
  <2> QED BY <2>2, <2>3, <2>4 DEF Served
<1>18. Sleepers' BY <1>1, <1>2, <1>7 DEF IInv, ProcsTyped, Sleepers
<1> QED BY <1>8, <1>9, <1>10, <1>11, <1>12, <1>13, <1>14, <1>15, <1>16, <1>17, <1>18 DEF IInv

LEMMA SubmitWaitsKeeps ==
  ASSUME IInv, NEW p \in Procs, SubmitWaits(p)
  PROVE  IInv'
<1>1. InAvail' = InAvail /\ InUsed' = InUsed /\ (Orderly => Orderly')
  BY RingsStill DEF SubmitWaits
<1>2. SameRequests BY DEF IInv, ProcsTyped, SameRequests, Requesters, SubmitWaits
<1>3. CacheTyped' BY DEF IInv, CacheTyped, SubmitWaits
<1>4. DiskTyped' BY DEF IInv, DiskTyped, SubmitWaits
<1>5. ProcsTyped' BY DEF IInv, ProcsTyped, SubmitWaits
<1>6. Owners' BY DEF IInv, Owners, SubmitWaits
<1>7. Counted' BY DEF IInv, Counted, Users, SubmitWaits
<1>8. Cache' BY DEF IInv, Cache, SubmitWaits
<1>9. Fresh' BY <1>1 DEF IInv, Fresh, Requesters, SubmitWaits
<1>10. Chains' BY <1>2, ChainsStay DEF IInv, SubmitWaits
<1>11. Rings' BY <1>1 DEF IInv, Rings, SubmitWaits
<1>12. Served' BY <1>1, <1>2, ServedStay DEF IInv, SubmitWaits
<1>13. Sleepers' BY <1>1 DEF IInv, Sleepers, SubmitWaits
<1> QED BY <1>3, <1>4, <1>5, <1>6, <1>7, <1>8, <1>9, <1>10, <1>11, <1>12, <1>13 DEF IInv

LEMMA WaitOnKeeps ==
  ASSUME IInv, NEW p \in Procs, WaitOn(p)
  PROVE  IInv'
<1>1. InAvail' = InAvail /\ InUsed' = InUsed /\ (Orderly => Orderly') BY RingsStill DEF WaitOn
<1>2. SameRequests BY DEF IInv, ProcsTyped, SameRequests, Requesters, WaitOn
<1>3. CacheTyped' BY DEF IInv, CacheTyped, WaitOn
<1>4. DiskTyped' BY DEF IInv, DiskTyped, WaitOn
<1>5. ProcsTyped' BY DEF IInv, ProcsTyped, WaitOn
<1>6. Owners' BY DEF IInv, Owners, WaitOn
<1>7. Counted' BY DEF IInv, Counted, Users, WaitOn
<1>8. Cache' BY DEF IInv, Cache, WaitOn
<1>9. Fresh' BY <1>1 DEF IInv, Fresh, Requesters, WaitOn
<1>10. Chains' BY <1>2, ChainsStay DEF IInv, WaitOn
<1>11. Rings' BY <1>1 DEF IInv, Rings, WaitOn
<1>12. Served' BY <1>1, <1>2, ServedStay DEF IInv, WaitOn
<1>13. Sleepers' BY <1>1 DEF IInv, Served, Sleepers, Requesters, WaitOn
<1> QED BY <1>3, <1>4, <1>5, <1>6, <1>7, <1>8, <1>9, <1>10, <1>11, <1>12, <1>13 DEF IInv

LEMMA ReturnKeeps ==
  ASSUME IInv, NEW p \in Procs, Return(p)
  PROVE  IInv'
<1>1. InAvail' = InAvail /\ InUsed' = InUsed /\ (Orderly => Orderly') BY RingsStill DEF Return
<1>2. /\ pc[p] = "wait" /\ ~ onDisk[mine[p]]
      /\ info' = [info EXCEPT ![idx[p]] = NoBuf] /\ free' = free \cup Chain(idx[p])
      /\ next' = [d \in Descs |-> IF d \in Chain(idx[p]) THEN 0 ELSE next[d]]
      /\ idx' = [idx EXCEPT ![p] = NoDesc] /\ valid' = [valid EXCEPT ![mine[p]] = TRUE]
      /\ pc' = [q \in Procs |-> IF q = p THEN "use" ELSE
                                IF pc[q] = "descSleep" THEN "submit" ELSE pc[q]]
      /\ UNCHANGED <<blockno, data, onDisk, refcnt, lock, order, req, failed, rings, device,
                     handler, mine, io, calls>>
  BY DEF Return
<1>3. p \in Requesters /\ Requesters' = Requesters \ {p}
  BY <1>2 DEF IInv, ProcsTyped, Requesters
<1>4. Chain(idx[p]) \subseteq Descs /\ idx[p] \in Descs /\ mine[p] \in Bufs
  BY <1>3, Requests DEF IInv, DiskTyped, Chain
<1>5. ASSUME NEW q \in Requesters \ {p}
      PROVE  /\ idx[q] # idx[p] /\ mine[q] # mine[p] /\ idx'[q] = idx[q]
             /\ Chain(idx[q])' = Chain(idx[q]) /\ Chain(idx[q]) \cap Chain(idx[p]) = {}
             /\ info'[idx[q]] = info[idx[q]]
             /\ next'[idx[q]] = next[idx[q]] /\ next'[next[idx[q]]] = next[next[idx[q]]]
  <2>1. /\ q \in Procs /\ idx[q] \in Descs
        /\ idx[q] # idx[p] /\ mine[q] # mine[p]
    BY <1>3, Requests
  <2>2. Chain(idx[q]) \cap Chain(idx[p]) = {} BY <1>3 DEF IInv, Chains
  <2>3. idx[q] \notin Chain(idx[p]) /\ next[idx[q]] \notin Chain(idx[p]) /\ next[idx[q]] \in Descs
    BY <2>1, <2>2 DEF Chain, IInv, DiskTyped
  <2>4. next'[idx[q]] = next[idx[q]] /\ next'[next[idx[q]]] = next[next[idx[q]]]
    BY <1>2, <2>1, <2>3
  <2>5. idx'[q] = idx[q] /\ info'[idx[q]] = info[idx[q]]
    BY <1>2, <2>1 DEF IInv, DiskTyped, ProcsTyped
  <2> QED BY <2>1, <2>2, <2>4, <2>5 DEF Chain
<1>6. CacheTyped' BY <1>2 DEF IInv, CacheTyped
<1>7. DiskTyped' BY <1>2, <1>4, Sizes DEF IInv, DiskTyped
<1>8. ProcsTyped' BY <1>2 DEF IInv, ProcsTyped
<1>9. Owners' BY <1>2 DEF IInv, Owners
<1>10. Counted' BY <1>2 DEF IInv, Counted, Users
<1>11. Cache' BY <1>2 DEF IInv, Owners, Cache
<1>12. Fresh'
  BY <1>1, <1>2, Sizes DEF IInv, CacheTyped, ProcsTyped, Owners, Fresh, Served, Requesters
<1>13. Chains'
  <2>1. ASSUME NEW q \in Requesters'
        PROVE  /\ idx'[q] \in Descs
               /\ idx'[q] # next'[idx'[q]] /\ idx'[q] # next'[next'[idx'[q]]]
               /\ next'[idx'[q]] # next'[next'[idx'[q]]]
               /\ Chain(idx[q])' \cap free' = {}
               /\ info'[idx'[q]] = mine'[q]
               /\ req'[idx'[q]] = [write |-> io'[q] = "write", buf |-> mine'[q]]
    BY <1>2, <1>3, <1>5 DEF IInv, Chains
  <2>2. \A q, other \in Requesters' : q # other => Chain(idx[q])' \cap Chain(idx[other])' = {}
    BY <1>3, <1>5 DEF IInv, Chains
  <2>3. \A d \in Descs \ free' : \E q \in Requesters' : d \in Chain(idx[q])'
    BY <1>2, <1>3, <1>5 DEF IInv, Chains
  <2> QED BY <2>1, <2>2, <2>3 DEF Chains
<1>14. Rings' BY <1>1, <1>2 DEF IInv, Rings
<1>15. Served' BY <1>1, <1>2, <1>3 DEF IInv, Served
<1>16. Sleepers' BY <1>1, <1>2 DEF IInv, Sleepers
<1> QED BY <1>6, <1>7, <1>8, <1>9, <1>10, <1>11, <1>12, <1>13, <1>14, <1>15, <1>16 DEF IInv

LEMMA KillKeeps ==
  ASSUME IInv, NEW p \in Procs, Kill(p)
  PROVE  IInv'
<1>1. InAvail' = InAvail /\ InUsed' = InUsed /\ (Orderly => Orderly') BY RingsStill DEF Kill
<1>2. SameRequests BY DEF IInv, ProcsTyped, SameRequests, Requesters, Kill
<1>3. CacheTyped' BY DEF IInv, CacheTyped, Kill
<1>4. DiskTyped' BY DEF IInv, DiskTyped, Kill
<1>5. ProcsTyped' BY Sizes DEF IInv, ProcsTyped, Kill
<1>6. Owners' BY DEF IInv, Owners, Kill
<1>7. Counted' BY DEF IInv, Counted, Users, Kill
<1>8. Cache' BY DEF IInv, Cache, Kill
<1>9. Fresh' BY <1>1 DEF IInv, Fresh, Requesters, Kill
<1>10. Chains' BY <1>2, ChainsStay DEF IInv, Kill
<1>11. Rings' BY <1>1 DEF IInv, Rings, Kill
<1>12. Served' BY <1>1, <1>2, ServedStay DEF IInv, Kill
<1>13. Sleepers' BY <1>1 DEF IInv, Sleepers, Kill
<1> QED BY <1>3, <1>4, <1>5, <1>6, <1>7, <1>8, <1>9, <1>10, <1>11, <1>12, <1>13 DEF IInv

LEMMA InterruptKeeps ==
  ASSUME IInv, Interrupt
  PROVE  IInv'
<1>1. InAvail' = InAvail /\ InUsed' = InUsed /\ (Orderly => Orderly')
  BY RingsStill DEF Interrupt
<1>2. SameRequests BY DEF IInv, ProcsTyped, SameRequests, Requesters, Interrupt
<1>3. CacheTyped' BY DEF IInv, CacheTyped, Interrupt
<1>4. DiskTyped' BY DEF IInv, DiskTyped, Interrupt
<1>5. ProcsTyped' BY DEF IInv, ProcsTyped, Interrupt
<1>6. Owners' BY DEF IInv, Owners, Interrupt
<1>7. Counted' BY DEF IInv, Counted, Users, Interrupt
<1>8. Cache' BY DEF IInv, Cache, Interrupt
<1>9. Fresh' BY <1>1 DEF IInv, Fresh, Requesters, Interrupt
<1>10. Chains' BY <1>2, ChainsStay DEF IInv, Interrupt
<1>11. Rings' BY <1>1 DEF IInv, Rings, Interrupt
<1>12. Served' BY <1>1, <1>2, ServedStay DEF IInv, Interrupt
<1>13. Sleepers' BY <1>1 DEF IInv, Sleepers, Interrupt
<1> QED BY <1>3, <1>4, <1>5, <1>6, <1>7, <1>8, <1>9, <1>10, <1>11, <1>12, <1>13 DEF IInv

LEMMA CompletedKeeps ==
  ASSUME IInv, Completed
  PROVE  IInv'
<1>1. PICK d \in InUsed, p \in Requesters :
        /\ Orderly' /\ InUsed' = InUsed \ {d} /\ InAvail' = InAvail
        /\ used_idx' \in 0 .. Wrap - 1
        /\ idx[p] = d /\ info[d] = mine[p]
        /\ onDisk' = [onDisk EXCEPT ![mine[p]] = FALSE]
        /\ Wakes(WaitForIo(mine[p]), "wait", Nobody, "none")
  BY CompletedEffect
<1>2. /\ handler = "loop"
      /\ UNCHANGED <<blockno, valid, data, refcnt, lock, order, descs, avail, availIdx, used,
                     usedIdx, device, handler, mine, io, idx, calls>>
  BY DEF Completed
<1>3. SameRequests /\ mine[p] \in Bufs
  <2>1. \A q \in Procs : q \in Requesters' <=> q \in Requesters
    BY <1>1, Sizes DEF IInv, ProcsTyped, Requesters
  <2>2. Requesters' = Requesters BY <2>1 DEF Requesters
  <2> QED BY <1>2, <2>2, Requests DEF SameRequests
<1>4. \A q \in Requesters : q # p => mine[q] # mine[p] /\ idx[q] # d BY <1>1, Requests
<1>5. CacheTyped' BY <1>1, <1>2 DEF IInv, CacheTyped
<1>6. DiskTyped' BY <1>1, <1>2 DEF IInv, DiskTyped
<1>7. ProcsTyped' BY <1>1, <1>2, Sizes DEF IInv, ProcsTyped
<1>8. Owners' BY <1>1, <1>2, Sizes DEF IInv, Owners
<1>9. Counted' BY <1>2 DEF IInv, Counted, Users
<1>10. Cache' BY <1>2 DEF IInv, Cache
<1>11. Fresh' BY <1>1, <1>2 DEF IInv, Fresh, Requesters
<1>12. Chains' BY <1>2, <1>3, ChainsStay DEF IInv
<1>13. Rings' BY <1>1, <1>2 DEF IInv, Rings
<1>14. Served' BY <1>1, <1>2, <1>3, <1>4 DEF IInv, CacheTyped, Rings, Served, SameRequests
<1>15. Sleepers' BY <1>1, <1>2, <1>4 DEF IInv, Sleepers, Requesters
<1> QED BY <1>5, <1>6, <1>7, <1>8, <1>9, <1>10, <1>11, <1>12, <1>13, <1>14, <1>15 DEF IInv

LEMMA InterruptReturnsKeeps ==
  ASSUME IInv, InterruptReturns
  PROVE  IInv'
<1>1. InAvail' = InAvail /\ InUsed' = InUsed /\ (Orderly => Orderly')
  BY RingsStill DEF InterruptReturns
<1>2. SameRequests BY DEF IInv, ProcsTyped, SameRequests, Requesters, InterruptReturns
<1>3. CacheTyped' BY DEF IInv, CacheTyped, InterruptReturns
<1>4. DiskTyped' BY DEF IInv, DiskTyped, InterruptReturns
<1>5. ProcsTyped' BY DEF IInv, ProcsTyped, InterruptReturns
<1>6. Owners' BY DEF IInv, Owners, InterruptReturns
<1>7. Counted' BY DEF IInv, Counted, Users, InterruptReturns
<1>8. Cache' BY DEF IInv, Cache, InterruptReturns
<1>9. Fresh' BY <1>1 DEF IInv, Fresh, Requesters, InterruptReturns
<1>10. Chains' BY <1>2, ChainsStay DEF IInv, InterruptReturns
<1>11. Rings' BY <1>1 DEF IInv, Rings, InterruptReturns
<1>12. Served' BY <1>1, <1>2, ServedStay DEF IInv, InterruptReturns
<1>13. Sleepers' BY <1>1 DEF IInv, Sleepers, InterruptReturns
<1> QED BY <1>3, <1>4, <1>5, <1>6, <1>7, <1>8, <1>9, <1>10, <1>11, <1>12, <1>13 DEF IInv

LEMMA TakeKeeps ==
  ASSUME IInv, Take
  PROVE  IInv'
<1>1. PICK d \in InAvail :
        /\ Orderly' /\ InAvail' = InAvail \ {d} /\ InUsed' = InUsed
        /\ d \in Descs /\ service' = service \cup {d} /\ seen' \in 0 .. Wrap - 1
  BY TakeEffect
<1>2. UNCHANGED <<cache, descs, avail, availIdx, used, usedIdx, used_idx, platter, irq, handler,
                procs, calls>>
  BY DEF Take
<1>3. SameRequests BY <1>2 DEF SameRequests, Requesters
<1>4. Queued' = Queued BY <1>1
<1>5. CacheTyped' BY <1>2 DEF IInv, CacheTyped
<1>6. DiskTyped' BY <1>1, <1>2 DEF IInv, DiskTyped
<1>7. ProcsTyped' BY <1>2 DEF IInv, ProcsTyped
<1>8. Owners' BY <1>2 DEF IInv, Owners
<1>9. Counted' BY <1>2 DEF IInv, Counted, Users
<1>10. Cache' BY <1>2 DEF IInv, Cache
<1>11. Fresh' BY <1>1, <1>2 DEF IInv, Fresh, Requesters
<1>12. Chains' BY <1>2, <1>3, ChainsStay DEF IInv
<1>13. Rings' BY <1>1 DEF IInv, Rings
<1>14. Served' BY <1>1, <1>2, <1>3, ServedStay DEF IInv
<1>15. Sleepers' BY <1>1, <1>2 DEF IInv, Sleepers
<1> QED BY <1>5, <1>6, <1>7, <1>8, <1>9, <1>10, <1>11, <1>12, <1>13, <1>14, <1>15 DEF IInv

LEMMA ServeKeeps ==
  ASSUME IInv, NEW d \in Descs, Serve(d)
  PROVE  IInv'
<1>1. /\ Orderly' /\ InUsed' = InUsed \cup {d} /\ InAvail' = InAvail
      /\ used' \in [Descs -> Descs] /\ usedIdx' \in 0 .. Wrap - 1
  BY ServeEffect
<1>2. PICK p \in Requesters :
        /\ idx[p] = d /\ mine[p] \in Bufs /\ blockno[mine[p]] \in Blocks
        /\ IF io[p] = "write"
             THEN /\ platter' = [platter EXCEPT ![blockno[mine[p]]] = data[mine[p]]]
                  /\ data' = data
             ELSE /\ data' = [data EXCEPT ![mine[p]] = platter[blockno[mine[p]]]]
                  /\ platter' = platter
  BY ServeMoves
<1>3. /\ d \in service /\ service' = service \ {d}
      /\ failed' = [failed EXCEPT ![d] = FALSE] /\ irq' = TRUE
      /\ UNCHANGED <<blockno, valid, onDisk, refcnt, lock, order, free, next, req, info, avail,
                     availIdx, used_idx, seen, handler, procs, calls>>
  BY DEF Serve
<1>4. SameRequests
  <2>1. UNCHANGED <<pc, mine, io, idx>> BY DEF Serve
  <2> QED BY <2>1 DEF SameRequests, Requesters
<1>5. /\ data' \in [Bufs -> Contents] /\ platter' \in [Blocks -> Contents]
      /\ data'[mine[p]] = platter'[blockno[mine[p]]]
      /\ \A b \in Bufs \ {mine[p]} :
           Clean(b) /\ blockno[b] \in Blocks => data'[b] = platter'[blockno[b]]
  <2>1. /\ data \in [Bufs -> Contents] /\ platter \in [Blocks -> Contents]
        /\ mine[p] \in Bufs /\ blockno[mine[p]] \in Blocks /\ blockno' = blockno
        /\ \A b \in Bufs : blockno[b] = blockno[mine[p]] => b = mine[p]
    BY <1>2, <1>3, Sizes DEF IInv, CacheTyped, Cache
  <2>2. CASE io[p] = "write"
    <3>1. /\ platter' = [platter EXCEPT ![blockno[mine[p]]] = data[mine[p]]]
          /\ data' = data
      BY <1>2, <2>2
    <3>2. data' \in [Bufs -> Contents] /\ platter' \in [Blocks -> Contents] BY <2>1, <3>1
    <3>3. data'[mine[p]] = platter'[blockno[mine[p]]] BY <2>1, <3>1
    <3>4. ASSUME NEW b \in Bufs \ {mine[p]}, blockno[b] \in Blocks
          PROVE  data'[b] = data[b] /\ platter'[blockno[b]] = platter[blockno[b]]
      BY <2>1, <3>1, <3>4
    <3> QED BY <2>1, <3>2, <3>3, <3>4
  <2>3. CASE io[p] # "write"
    <3>1. /\ data' = [data EXCEPT ![mine[p]] = platter[blockno[mine[p]]]]
          /\ platter' = platter
      BY <1>2, <2>3
    <3>2. data' \in [Bufs -> Contents] /\ platter' \in [Blocks -> Contents] BY <2>1, <3>1
    <3>3. data'[mine[p]] = platter'[blockno[mine[p]]] BY <2>1, <3>1
    <3>4. ASSUME NEW b \in Bufs \ {mine[p]}, blockno[b] \in Blocks
          PROVE  data'[b] = data[b] /\ platter'[blockno[b]] = platter[blockno[b]]
      BY <2>1, <3>1, <3>4
    <3> QED BY <2>1, <3>2, <3>3, <3>4
  <2> QED BY <2>2, <2>3
<1>6. Queued' = Queued BY <1>1, <1>3
<1>7. CacheTyped' BY <1>3, <1>5 DEF IInv, CacheTyped
<1>8. DiskTyped' BY <1>1, <1>3 DEF IInv, DiskTyped
<1>9. ProcsTyped' BY <1>3 DEF IInv, ProcsTyped
<1>10. Owners' BY <1>3 DEF IInv, Owners
<1>11. Counted' BY <1>3 DEF IInv, Counted, Users
<1>12. Cache' BY DEF IInv, Cache, Serve
<1>13. Fresh'
  <2>1. UNCHANGED <<blockno, valid, lock, pc, mine, io, idx>> BY DEF Serve
  <2>2. \A q \in Procs : pc[q] = "use" => mine[q] \in Bufs /\ blockno[mine[q]] \in Blocks
    BY Sizes DEF IInv, ProcsTyped, Owners
  <2>3. ASSUME NEW b \in Bufs, Clean(b), blockno[b] \in Blocks PROVE Clean(b)'
    <3>1. b = mine[p] \/ b \in Bufs \ {mine[p]} BY <2>3
    <3>2. data'[b] = platter'[blockno[b]] BY <1>5, <2>3, <3>1, Zenon
    <3> QED BY <2>1, <3>2
  <2>4. \A b \in Bufs : valid'[b] /\ lock'[b] = Nobody => Clean(b)'
    BY <2>1, <2>3 DEF IInv, Fresh, Cache
  <2>5. \A q \in Procs : pc'[q] = "use" => valid'[mine'[q]] /\ Clean(mine[q])'
    BY <2>1, <2>2, <2>3 DEF IInv, Fresh
  <2>6. ASSUME NEW q \in Requesters, idx[q] \notin Told' PROVE Clean(mine[q])'
    <3>1. CASE q = p BY <1>5, <2>1, <3>1
    <3>2. CASE q # p
      <4>1. idx[q] # d /\ mine[q] \in Bufs /\ blockno[mine[q]] \in Blocks
        BY <1>2, <3>2, Requests
      <4>2. idx[q] \notin Told BY <1>1, <1>3, <2>6, <4>1
      <4>3. Clean(mine[q]) BY <4>2 DEF IInv, Fresh
      <4> QED BY <2>1, <2>3, <4>1, <4>3
    <3> QED BY <3>1, <3>2
  <2> QED BY <1>4, <2>1, <2>4, <2>5, <2>6 DEF IInv, Fresh, SameRequests
<1>14. Chains' BY <1>3, <1>4, ChainsStay DEF IInv
<1>15. Rings' BY <1>1, <1>3 DEF IInv, Rings
<1>16. Served'
  <2>1. UNCHANGED <<onDisk, mine, idx>> /\ failed' = [failed EXCEPT ![d] = FALSE] BY DEF Serve
  <2> QED BY <1>1, <1>4, <1>6, <2>1 DEF IInv, DiskTyped, Served, SameRequests
<1>17. Sleepers' BY <1>1, <1>3 DEF IInv, Sleepers
<1> QED BY <1>7, <1>8, <1>9, <1>10, <1>11, <1>12, <1>13, <1>14, <1>15, <1>16, <1>17 DEF IInv

LEMMA NothingHeld ==
  ASSUME NEW ring \in [Descs -> Descs], NEW i \in 0 .. Wrap - 1
  PROVE  Held(ring, NUM, Wrap, i, i) = <<>>
<1>1. Ahead(Wrap, i, i) = 0 BY Sizes, Distance DEF Gap
<1>2. RingStart(ring, i, i) BY RingFront
<1> QED BY <1>1, <1>2 DEF RingStart

LEMMA Starts == Init => IInv
<1> SUFFICES ASSUME Init PROVE IInv
  OBVIOUS
<1>1. /\ avail \in [Descs -> Descs] /\ used \in [Descs -> Descs]
      /\ seen = Start /\ availIdx = Start /\ used_idx = Start /\ usedIdx = Start
  BY Sizes DEF Init
<1>2. AvailQ = <<>> /\ UsedQ = <<>> BY <1>1, Sizes, NothingHeld DEF AvailQ, UsedQ
<1>3. InAvail = {} /\ InUsed = {} /\ Orderly BY <1>2 DEF InAvail, InUsed, Orderly, Once, ToSet
<1>4. Requesters = {} /\ Queued = {} BY <1>3 DEF Init, Requesters
<1>5. CacheTyped
  <2>1. order \in [1 .. NBUF -> Bufs] BY Sizes DEF Init, Bufs
  <2> QED BY <2>1 DEF Init, CacheTyped, Contents
<1>6. DiskTyped BY Sizes DEF Init, DiskTyped, NoReq
<1>7. ProcsTyped BY Sizes DEF Init, ProcsTyped
<1>8. Owners BY Sizes DEF Init, Owners
<1>9. Counted
  <2>1. \A b \in Bufs : Users(b) = {} BY Sizes DEF Init, Users
  <2> QED BY <2>1, FS_EmptySet DEF Init, Counted
<1>10. Cache
  <2>1. ASSUME NEW b \in Bufs PROVE \E k \in 1 .. NBUF : order[k] = b
    <3>1. NBUF + 1 - b \in 1 .. NBUF /\ NBUF + 1 - (NBUF + 1 - b) = b BY Sizes DEF Bufs
    <3> QED BY <3>1 DEF Init
  <2> QED BY <2>1 DEF Init, Cache
<1>11. Fresh BY <1>4 DEF Init, Fresh
<1>12. Chains BY <1>4 DEF Init, Chains
<1>13. Rings /\ Served BY <1>3, <1>4 DEF Init, Rings, Served
<1>14. Sleepers BY DEF Init, Sleepers
<1> QED BY <1>5, <1>6, <1>7, <1>8, <1>9, <1>10, <1>11, <1>12, <1>13, <1>14 DEF IInv

LEMMA StutterKeeps ==
  ASSUME IInv, UNCHANGED vars
  PROVE  IInv'
<1>1. InAvail' = InAvail /\ InUsed' = InUsed /\ (Orderly => Orderly') BY RingsStill DEF vars
<1>2. SameRequests BY DEF vars, SameRequests, Requesters
<1>3. CacheTyped' /\ DiskTyped' /\ ProcsTyped'
  BY DEF vars, IInv, CacheTyped, DiskTyped, ProcsTyped
<1>4. Owners' /\ Counted' /\ Cache' BY DEF vars, IInv, Owners, Counted, Users, Cache
<1>5. Fresh' /\ Sleepers' BY <1>1 DEF vars, IInv, Fresh, Sleepers, Requesters
<1>6. Chains' BY <1>2, ChainsStay DEF vars, IInv
<1>7. Rings' BY <1>1 DEF vars, IInv, Rings
<1>8. Served' BY <1>1, <1>2, ServedStay DEF vars, IInv
<1> QED BY <1>3, <1>4, <1>5, <1>6, <1>7, <1>8 DEF IInv

LEMMA NextKeeps == IInv /\ [Next]_vars => IInv'
<1> SUFFICES ASSUME IInv, [Next]_vars PROVE IInv'
  OBVIOUS
<1>1. CASE UNCHANGED vars BY <1>1, StutterKeeps
<1>2. ASSUME NEW p \in Procs, Process(p) \/ Kill(p) PROVE IInv'
  <2>1. ASSUME NEW k \in Blocks, Bget(p, k) \/ BgetPanics(p, k) PROVE IInv'
    BY <2>1, BgetKeeps, BgetPanicsKeeps
  <2>2. CASE Acquire(p) \/ AcquireWaits(p) BY <2>2, AcquireKeeps, AcquireWaitsKeeps
  <2>3. CASE Bwrite(p) \/ Brelse(p) \/ Unref(p) BY <2>3, BwriteKeeps, BrelseKeeps, UnrefKeeps
  <2>4. CASE Submit(p) \/ SubmitWaits(p) BY <2>4, SubmitKeeps, SubmitWaitsKeeps
  <2>5. CASE WaitOn(p) \/ Return(p) \/ Kill(p) BY <2>5, WaitOnKeeps, ReturnKeeps, KillKeeps
  <2> QED BY <1>2, <2>1, <2>2, <2>3, <2>4, <2>5 DEF Process
<1>3. CASE Interrupt \/ Completed \/ InterruptReturns
  BY <1>3, InterruptKeeps, CompletedKeeps, InterruptReturnsKeeps
<1>4. CASE Take BY <1>4, TakeKeeps
<1>5. ASSUME NEW d \in Descs, Serve(d) PROVE IInv' BY <1>5, ServeKeeps
<1> QED BY <1>1, <1>2, <1>3, <1>4, <1>5 DEF Next

LEMMA Invariance == Spec => []IInv
BY Starts, NextKeeps, PTL DEF Spec

-----
\* The theorems about the driver.
\* The entries of a ring are what it holds.
LEMMA EntriesHeld ==
  ASSUME NEW ring \in [Descs -> Descs], NEW i \in 0 .. Wrap - 1, NEW j \in 0 .. Wrap - 1
  PROVE  Entries(ring, i, j) = ToSet(Held(ring, NUM, Wrap, i, j))
<1> DEFINE top == Ahead(Wrap, i, j)
           h == Held(ring, NUM, Wrap, i, j)
<1>1. top \in Nat BY RingFront DEF RingStart
<1>2. Entries(ring, i, j) = {ring[(i + k) % NUM] : k \in 0 .. top - 1} BY DEF Entries, Ahead
<1>3. h = [k \in 1 .. top |-> ring[(i + k - 1) % NUM]] BY DEF Held
<1> HIDE DEF top, h
<1>4. ToSet(h) = {ring[(i + k - 1) % NUM] : k \in 1 .. top} BY <1>3 DEF ToSet
<1>5. ASSUME NEW k \in 0 .. top - 1
      PROVE  k + 1 \in 1 .. top /\ i + (k + 1) - 1 = i + k
  BY <1>1
<1>6. ASSUME NEW k \in 1 .. top
      PROVE  k - 1 \in 0 .. top - 1 /\ i + k - 1 = i + (k - 1)
  BY <1>1
<1> QED BY <1>2, <1>4, <1>5, <1>6 DEF h

LEMMA Three ==
  ASSUME NEW a, NEW b, NEW c, a # b, a # c, b # c
  PROVE  Cardinality({a, b, c}) = 3
<1>1. IsFiniteSet({a}) /\ Cardinality({a}) = 1 BY FS_Singleton
<1>2. IsFiniteSet({a} \cup {b}) /\ Cardinality({a} \cup {b}) = 2 BY <1>1, FS_AddElement
<1>3. Cardinality(({a} \cup {b}) \cup {c}) = 3 BY <1>2, FS_AddElement
<1>4. ({a} \cup {b}) \cup {c} = {a, b, c} OBVIOUS
<1> QED BY <1>3, <1>4

LEMMA RingEntries ==
  ASSUME IInv
  PROVE  /\ Entries(avail, seen, availIdx) = InAvail
         /\ Entries(used, used_idx, usedIdx) = InUsed
BY EntriesHeld DEF IInv, DiskTyped, InAvail, InUsed, AvailQ, UsedQ

\* A descriptor is free or belongs to one request, and the device and the handler
\* meet only requests of processes that still wait for them.
THEOREM DescriptorsAreSound == Spec => []DescriptorsSound
<1>1. ASSUME IInv PROVE DescriptorsSound
  <2>1. ASSUME NEW p \in Requesters
        PROVE  Cardinality(Chain(idx[p])) = 3 /\ info[idx[p]] = mine[p]
    <3>1. /\ idx[p] # next[idx[p]] /\ idx[p] # next[next[idx[p]]]
          /\ next[idx[p]] # next[next[idx[p]]] /\ info[idx[p]] = mine[p]
      BY <1>1 DEF IInv, Chains
    <3> QED BY <3>1, Three DEF Chain
  <2>2. \A p \in Requesters : \A q \in Requesters \ {p} : Chain(idx[p]) \cap Chain(idx[q]) = {}
    BY <1>1 DEF IInv, Chains
  <2>3. free = Descs \ UNION {Chain(idx[p]) : p \in Requesters}
    <3>1. ASSUME NEW d \in Descs
          PROVE  d \in free <=> \A p \in Requesters : d \notin Chain(idx[p])
      BY <1>1 DEF IInv, Chains
    <3>2. free \subseteq Descs BY <1>1 DEF IInv, DiskTyped
    <3> QED BY <3>1, <3>2
  <2>4. \A d \in Queued : \E p \in Requesters : idx[p] = d /\ onDisk[mine[p]]
    BY <1>1 DEF IInv, Served
  <2>5. \A d \in InUsed : ~ failed[d] BY <1>1 DEF IInv, Served
  <2> QED BY <1>1, <2>1, <2>2, <2>3, <2>4, <2>5, RingEntries DEF DescriptorsSound
<1>2. IInv => DescriptorsSound BY <1>1
<1> QED BY <1>2, Invariance, PTL

\* Whoever sleeps, for a buffer, for descriptors or for its request, has somebody
\* that is going to wake it.
THEOREM NobodyIsForgotten == Spec => []NobodyForgotten
<1>1. ASSUME IInv PROVE NobodyForgotten
  <2>1. ASSUME NEW p \in Procs, pc[p] = "ioSleep"
        PROVE  onDisk[mine[p]] /\ idx[p] \in Queued
    BY <1>1, <2>1 DEF IInv, Sleepers, Served, Requesters
  <2> QED BY <1>1, <2>1, RingEntries DEF IInv, Sleepers, NobodyForgotten
<1>2. IInv => NobodyForgotten BY <1>1
<1> QED BY <1>2, Invariance, PTL

-----
\* The cache with its driver is a store of blocks.
\* What the store holds, of a cache given by four functions, and who has what.
StoreOf(bn, va, da, pl) ==
  [k \in Blocks |-> IF \E b \in {c \in Bufs : bn[c] = k} : va[b]
                      THEN da[CHOOSE b \in {c \in Bufs : bn[c] = k} : va[b]] ELSE pl[k]]
Store  == StoreOf(blockno, valid, data, platter)
Opened == [p \in Procs |-> IF Holds(p) THEN blockno[mine[p]] ELSE NoBlock]
Apart(bn) == \A a, b \in Bufs : bn[a] = bn[b] /\ bn[a] # NoBlock => a = b

LEMMA StoreAt ==
  ASSUME NEW bn, NEW va, NEW da, NEW pl, Apart(bn)
  PROVE  /\ \A b \in Bufs : va[b] /\ bn[b] \in Blocks => StoreOf(bn, va, da, pl)[bn[b]] = da[b]
         /\ \A k \in Blocks : (\A b \in Bufs : bn[b] = k => ~ va[b])
                                => StoreOf(bn, va, da, pl)[k] = pl[k]
<1>1. ASSUME NEW b \in Bufs, va[b], bn[b] \in Blocks
      PROVE  StoreOf(bn, va, da, pl)[bn[b]] = da[b]
  <2> DEFINE S == {c \in Bufs : bn[c] = bn[b]}
             one == CHOOSE c \in S : va[c]
  <2>1. b \in S /\ \A c \in S : c = b BY <1>1, Sizes DEF Apart
  <2>2. one = b
    <3> HIDE DEF S
    <3>1. one \in S BY <1>1, <2>1
    <3> QED BY <2>1, <3>1
  <2>3. StoreOf(bn, va, da, pl)[bn[b]] = IF \E c \in S : va[c] THEN da[one] ELSE pl[bn[b]]
    BY <1>1 DEF StoreOf
  <2> HIDE DEF S, one
  <2> QED BY <1>1, <2>1, <2>2, <2>3
<1>2. ASSUME NEW k \in Blocks, \A b \in Bufs : bn[b] = k => ~ va[b]
      PROVE  StoreOf(bn, va, da, pl)[k] = pl[k]
  BY <1>2 DEF StoreOf
<1> QED BY <1>1, <1>2

\* Two caches with the same store: what is valid in the one is valid in the other
\* or equal to the disk.
LEMMA SameStore ==
  ASSUME NEW bn, NEW va, NEW da, NEW pl, NEW bn2, NEW va2, NEW da2, Apart(bn), Apart(bn2),
         \A b \in Bufs : va[b] /\ bn[b] \in Blocks =>
           \/ va2[b] /\ bn2[b] = bn[b] /\ da2[b] = da[b]
           \/ da[b] = pl[bn[b]] /\ \A c \in Bufs : bn2[c] = bn[b] => ~ va2[c],
         \A b \in Bufs : va2[b] /\ bn2[b] \in Blocks =>
           \/ va[b] /\ bn[b] = bn2[b] /\ da[b] = da2[b]
           \/ da2[b] = pl[bn2[b]] /\ \A c \in Bufs : bn[c] = bn2[b] => ~ va[c]
  PROVE  StoreOf(bn2, va2, da2, pl) = StoreOf(bn, va, da, pl)
<1> DEFINE f == StoreOf(bn, va, da, pl)
           g == StoreOf(bn2, va2, da2, pl)
<1>1. /\ \A b \in Bufs : va[b] /\ bn[b] \in Blocks => f[bn[b]] = da[b]
      /\ \A k \in Blocks : (\A b \in Bufs : bn[b] = k => ~ va[b]) => f[k] = pl[k]
  BY StoreAt
<1>2. /\ \A b \in Bufs : va2[b] /\ bn2[b] \in Blocks => g[bn2[b]] = da2[b]
      /\ \A k \in Blocks : (\A b \in Bufs : bn2[b] = k => ~ va2[b]) => g[k] = pl[k]
  BY StoreAt
<1>3. f = [k \in Blocks |-> f[k]] /\ g = [k \in Blocks |-> g[k]] BY DEF StoreOf
<1> HIDE DEF f, g
<1>4. ASSUME NEW k \in Blocks PROVE f[k] = g[k]
  <2>1. ASSUME NEW b \in Bufs, va[b], bn[b] = k PROVE f[k] = g[k] BY <1>1, <1>2, <2>1
  <2>2. ASSUME NEW b \in Bufs, va2[b], bn2[b] = k PROVE f[k] = g[k] BY <1>1, <1>2, <2>2
  <2>3. CASE \A b \in Bufs : (bn[b] = k => ~ va[b]) /\ (bn2[b] = k => ~ va2[b])
    BY <1>1, <1>2, <2>3
  <2> QED BY <2>1, <2>2, <2>3
<1> QED BY <1>3, <1>4 DEF f, g

LEMMA Mapping ==
  /\ B!Init <=> /\ Store = [b \in Blocks |-> b] /\ platter = Store
                /\ Opened = [p \in Procs |-> NoBlock]
  /\ UNCHANGED B!vars <=> UNCHANGED <<Store, platter, Opened>>
  /\ \A p \in Procs, k \in Blocks :
       B!Open(p, k) <=> /\ Opened[p] = NoBlock /\ \A q \in Procs : Opened[q] # k
                        /\ Opened' = [Opened EXCEPT ![p] = k]
                        /\ UNCHANGED <<Store, platter>>
  /\ \A p \in Procs, v \in Values :
       B!Write(p, v) <=> /\ Opened[p] # NoBlock
                         /\ Store' = [Store EXCEPT ![Opened[p]] = v]
                         /\ UNCHANGED <<platter, Opened>>
  /\ \A k \in Blocks :
       B!Save(k) <=> /\ platter' = [platter EXCEPT ![k] = Store[k]]
                     /\ UNCHANGED <<Store, Opened>>
  /\ \A p \in Procs :
       B!Close(p) <=> /\ Opened[p] # NoBlock /\ platter[Opened[p]] = Store[Opened[p]]
                      /\ Opened' = [Opened EXCEPT ![p] = NoBlock]
                      /\ UNCHANGED <<Store, platter>>
<1>1. /\ Store = [k \in Blocks |->
                    IF \E b \in Cached(k) : valid[b]
                      THEN data[CHOOSE b \in Cached(k) : valid[b]] ELSE platter[k]]
      /\ Store' = [k \in Blocks |->
                    IF \E b \in Cached(k) : valid[b]
                      THEN data[CHOOSE b \in Cached(k) : valid[b]] ELSE platter[k]]'
  BY DEF Store, StoreOf, Cached
<1>2. /\ Opened = [p \in Procs |-> IF Holds(p) THEN blockno[mine[p]] ELSE NoBlock]
      /\ Opened' = [p \in Procs |-> IF Holds(p) THEN blockno[mine[p]] ELSE NoBlock]'
  BY DEF Opened
<1> QED BY <1>1, <1>2, Zenon DEF B!vars, B!Init, B!Open, B!Write, B!Save, B!Close

LEMMA StoreInit == Init => B!Init
<1> SUFFICES ASSUME Init PROVE B!Init
  OBVIOUS
<1>1. \A p \in Procs : ~ Holds(p) BY DEF Init, Holds
<1>2. Opened = [p \in Procs |-> NoBlock] BY <1>1 DEF Opened
<1>3. \A b \in Bufs : ~ valid[b] BY DEF Init
<1>4. Store = [k \in Blocks |-> k] BY <1>3 DEF Init, Store, StoreOf
<1> QED BY <1>2, <1>4, Mapping DEF Init

\* Who holds a block is in its sleep-lock.
LEMMA Holders ==
  ASSUME IInv
  PROVE  /\ Apart(blockno)
         /\ \A p \in Procs : pc[p] \in Inside => /\ mine[p] \in Bufs /\ blockno[mine[p]] \in Blocks
                                                 /\ lock[mine[p]] = p
         /\ \A p \in Procs : Holds(p) => /\ pc[p] \in Inside /\ valid[mine[p]]
                                         /\ Opened[p] = blockno[mine[p]]
         /\ \A p \in Procs : ~ Holds(p) => Opened[p] = NoBlock
         /\ \A p \in Procs : pc[p] \in Asking /\ ~ Holds(p) => ~ valid[mine[p]]
<1>1. Apart(blockno) BY DEF IInv, Cache, Apart
<1>2. ASSUME NEW p \in Procs, pc[p] \in Inside
      PROVE  mine[p] \in Bufs /\ blockno[mine[p]] \in Blocks /\ lock[mine[p]] = p
  <2>1. mine[p] \in Bufs BY <1>2 DEF IInv, ProcsTyped, Owners
  <2> QED BY <1>2, <2>1 DEF IInv, Owners
<1>3. ASSUME NEW p \in Procs, Holds(p) PROVE pc[p] \in Inside /\ valid[mine[p]]
  BY <1>3 DEF Holds, IInv, Fresh
<1>4. ASSUME NEW p \in Procs, pc[p] \in Asking, ~ Holds(p) PROVE ~ valid[mine[p]]
  BY <1>4 DEF Holds, IInv, Fresh
<1> QED BY <1>1, <1>2, <1>3, <1>4 DEF Opened

\* Steps that leave the contents alone and nobody begins or ends a turn in.
LEMMA QuietRefines ==
  ASSUME IInv, UNCHANGED <<blockno, valid, data, platter>>,
         \A p \in Procs : (Holds(p)' <=> Holds(p)) /\ (Holds(p) => mine'[p] = mine[p])
  PROVE  UNCHANGED B!vars
<1>1. Store' = Store BY DEF Store
<1>2. Opened' = Opened BY DEF Opened
<1> QED BY <1>1, <1>2, Mapping

LEMMA ProcessQuiet ==
  ASSUME IInv, NEW p \in Procs,
         \/ AcquireWaits(p) \/ Unref(p) \/ Submit(p) \/ SubmitWaits(p) \/ WaitOn(p) \/ Kill(p)
  PROVE  UNCHANGED B!vars
<1>1. pc \in [Procs -> Inside \cup {"user", "panic", "acquire", "lockSleep", "released"}]
  BY DEF IInv, ProcsTyped
<1>2. mine \in [Procs -> Bufs \cup {NoBuf}] BY DEF IInv, ProcsTyped
<1>3. CASE AcquireWaits(p) \/ WaitOn(p) \/ Kill(p)
  BY <1>1, <1>3, QuietRefines DEF AcquireWaits, WaitOn, Kill, Holds
<1>4. CASE Unref(p) BY <1>1, <1>2, <1>4, QuietRefines DEF Unref, Holds
<1>5. CASE Submit(p) BY <1>1, <1>5, QuietRefines DEF Submit, Holds
<1>6. CASE SubmitWaits(p) BY <1>1, <1>6, QuietRefines DEF SubmitWaits, Holds
<1> QED BY <1>3, <1>4, <1>5, <1>6

LEMMA DeviceQuiet ==
  ASSUME IInv, Interrupt \/ Completed \/ InterruptReturns \/ Take \/ UNCHANGED vars
  PROVE  UNCHANGED B!vars
<1>1. CASE Completed
  <2>1. pc \in [Procs -> Inside \cup {"user", "panic", "acquire", "lockSleep", "released"}]
    BY DEF IInv, ProcsTyped
  <2>2. UNCHANGED <<blockno, valid, data, platter, mine, io>> BY <1>1 DEF Completed
  <2>3. PICK b : Wakes(WaitForIo(b), "wait", Nobody, "none") BY <1>1 DEF Completed
  <2> QED BY <2>1, <2>2, <2>3, Sizes, QuietRefines DEF Holds
<1>2. CASE Interrupt \/ InterruptReturns \/ Take \/ UNCHANGED vars
  BY <1>2, QuietRefines DEF Interrupt, InterruptReturns, Take, vars, Holds
<1> QED BY <1>1, <1>2

LEMMA AcquireRefines ==
  ASSUME IInv, NEW p \in Procs, Acquire(p)
  PROVE  B!Next \/ UNCHANGED B!vars
<1>1. /\ pc \in [Procs -> Inside \cup {"user", "panic", "acquire", "lockSleep", "released"}]
      /\ io \in [Procs -> {"read", "write"}]
  BY DEF IInv, ProcsTyped
<1>2. /\ pc[p] = "acquire" /\ lock[mine[p]] = Nobody
      /\ io' = [io EXCEPT ![p] = "read"]
      /\ pc' = [pc EXCEPT ![p] = IF valid[mine[p]] THEN "use" ELSE "submit"]
      /\ UNCHANGED <<blockno, valid, data, platter, mine>>
  BY DEF Acquire
<1>3. mine[p] \in Bufs /\ blockno[mine[p]] \in Blocks
  BY <1>2, Sizes DEF IInv, Owners, ProcsTyped
<1>4. /\ ~ Holds(p) /\ (Holds(p)' <=> valid[mine[p]])
      /\ \A q \in Procs \ {p} : Holds(q)' <=> Holds(q)
  BY <1>1, <1>2 DEF Holds
<1>5. CASE ~ valid[mine[p]] BY <1>2, <1>4, <1>5, QuietRefines
<1>6. CASE valid[mine[p]]
  <2>1. PICK k \in Blocks : k = blockno[mine[p]] BY <1>3
  <2>2. Store' = Store /\ platter' = platter BY <1>2 DEF Store
  <2>3. Opened' = [Opened EXCEPT ![p] = k] BY <1>2, <1>4, <1>6, <2>1 DEF Opened
  <2>4. ASSUME NEW q \in Procs PROVE Opened[q] # k
    <3>1. CASE Holds(q)
      <4>1. /\ Opened[q] = blockno[mine[q]] /\ mine[q] \in Bufs /\ lock[mine[q]] = q
            /\ Apart(blockno)
        BY <3>1, Holders
      <4>2. mine[q] # mine[p] BY <1>2, <4>1, Sizes
      <4> QED BY <1>3, <2>1, <4>1, <4>2, Sizes DEF Apart
    <3>2. CASE ~ Holds(q) BY <3>2, Holders, Sizes
    <3> QED BY <3>1, <3>2
  <2>5. Opened[p] = NoBlock BY <1>4, Holders
  <2>6. B!Open(p, k) BY <2>2, <2>3, <2>4, <2>5, Mapping
  <2> QED BY <2>6 DEF B!Next
<1> QED BY <1>5, <1>6

LEMMA BwriteRefines ==
  ASSUME IInv, NEW p \in Procs, Bwrite(p)
  PROVE  B!Next
<1>1. PICK v \in Values : data' = [data EXCEPT ![mine[p]] = v] BY DEF Bwrite
<1>2. /\ pc[p] = "use" /\ pc' = [pc EXCEPT ![p] = "submit"]
      /\ io' = [io EXCEPT ![p] = "write"]
      /\ UNCHANGED <<blockno, valid, platter, mine>>
  BY DEF Bwrite
<1>3. /\ pc \in [Procs -> Inside \cup {"user", "panic", "acquire", "lockSleep", "released"}]
      /\ io \in [Procs -> {"read", "write"}] /\ data \in [Bufs -> Contents]
  BY DEF IInv, ProcsTyped, CacheTyped
<1>4. \A q \in Procs : Holds(q)' <=> Holds(q) BY <1>2, <1>3 DEF Holds
<1>5. Opened' = Opened BY <1>2, <1>4 DEF Opened
<1> DEFINE k == blockno[mine[p]]
<1>6. /\ Holds(p) /\ mine[p] \in Bufs /\ k \in Blocks /\ valid[mine[p]] /\ Opened[p] = k
      /\ Apart(blockno)
  <2>1. Holds(p) BY <1>2 DEF Holds
  <2> QED BY <2>1, Holders
<1>7. Store' = [Store EXCEPT ![k] = v]
  <2> DEFINE g == StoreOf(blockno, valid, data', platter)
  <2>1. Store' = g BY <1>2 DEF Store
  <2>2. /\ \A b \in Bufs : valid[b] /\ blockno[b] \in Blocks => Store[blockno[b]] = data[b]
        /\ \A j \in Blocks : (\A b \in Bufs : blockno[b] = j => ~ valid[b]) => Store[j] = platter[j]
    BY <1>6, StoreAt DEF Store
  <2>3. /\ \A b \in Bufs : valid[b] /\ blockno[b] \in Blocks => g[blockno[b]] = data'[b]
        /\ \A j \in Blocks : (\A b \in Bufs : blockno[b] = j => ~ valid[b]) => g[j] = platter[j]
    BY <1>6, StoreAt
  <2>4. Store = [j \in Blocks |-> Store[j]] /\ g = [j \in Blocks |-> g[j]] BY DEF Store, StoreOf
  <2> HIDE DEF g
  <2>5. ASSUME NEW j \in Blocks PROVE g[j] = IF j = k THEN v ELSE Store[j]
    <3>1. CASE j = k BY <1>1, <1>3, <1>6, <2>3, <3>1
    <3>2. ASSUME j # k, NEW b \in Bufs, valid[b], blockno[b] = j PROVE g[j] = Store[j]
      BY <1>1, <1>3, <1>6, <2>2, <2>3, <3>2
    <3>3. CASE j # k /\ \A b \in Bufs : blockno[b] = j => ~ valid[b] BY <2>2, <2>3, <3>3
    <3> QED BY <3>1, <3>2, <3>3
  <2> QED BY <1>6, <2>1, <2>4, <2>5
<1>8. B!Write(p, v) BY <1>2, <1>5, <1>6, <1>7, Mapping, Sizes
<1> QED BY <1>8 DEF B!Next

LEMMA BrelseRefines ==
  ASSUME IInv, NEW p \in Procs, Brelse(p)
  PROVE  B!Next
<1>1. /\ pc[p] = "use" /\ UNCHANGED <<blockno, valid, data, platter, mine, io>>
      /\ Wakes(WaitForLock(mine[p]), "acquire", p, "released")
  BY DEF Brelse
<1>2. pc \in [Procs -> Inside \cup {"user", "panic", "acquire", "lockSleep", "released"}]
  BY DEF IInv, ProcsTyped
<1>3. /\ Holds(p) /\ ~ Holds(p)' /\ \A q \in Procs \ {p} : Holds(q)' <=> Holds(q)
  BY <1>1, <1>2 DEF Holds
<1>4. Store' = Store /\ Opened' = [Opened EXCEPT ![p] = NoBlock] BY <1>1, <1>3 DEF Store, Opened
<1>5. /\ mine[p] \in Bufs /\ blockno[mine[p]] \in Blocks /\ valid[mine[p]]
      /\ Opened[p] = blockno[mine[p]] /\ Apart(blockno)
  BY <1>3, Holders
<1>6. Clean(mine[p]) BY <1>1 DEF IInv, Fresh
<1>7. Store[blockno[mine[p]]] = data[mine[p]] BY <1>5, StoreAt DEF Store
<1>8. Opened[p] # NoBlock /\ platter[Opened[p]] = Store[Opened[p]] BY <1>5, <1>6, <1>7, Sizes
<1>9. B!Close(p) BY <1>1, <1>4, <1>8, Mapping
<1> QED BY <1>9 DEF B!Next

LEMMA ReturnRefines ==
  ASSUME IInv, NEW p \in Procs, Return(p)
  PROVE  B!Next \/ UNCHANGED B!vars
<1>1. /\ pc[p] = "wait" /\ ~ onDisk[mine[p]] /\ valid' = [valid EXCEPT ![mine[p]] = TRUE]
      /\ Wakes(WaitForDesc, "submit", p, "use")
      /\ UNCHANGED <<blockno, data, platter, mine, io>>
  BY DEF Return
<1>2. /\ pc \in [Procs -> Inside \cup {"user", "panic", "acquire", "lockSleep", "released"}]
      /\ io \in [Procs -> {"read", "write"}] /\ valid \in [Bufs -> BOOLEAN]
  BY DEF IInv, ProcsTyped, CacheTyped
<1>3. /\ mine[p] \in Bufs /\ blockno[mine[p]] \in Blocks /\ lock[mine[p]] = p /\ Apart(blockno)
      /\ p \in Requesters
  BY <1>1, Holders DEF Requesters
<1>4. PICK k \in Blocks : k = blockno[mine[p]] BY <1>3
<1>5. /\ Holds(p)' /\ (Holds(p) <=> io[p] = "write")
      /\ \A q \in Procs \ {p} : Holds(q)' <=> Holds(q)
  BY <1>1, <1>2 DEF Holds
<1>6. CASE Holds(p)
  <2>1. valid[mine[p]] BY <1>6, Holders
  <2>2. valid' = valid BY <1>1, <1>2, <1>3, <2>1
  <2> QED BY <1>1, <1>5, <1>6, <2>2, QuietRefines
<1>7. CASE ~ Holds(p)
  <2>1. ~ valid[mine[p]] /\ Opened[p] = NoBlock BY <1>1, <1>7, Holders
  <2>2. Clean(mine[p])
    <3>1. idx[p] \notin Told BY <1>1, <1>3 DEF IInv, Served
    <3> QED BY <1>3, <3>1 DEF IInv, Fresh
  <2>3. Store' = Store
    <3>1. /\ \A b \in Bufs : valid[b] => valid'[b]
          /\ \A b \in Bufs : valid'[b] /\ ~ valid[b] => b = mine[p]
      BY <1>1, <1>2, <1>3
    <3>2. \A c \in Bufs : blockno[c] = k => ~ valid[c] BY <1>3, <1>4, <2>1, Sizes DEF Apart
    <3>3. StoreOf(blockno, valid', data, platter) = StoreOf(blockno, valid, data, platter)
      BY <1>3, <1>4, <2>2, <3>1, <3>2, SameStore
    <3> QED BY <1>1, <3>3 DEF Store
  <2>4. Opened' = [Opened EXCEPT ![p] = k] BY <1>1, <1>4, <1>5 DEF Opened
  <2>5. ASSUME NEW q \in Procs PROVE Opened[q] # k
    <3>1. CASE Holds(q)
      <4>1. /\ Opened[q] = blockno[mine[q]] /\ mine[q] \in Bufs /\ lock[mine[q]] = q
        BY <3>1, Holders
      <4>2. mine[q] # mine[p] BY <1>3, <1>7, <3>1, <4>1
      <4> QED BY <1>3, <1>4, <4>1, <4>2, Sizes DEF Apart
    <3>2. CASE ~ Holds(q) BY <3>2, Holders, Sizes
    <3> QED BY <3>1, <3>2
  <2>6. B!Open(p, k) BY <1>1, <2>1, <2>3, <2>4, <2>5, Mapping
  <2> QED BY <2>6 DEF B!Next
<1> QED BY <1>6, <1>7

LEMMA ServeRefines ==
  ASSUME IInv, NEW d \in Descs, Serve(d)
  PROVE  B!Next \/ UNCHANGED B!vars
<1>1. PICK p \in Requesters :
        /\ idx[p] = d /\ mine[p] \in Bufs /\ blockno[mine[p]] \in Blocks
        /\ IF io[p] = "write"
             THEN platter' = [platter EXCEPT ![blockno[mine[p]]] = data[mine[p]]] /\ UNCHANGED data
             ELSE data' = [data EXCEPT ![mine[p]] = platter[blockno[mine[p]]]] /\ UNCHANGED platter
  BY ServeMoves
<1>2. UNCHANGED <<blockno, valid, pc, mine, io>> BY DEF Serve
<1>3. Opened' = Opened BY <1>2 DEF Opened, Holds
<1>4. /\ p \in Procs /\ pc[p] \in Asking /\ Apart(blockno)
      /\ platter \in [Blocks -> Contents] /\ data \in [Bufs -> Contents]
  BY Holders DEF Requesters, IInv, CacheTyped
<1> DEFINE k == blockno[mine[p]]
<1>5. CASE io[p] = "write"
  <2>1. platter' = [platter EXCEPT ![k] = data[mine[p]]] /\ data' = data BY <1>1, <1>5
  <2>2. valid[mine[p]] BY <1>4, <1>5, Holders DEF Holds
  <2> DEFINE g == StoreOf(blockno, valid, data, platter')
  <2>3. Store' = g BY <1>2, <2>1 DEF Store
  <2>4. /\ \A b \in Bufs : valid[b] /\ blockno[b] \in Blocks => Store[blockno[b]] = data[b]
        /\ \A j \in Blocks : (\A b \in Bufs : blockno[b] = j => ~ valid[b]) => Store[j] = platter[j]
    BY <1>4, StoreAt DEF Store
  <2>5. /\ \A b \in Bufs : valid[b] /\ blockno[b] \in Blocks => g[blockno[b]] = data[b]
        /\ \A j \in Blocks : (\A b \in Bufs : blockno[b] = j => ~ valid[b]) => g[j] = platter'[j]
    BY <1>4, StoreAt
  <2>6. Store = [j \in Blocks |-> Store[j]] /\ g = [j \in Blocks |-> g[j]] BY DEF Store, StoreOf
  <2> HIDE DEF g
  <2>7. ASSUME NEW j \in Blocks PROVE g[j] = Store[j]
    <3>1. ASSUME NEW b \in Bufs, valid[b], blockno[b] = j PROVE g[j] = Store[j]
      BY <2>4, <2>5, <3>1
    <3>2. CASE \A b \in Bufs : blockno[b] = j => ~ valid[b]
      <4>1. j # k BY <1>1, <2>2, <3>2
      <4> QED BY <1>4, <2>1, <2>4, <2>5, <3>2, <4>1
    <3> QED BY <3>1, <3>2
  <2>8. Store' = Store BY <2>3, <2>6, <2>7
  <2>9. k \in Blocks /\ Store[k] = data[mine[p]] BY <1>1, <2>2, <2>4
  <2> HIDE DEF k
  <2>10. B!Save(k) BY <1>3, <2>1, <2>8, <2>9, Mapping
  <2> QED BY <2>9, <2>10 DEF B!Next
<1>6. CASE io[p] # "write"
  <2>1. data' = [data EXCEPT ![mine[p]] = platter[k]] /\ platter' = platter BY <1>1, <1>6
  <2>2. ~ valid[mine[p]] BY <1>4, <1>6, Holders DEF Holds
  <2>3. \A b \in Bufs : valid[b] => data'[b] = data[b] BY <1>1, <1>4, <2>1, <2>2
  <2>4. StoreOf(blockno, valid, data', platter) = StoreOf(blockno, valid, data, platter)
    BY <1>4, <2>3, SameStore
  <2>5. Store' = Store BY <1>2, <2>1, <2>4 DEF Store
  <2> QED BY <1>3, <2>1, <2>5, Mapping
<1> QED BY <1>5, <1>6

LEMMA BgetRefines ==
  ASSUME IInv, IInv', NEW p \in Procs, NEW k \in Blocks, Bget(p, k)
  PROVE  UNCHANGED B!vars
<1>1. /\ pc[p] = "user" /\ pc' = [pc EXCEPT ![p] = "acquire"] /\ UNCHANGED <<data, platter, io>>
  BY DEF Bget
<1>2. /\ pc \in [Procs -> Inside \cup {"user", "panic", "acquire", "lockSleep", "released"}]
      /\ mine \in [Procs -> Bufs \cup {NoBuf}]
      /\ blockno \in [Bufs -> Blocks \cup {NoBlock}] /\ valid \in [Bufs -> BOOLEAN]
  BY DEF IInv, ProcsTyped, CacheTyped
<1>3. CASE \E b \in Cached(k) :
             /\ mine' = [mine EXCEPT ![p] = b] /\ refcnt' = [refcnt EXCEPT ![b] = @ + 1]
             /\ UNCHANGED <<blockno, valid>>
  BY <1>1, <1>2, <1>3, QuietRefines DEF Holds
<1>4. CASE /\ Cached(k) = {} /\ \E b \in Bufs : refcnt[b] = 0
           /\ mine' = [mine EXCEPT ![p] = Unused] /\ refcnt' = [refcnt EXCEPT ![Unused] = 1]
           /\ blockno' = [blockno EXCEPT ![Unused] = k]
           /\ valid' = [valid EXCEPT ![Unused] = FALSE]
  <2>1. PICK u \in Bufs :
          /\ Users(u) = {} /\ \A b \in Bufs : blockno[b] # k
          /\ mine' = [mine EXCEPT ![p] = u]
          /\ blockno' = [blockno EXCEPT ![u] = k] /\ valid' = [valid EXCEPT ![u] = FALSE]
    BY <1>1, <1>4, UnusedIs DEF Cached
  <2>2. /\ \A b \in Bufs \ {u} : valid'[b] = valid[b] /\ blockno'[b] = blockno[b]
        /\ ~ valid'[u] /\ blockno'[u] = k
    BY <1>2, <2>1
  <2>3. valid[u] => Clean(u)
    <3>1. lock[u] \in Procs \cup {Nobody} /\ \A q \in Procs : lock[u] # q
      BY <2>1 DEF IInv, CacheTyped, Owners, Users
    <3> QED BY <3>1 DEF IInv, Fresh
  <2>4. Apart(blockno) /\ Apart(blockno') BY Holders DEF Apart, IInv, Cache
  <2>5. \A b \in Bufs : valid[b] /\ blockno[b] \in Blocks =>
          \/ valid'[b] /\ blockno'[b] = blockno[b]
          \/ /\ data[b] = platter[blockno[b]]
             /\ \A c \in Bufs : blockno'[c] = blockno[b] => ~ valid'[c]
    <3>1. ASSUME valid[u], blockno[u] \in Blocks
          PROVE  \A c \in Bufs : blockno'[c] = blockno[u] => ~ valid'[c]
      BY <2>1, <2>2, <2>4, <3>1, Sizes DEF Apart
    <3> QED BY <2>2, <2>3, <3>1
  <2>6. \A b \in Bufs : valid'[b] /\ blockno'[b] \in Blocks => valid[b] /\ blockno[b] = blockno'[b]
    BY <2>2
  <2>7. StoreOf(blockno', valid', data, platter) = StoreOf(blockno, valid, data, platter)
    BY <2>4, <2>5, <2>6, SameStore
  <2>8. Store' = Store BY <1>1, <2>7 DEF Store
  <2>9. ASSUME NEW q \in Procs
        PROVE  /\ Holds(q)' <=> Holds(q)
               /\ Holds(q) => mine'[q] = mine[q] /\ blockno'[mine'[q]] = blockno[mine[q]]
    <3>1. Holds(q)' <=> Holds(q) BY <1>1, <1>2 DEF Holds
    <3>2. ASSUME Holds(q) PROVE mine'[q] = mine[q] /\ blockno'[mine'[q]] = blockno[mine[q]]
      <4>1. mine[q] \in Bufs /\ q # p BY <1>1, <3>2, Holders DEF Holds
      <4>2. mine[q] # u BY <2>1 DEF Users
      <4> QED BY <1>2, <2>1, <2>2, <4>1, <4>2
    <3> QED BY <3>1, <3>2
  <2>10. Opened' = Opened BY <2>9 DEF Opened
  <2> QED BY <1>1, <2>8, <2>10, Mapping
<1> QED BY <1>3, <1>4 DEF Bget

LEMMA PanicRefines ==
  ASSUME IInv, NEW p \in Procs, NEW k \in Blocks, BgetPanics(p, k)
  PROVE  UNCHANGED B!vars
<1>1. pc \in [Procs -> Inside \cup {"user", "panic", "acquire", "lockSleep", "released"}]
  BY DEF IInv, ProcsTyped
<1> QED BY <1>1, QuietRefines DEF BgetPanics, Holds

LEMMA StoreNext == IInv /\ IInv' /\ [Next]_vars => [B!Next]_(B!vars)
<1> SUFFICES ASSUME IInv, IInv', [Next]_vars PROVE B!Next \/ UNCHANGED B!vars
  OBVIOUS
<1>1. ASSUME NEW p \in Procs, Process(p) \/ Kill(p) PROVE B!Next \/ UNCHANGED B!vars
  <2>1. ASSUME NEW k \in Blocks, Bget(p, k) \/ BgetPanics(p, k) PROVE UNCHANGED B!vars
    BY <2>1, BgetRefines, PanicRefines
  <2>2. CASE Acquire(p) \/ Return(p) BY <2>2, AcquireRefines, ReturnRefines
  <2>3. CASE Bwrite(p) \/ Brelse(p) BY <2>3, BwriteRefines, BrelseRefines
  <2>4. CASE \/ AcquireWaits(p) \/ Unref(p) \/ Submit(p) \/ SubmitWaits(p) \/ WaitOn(p)
             \/ Kill(p)
    BY <2>4, ProcessQuiet
  <2> QED BY <1>1, <2>1, <2>2, <2>3, <2>4 DEF Process
<1>2. CASE Interrupt \/ Completed \/ InterruptReturns \/ Take \/ UNCHANGED vars
  BY <1>2, DeviceQuiet
<1>3. ASSUME NEW d \in Descs, Serve(d) PROVE B!Next \/ UNCHANGED B!vars BY <1>3, ServeRefines
<1> QED BY <1>1, <1>2, <1>3 DEF Next

\* The buffer cache with its driver implements a store of blocks: a block belongs
\* to one process at a time, which finds what was last written, and bwrite() returns
\* when the disk has it.
THEOREM Refinement == Spec => IsBlockStore
<1>1. Init => B!Init BY StoreInit
<1>2. IInv /\ IInv' /\ [Next]_vars => [B!Next]_(B!vars) BY StoreNext
<1> QED BY <1>1, <1>2, Invariance, PTL DEF Spec, IsBlockStore, B!Spec

=============================================================================
