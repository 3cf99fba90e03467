------------------------------ MODULE RingLemmas ------------------------------
(***************************************************************************)
(* Arithmetic of the rings of xv6 (pipe.c, uart.c, console.c): a ring of P *)
(* cells between two counters that wrap at W, a multiple of P, each taken  *)
(* modulo P to find its cell.                                              *)
(***************************************************************************)
EXTENDS Integers, Sequences, SequenceTheorems, TLAPS

\* How far the counter `to' is ahead of the counter `from', in C and counted out.
Ahead(W, from, to) == (to - from) % W
Gap(W, from, to) == IF from <= to THEN to - from ELSE to - from + W

\* What the ring holds from one counter to the other.
Held(ring, P, W, from, to) ==
  [k \in 1 .. Ahead(W, from, to) |-> ring[(from + k - 1) % P]]

\* The ring once b is stored for the counter `to'.
Stored(ring, P, to, b) == [ring EXCEPT ![to % P] = b]

-----
\* Quotient and remainder, and that they are unique.
LEMMA Division ==
  ASSUME NEW a \in Int, NEW b \in Nat \ {0}
  PROVE  /\ (a % b) \in 0 .. b - 1 /\ (a \div b) \in Int
         /\ a = b * (a \div b) + (a % b)
OBVIOUS

LEMMA Remainder ==
  ASSUME NEW b \in Nat \ {0}, NEW q \in Int, NEW r \in 0 .. b - 1,
         NEW a \in Int, a = b * q + r
  PROVE  a % b = r
OBVIOUS

\* Adding a multiple of b changes no remainder.
LEMMA AddMultiple ==
  ASSUME NEW b \in Nat \ {0}, NEW w \in Nat, w % b = 0, NEW a \in Int
  PROVE  (a + w) % b = a % b
<1> DEFINE m == w \div b
           q == a \div b
           r == a % b
<1>1. m \in Int /\ w = b * m BY Division
<1>2. q \in Int /\ r \in 0 .. b - 1 /\ a = b * q + r BY Division
<1> HIDE DEF m, q, r
<1>3. a + w = b * (q + m) + r BY <1>1, <1>2
<1>4. (a + w) % b = r BY <1>1, <1>2, <1>3, Remainder
<1> QED BY <1>4 DEF r

\* Cells less than a round apart are different.
LEMMA CellsApart ==
  ASSUME NEW b \in Nat \ {0}, NEW a \in Int, NEW j \in 0 .. b - 1, NEW k \in 0 .. b - 1,
         (a + j) % b = (a + k) % b
  PROVE  j = k
<1> DEFINE p == (a + j) \div b
           q == (a + k) \div b
           r == (a + j) % b
<1>0. a + j \in Int /\ a + k \in Int OBVIOUS
<1>a. p \in Int /\ r \in 0 .. b - 1 /\ a + j = b * p + r BY <1>0, Division
<1>b. q \in Int /\ a + k = b * q + ((a + k) % b) BY <1>0, Division
<1>1. p \in Int /\ q \in Int /\ r \in 0 .. b - 1 /\ a + j = b * p + r /\ a + k = b * q + r
  BY <1>a, <1>b
<1> HIDE DEF p, q, r
<1>2. j - k = b * (p - q) BY <1>1
<1>3. CASE p > q
  <2>1. b * (p - q) >= b BY <1>1, <1>3
  <2> QED BY <2>1, <1>2
<1>4. CASE p < q
  <2>1. b * (p - q) <= -b BY <1>1, <1>4
  <2> QED BY <2>1, <1>2
<1> QED BY <1>1, <1>2, <1>3, <1>4

-----
\* The distance of two counters, and a counter one step on.
LEMMA Distance ==
  ASSUME NEW W \in Nat \ {0}
  PROVE  \A from, to \in 0 .. W - 1 : Ahead(W, from, to) = Gap(W, from, to)
<1> TAKE from \in 0 .. W - 1, to \in 0 .. W - 1
<1>1. CASE from <= to
  <2>1. to - from = W * 0 + (to - from) /\ to - from \in 0 .. W - 1 BY <1>1
  <2> QED BY <1>1, <2>1, Remainder DEF Ahead, Gap
<1>2. CASE to < from
  <2>1. to - from = W * (-1) + (to - from + W) /\ to - from + W \in 0 .. W - 1 BY <1>2
  <2> QED BY <1>2, <2>1, Remainder DEF Ahead, Gap
<1> QED BY <1>1, <1>2

LEMMA Step ==
  ASSUME NEW W \in Nat \ {0}, NEW x \in 0 .. W - 1
  PROVE  (x + 1) % W = IF x + 1 < W THEN x + 1 ELSE 0
<1>1. CASE x + 1 < W BY <1>1
<1>2. CASE x + 1 = W
  <2>1. x + 1 = W * 1 + 0 /\ 0 \in 0 .. W - 1 BY <1>2
  <2> QED BY <1>2, <2>1, Remainder
<1> QED BY <1>1, <1>2

\* The counters are P apart exactly when one is the other plus P.
LEMMA FullRing ==
  ASSUME NEW W \in Nat \ {0}, NEW P \in Nat \ {0}, P < W
  PROVE  \A from, to \in 0 .. W - 1 : Ahead(W, from, to) = P <=> to = (from + P) % W
<1> TAKE from \in 0 .. W - 1, to \in 0 .. W - 1
<1>1. (from + P) % W = IF from + P < W THEN from + P ELSE from + P - W
  <2>1. CASE from + P < W BY <2>1
  <2>2. CASE from + P >= W
    <3>1. from + P = W * 1 + (from + P - W) /\ from + P - W \in 0 .. W - 1 BY <2>2
    <3> QED BY <2>2, <3>1, Remainder
  <2> QED BY <2>1, <2>2
<1> DEFINE n == Ahead(W, from, to)
           m == (from + P) % W
<1>2. n = Gap(W, from, to) BY Distance, Zenon
<1>3. m = IF from + P < W THEN from + P ELSE from + P - W BY <1>1
<1> HIDE DEF n, m
<1>4. n = P <=> to = m BY <1>2, <1>3 DEF Gap
<1> QED BY <1>4 DEF n, m

\* Storing at the cell of `to' and stepping on appends, while there is room.
Appends(S, P, W) ==
  \A from, to \in 0 .. W - 1, ring \in [0 .. P - 1 -> S], b \in S :
    Ahead(W, from, to) < P =>
      /\ Ahead(W, from, (to + 1) % W) = Ahead(W, from, to) + 1
      /\ Held(Stored(ring, P, to, b), P, W, from, (to + 1) % W)
           = Append(Held(ring, P, W, from, to), b)
      /\ Stored(ring, P, to, b) \in [0 .. P - 1 -> S]
      /\ (to + 1) % W \in 0 .. W - 1

LEMMA HeldAppend ==
  ASSUME NEW S, NEW P \in Nat \ {0}, NEW W \in Nat \ {0}, P < W, W % P = 0
  PROVE  Appends(S, P, W)
<1> USE DEF Appends
<1> TAKE from \in 0 .. W - 1, to \in 0 .. W - 1, ring \in [0 .. P - 1 -> S], b \in S
<1> HAVE Ahead(W, from, to) < P
<1> DEFINE n == Ahead(W, from, to)
           ring2 == Stored(ring, P, to, b)
           to2 == (to + 1) % W
           cell(k) == (from + k - 1) % P
<1>0. n = Gap(W, from, to) BY Distance, Zenon
<1>a. to2 = (IF to + 1 < W THEN to + 1 ELSE 0) /\ to2 \in 0 .. W - 1 BY Step
<1> DEFINE n2 == Ahead(W, from, to2)
<1> HIDE DEF to2
<1>b. n2 = Gap(W, from, to2) BY <1>a, Distance, Zenon
<1>c. n < P OBVIOUS
<1> HIDE DEF n, n2
<1>1. n \in 0 .. P - 1 /\ to2 \in 0 .. W - 1 BY <1>0, <1>a, <1>c DEF Gap
<1>2. n2 = n + 1 BY <1>0, <1>a, <1>b, <1>c DEF Gap
<1>3. to % P = cell(n + 1)
  <2>1. CASE from <= to
    <3>1. to = from + (n + 1) - 1 BY <1>0, <2>1 DEF Gap
    <3> QED BY <3>1
  <2>2. CASE to < from
    <3>1. to + W = from + (n + 1) - 1 BY <1>0, <2>2 DEF Gap
    <3>2. (to + W) % P = to % P BY AddMultiple
    <3> QED BY <3>1, <3>2
  <2> QED BY <2>1, <2>2
<1>4. \A k \in 1 .. n + 1 : cell(k) \in 0 .. P - 1
  <2> TAKE k \in 1 .. n + 1
  <2>1. from + k - 1 \in Int BY <1>1
  <2> QED BY <2>1, Division
<1>5. \A k \in 1 .. n : cell(k) # cell(n + 1)
  <2> TAKE k \in 1 .. n
  <2>1. from + k - 1 = from + (k - 1) /\ from + (n + 1) - 1 = from + n
        /\ k - 1 \in 0 .. P - 1 /\ n \in 0 .. P - 1 /\ k - 1 # n
    BY <1>1
  <2> DEFINE j == k - 1
  <2> HIDE DEF j
  <2>3. j \in 0 .. P - 1 BY <2>1 DEF j
  <2>4. from \in Int OBVIOUS
  <2>5. (from + j) % P = (from + n) % P => j = n BY <2>3, <2>4, <1>1, CellsApart, Zenon
  <2>2. (from + (k - 1)) % P = (from + n) % P => k - 1 = n BY <2>5 DEF j
  <2> QED BY <2>1, <2>2
<1> HIDE DEF cell
<1>d. ring2 = [ring EXCEPT ![cell(n + 1)] = b] BY <1>3 DEF Stored
<1> HIDE DEF ring2
<1>6. \A k \in 1 .. n : ring2[cell(k)] = ring[cell(k)] /\ ring[cell(k)] \in S
  BY <1>1, <1>d, <1>4, <1>5
<1>7. ring2[cell(n + 1)] = b BY <1>1, <1>d, <1>4
<1> DEFINE s == Held(ring2, P, W, from, to2)
           t == Held(ring, P, W, from, to)
<1>8. s = [k \in 1 .. n + 1 |-> ring2[cell(k)]] /\ t = [k \in 1 .. n |-> ring[cell(k)]]
  BY <1>2 DEF Held, n, n2, cell
<1> HIDE DEF s, t
<1>9. s \in Seq(S) /\ Len(s) = n + 1 /\ t \in Seq(S) /\ Len(t) = n BY <1>1, <1>6, <1>7, <1>8
<1>10. \A k \in 1 .. n + 1 : s[k] = Append(t, b)[k] BY <1>1, <1>6, <1>7, <1>8, <1>9
<1>11. s = Append(t, b)
  <2>1. Append(t, b) \in Seq(S) /\ Len(Append(t, b)) = n + 1 BY <1>9
  <2> QED BY <1>9, <1>10, <2>1, SeqEqual
<1>12. ring2 \in [0 .. P - 1 -> S] BY DEF ring2, Stored
<1> QED BY <1>1, <1>2, <1>11, <1>12 DEF n, n2, ring2, to2, s, t

\* Stepping `from' on drops the first.
LEMMA HeldTail ==
  ASSUME NEW S, NEW P \in Nat \ {0}, NEW W \in Nat \ {0}, P < W, W % P = 0
  PROVE  \A from, to \in 0 .. W - 1, ring \in [0 .. P - 1 -> S] :
           from # to =>
             /\ Ahead(W, (from + 1) % W, to) = Ahead(W, from, to) - 1
             /\ Held(ring, P, W, (from + 1) % W, to) = Tail(Held(ring, P, W, from, to))
             /\ Held(ring, P, W, from, to) # <<>>
             /\ (from + 1) % W \in 0 .. W - 1
<1> TAKE from \in 0 .. W - 1, to \in 0 .. W - 1, ring \in [0 .. P - 1 -> S]
<1> HAVE from # to
<1> DEFINE n == Ahead(W, from, to)
           from2 == (from + 1) % W
<1>0. n = Gap(W, from, to) BY Distance, Zenon
<1>a. from2 = (IF from + 1 < W THEN from + 1 ELSE 0) /\ from2 \in 0 .. W - 1 BY Step
<1> DEFINE n2 == Ahead(W, from2, to)
<1> HIDE DEF from2
<1>b. n2 = Gap(W, from2, to) BY <1>a, Distance, Zenon
<1> HIDE DEF n, n2
<1>1. n \in 1 .. W - 1 /\ from2 \in 0 .. W - 1 BY <1>0, <1>a DEF Gap
<1>2. n2 = n - 1 BY <1>0, <1>a, <1>b DEF Gap
<1> DEFINE cell(k) == (from + k - 1) % P
           s == Held(ring, P, W, from, to)
           t == Held(ring, P, W, from2, to)
<1>3. \A k \in 1 .. n - 1 : (from2 + k - 1) % P = cell(k + 1)
  <2> TAKE k \in 1 .. n - 1
  <2>1. CASE from + 1 < W
    <3>1. from2 + k - 1 = from + (k + 1) - 1 BY <2>1, <1>a, <1>1
    <3> QED BY <3>1
  <2>2. CASE from + 1 = W
    <3>1. (from2 + k - 1) + W = from + (k + 1) - 1 /\ from2 + k - 1 \in Int BY <2>2, <1>1, <1>a
    <3>2. ((from2 + k - 1) + W) % P = (from2 + k - 1) % P BY <3>1, AddMultiple
    <3> QED BY <3>1, <3>2
  <2> QED BY <2>1, <2>2
<1>4. \A k \in 1 .. n : ring[cell(k)] \in S
  <2> TAKE k \in 1 .. n
  <2>0. from + k - 1 \in Int BY <1>1
  <2>1. cell(k) \in 0 .. P - 1 BY <2>0, Division
  <2> QED BY <2>1
<1>5. s = [k \in 1 .. n |-> ring[cell(k)]] /\ t = [k \in 1 .. n - 1 |-> ring[cell(k + 1)]]
  BY <1>2, <1>3 DEF Held, n, n2
<1> HIDE DEF cell, s, t
<1>6. s \in Seq(S) /\ Len(s) = n /\ t \in Seq(S) /\ Len(t) = n - 1 BY <1>1, <1>4, <1>5
<1>7. s # <<>> /\ Tail(s) \in Seq(S) /\ Len(Tail(s)) = n - 1
      /\ \A k \in 1 .. n - 1 : Tail(s)[k] = s[k + 1]
  BY <1>1, <1>6, HeadTailProperties
<1>8. \A k \in 1 .. n - 1 : t[k] = Tail(s)[k] BY <1>1, <1>5, <1>7
<1>9. t = Tail(s) BY <1>6, <1>7, <1>8, SeqEqual
<1> QED BY <1>1, <1>2, <1>7, <1>9 DEF n, n2, from2, s, t
-----
\* A third counter between the two
Middle(W, from, mid, to) == Ahead(W, from, mid) + Ahead(W, mid, to) = Ahead(W, from, to)

LEMMA StepBack ==
  ASSUME NEW W \in Nat \ {0}, NEW x \in 0 .. W - 1
  PROVE  (x + W - 1) % W = IF x = 0 THEN W - 1 ELSE x - 1
<1>1. CASE x = 0
  <2>1. x + W - 1 = W * 0 + (W - 1) /\ W - 1 \in 0 .. W - 1 /\ x + W - 1 \in Int BY <1>1
  <2> QED BY <1>1, <2>1, Remainder
<1>2. CASE x # 0
  <2>1. x + W - 1 = W * 1 + (x - 1) /\ x - 1 \in 0 .. W - 1 /\ x + W - 1 \in Int BY <1>2
  <2> QED BY <1>2, <2>1, Remainder
<1> QED BY <1>1, <1>2

\* What is held up to a counter and from there on is held in all.
Splits(S, P, W) ==
  \A from, mid, to \in 0 .. W - 1, ring \in [0 .. P - 1 -> S] :
      Middle(W, from, mid, to) =>
        /\ Held(ring, P, W, from, to)
             = Held(ring, P, W, from, mid) \o Held(ring, P, W, mid, to)
        /\ Held(ring, P, W, from, mid) \in Seq(S) /\ Held(ring, P, W, mid, to) \in Seq(S)
        /\ Len(Held(ring, P, W, from, mid)) = Ahead(W, from, mid)
        /\ Len(Held(ring, P, W, mid, to)) = Ahead(W, mid, to)

LEMMA HeldSplit ==
  ASSUME NEW S, NEW P \in Nat \ {0}, NEW W \in Nat \ {0}, W % P = 0
  PROVE  Splits(S, P, W)
<1> USE DEF Splits
<1> TAKE from \in 0 .. W - 1, mid \in 0 .. W - 1, to \in 0 .. W - 1, ring \in [0 .. P - 1 -> S]
<1> HAVE Middle(W, from, mid, to)
<1> DEFINE a == Ahead(W, from, mid)
           b == Ahead(W, mid, to)
           n == Ahead(W, from, to)
           cell(k) == (from + k - 1) % P
           next(k) == (mid + k - 1) % P
<1>0. a = Gap(W, from, mid) /\ b = Gap(W, mid, to) /\ n = a + b BY Distance, Zenon DEF Middle
<1> HIDE DEF a, b, n
<1>1. a \in Nat /\ b \in Nat /\ n \in Nat BY <1>0 DEF Gap
<1>2. ASSUME NEW k \in 1 .. b PROVE next(k) = cell(a + k)
  <2>1. CASE from <= mid
    <3>1. mid + k - 1 = from + (a + k) - 1 BY <1>0, <2>1 DEF Gap
    <3> QED BY <3>1
  <2>2. CASE mid < from
    <3>1. (mid + k - 1) + W = from + (a + k) - 1 /\ mid + k - 1 \in Int
      BY <1>0, <1>1, <2>2 DEF Gap
    <3>2. ((mid + k - 1) + W) % P = (mid + k - 1) % P BY <3>1, AddMultiple
    <3> QED BY <3>1, <3>2
  <2> QED BY <2>1, <2>2
<1>3. \A k \in Int : cell(k) \in 0 .. P - 1
  <2> TAKE k \in Int
  <2>1. from + k - 1 \in Int OBVIOUS
  <2> QED BY <2>1, Division
<1> DEFINE s == Held(ring, P, W, from, mid)
           t == Held(ring, P, W, mid, to)
           u == Held(ring, P, W, from, to)
<1>4. /\ s = [k \in 1 .. a |-> ring[cell(k)]]
      /\ t = [k \in 1 .. b |-> ring[next(k)]]
      /\ u = [k \in 1 .. n |-> ring[cell(k)]]
  BY DEF Held, a, b, n
<1> HIDE DEF s, t, u, cell, next
<1>5. t = [k \in 1 .. b |-> ring[cell(a + k)]] BY <1>2, <1>4
<1>6. s \in Seq(S) /\ Len(s) = a /\ t \in Seq(S) /\ Len(t) = b /\ u \in Seq(S) /\ Len(u) = n
  <2>0. \A k \in Int : ring[cell(k)] \in S BY <1>3
  <2>1. \A k \in 1 .. a : ring[cell(k)] \in S BY <1>1, <2>0
  <2>2. \A k \in 1 .. b : ring[cell(a + k)] \in S
    <3> TAKE k \in 1 .. b
    <3>1. a + k \in Int BY <1>1
    <3> QED BY <2>0, <3>1
  <2>3. \A k \in 1 .. n : ring[cell(k)] \in S BY <1>1, <2>0
  <2>4. s \in Seq(S) /\ Len(s) = a BY <1>1, <1>4, <2>1
  <2>5. t \in Seq(S) /\ Len(t) = b BY <1>1, <1>5, <2>2
  <2>6. u \in Seq(S) /\ Len(u) = n BY <1>1, <1>4, <2>3
  <2> QED BY <2>4, <2>5, <2>6
<1>7. s \o t \in Seq(S) /\ Len(s \o t) = n
      /\ \A k \in 1 .. n : (s \o t)[k] = IF k <= a THEN s[k] ELSE t[k - a]
  <2>1. /\ s \o t \in Seq(S) /\ Len(s \o t) = Len(s) + Len(t)
        /\ \A k \in 1 .. Len(s) + Len(t) : (s \o t)[k] = IF k <= Len(s) THEN s[k] ELSE t[k - Len(s)]
    BY <1>6, ConcatProperties
  <2> QED BY <1>0, <1>6, <2>1
<1>8. \A k \in 1 .. n : u[k] = (s \o t)[k]
  <2> TAKE k \in 1 .. n
  <2>1. CASE k <= a BY <1>1, <1>4, <1>7, <2>1
  <2>2. CASE ~ (k <= a)
    <3>1. k - a \in 1 .. b /\ a + (k - a) = k BY <1>0, <1>1, <2>2
    <3>2. t[k - a] = ring[cell(a + (k - a))] BY <1>5, <3>1
    <3> QED BY <1>4, <1>7, <2>2, <3>1, <3>2
  <2> QED BY <2>1, <2>2
<1>9. u = s \o t BY <1>6, <1>7, <1>8, SeqEqual
<1> QED BY <1>6, <1>9 DEF s, t, u, a, b

\* Storing at the far counter changes nothing up to the middle one.
KeepsHeld(S, P, W) ==
  \A from, mid, to \in 0 .. W - 1, ring \in [0 .. P - 1 -> S], b \in S :
      Middle(W, from, mid, to) /\ Ahead(W, from, to) < P =>
        Held(Stored(ring, P, to, b), P, W, from, mid) = Held(ring, P, W, from, mid)

LEMMA HeldKept ==
  ASSUME NEW S, NEW P \in Nat \ {0}, NEW W \in Nat \ {0}, P < W, W % P = 0
  PROVE  KeepsHeld(S, P, W)
<1> USE DEF KeepsHeld
<1> TAKE from \in 0 .. W - 1, mid \in 0 .. W - 1, to \in 0 .. W - 1,
         ring \in [0 .. P - 1 -> S], b \in S
<1> HAVE Middle(W, from, mid, to) /\ Ahead(W, from, to) < P
<1> DEFINE a == Ahead(W, from, mid)
           n == Ahead(W, from, to)
           ring2 == Stored(ring, P, to, b)
           to2 == (to + 1) % W
           cell(k) == (from + k - 1) % P
<1>1. a \in Nat /\ n \in Nat /\ a <= n
  <2>1. a = Gap(W, from, mid) /\ Ahead(W, mid, to) = Gap(W, mid, to) /\ n = a + Ahead(W, mid, to)
    BY Distance, Zenon DEF Middle
  <2>2. Gap(W, from, mid) \in Nat /\ Gap(W, mid, to) \in Nat BY DEF Gap
  <2> HIDE DEF a, n
  <2> QED BY <2>1, <2>2
<1>2. /\ Ahead(W, from, to2) = n + 1
      /\ Held(ring2, P, W, from, to2) = Append(Held(ring, P, W, from, to), b)
  <2>1. Appends(S, P, W) BY HeldAppend, Zenon
  <2>2. Ahead(W, from, to) < P =>
          /\ Ahead(W, from, (to + 1) % W) = Ahead(W, from, to) + 1
          /\ Held(Stored(ring, P, to, b), P, W, from, (to + 1) % W)
               = Append(Held(ring, P, W, from, to), b)
    BY <2>1 DEF Appends
  <2> QED BY <2>2, Zenon
<1> DEFINE s == Held(ring, P, W, from, to)
           s2 == Held(ring2, P, W, from, to2)
<1>3. s = [k \in 1 .. n |-> ring[cell(k)]] /\ s2 = [k \in 1 .. n + 1 |-> ring2[cell(k)]]
  <2>1. s2 = [k \in 1 .. Ahead(W, from, to2) |-> ring2[cell(k)]] BY Zenon DEF Held
  <2> HIDE DEF s2, to2
  <2> QED BY <1>2, <2>1 DEF Held
<1>4. s2 = Append(s, b) BY <1>2
<1> HIDE DEF s, s2, cell, n, to2, ring2
<1>5. \A k \in 1 .. n : ring2[cell(k)] = ring[cell(k)] BY <1>1, <1>3, <1>4
<1>6. [k \in 1 .. a |-> ring2[cell(k)]] = [k \in 1 .. a |-> ring[cell(k)]] BY <1>1, <1>5
<1> QED BY <1>6 DEF Held, a, ring2, cell

\* Stepping `to' back drops the last.
DropsLast(S, P, W) ==
  \A from, to \in 0 .. W - 1, ring \in [0 .. P - 1 -> S] :
      from # to =>
        /\ (to + W - 1) % W \in 0 .. W - 1
        /\ Ahead(W, from, (to + W - 1) % W) = Ahead(W, from, to) - 1
        /\ Held(ring, P, W, from, to) # <<>>
        /\ Held(ring, P, W, from, (to + W - 1) % W)
             = SubSeq(Held(ring, P, W, from, to), 1, Len(Held(ring, P, W, from, to)) - 1)

LEMMA HeldFront ==
  ASSUME NEW S, NEW P \in Nat \ {0}, NEW W \in Nat \ {0}, W % P = 0
  PROVE  DropsLast(S, P, W)
<1> USE DEF DropsLast
<1> TAKE from \in 0 .. W - 1, to \in 0 .. W - 1, ring \in [0 .. P - 1 -> S]
<1> HAVE from # to
<1> DEFINE n == Ahead(W, from, to)
           to2 == (to + W - 1) % W
           cell(k) == (from + k - 1) % P
<1>1. to2 = (IF to = 0 THEN W - 1 ELSE to - 1) /\ to2 \in 0 .. W - 1 BY StepBack
<1> DEFINE n2 == Ahead(W, from, to2)
<1> HIDE DEF to2
<1>2. n = Gap(W, from, to) /\ n2 = Gap(W, from, to2) BY <1>1, Distance, Zenon
<1> HIDE DEF n, n2
<1>3. n \in 1 .. W - 1 /\ n2 = n - 1 BY <1>1, <1>2 DEF Gap
<1>4. \A k \in Int : ring[cell(k)] \in S
  <2> TAKE k \in Int
  <2>1. from + k - 1 \in Int OBVIOUS
  <2>2. cell(k) \in 0 .. P - 1 BY <2>1, Division
  <2> QED BY <2>2
<1> DEFINE s == Held(ring, P, W, from, to)
           t == Held(ring, P, W, from, to2)
<1>5. s = [k \in 1 .. n |-> ring[cell(k)]] /\ t = [k \in 1 .. n - 1 |-> ring[cell(k)]]
  BY <1>3 DEF Held, n, n2
<1> HIDE DEF s, t, cell
<1>6. s \in Seq(S) /\ Len(s) = n /\ t \in Seq(S) /\ Len(t) = n - 1 BY <1>3, <1>4, <1>5
<1>7. SubSeq(s, 1, n - 1) \in Seq(S) /\ Len(SubSeq(s, 1, n - 1)) = n - 1
      /\ \A k \in 1 .. n - 1 : SubSeq(s, 1, n - 1)[k] = s[k]
  BY <1>3, <1>6
<1>8. t = SubSeq(s, 1, n - 1)
  <2>1. \A k \in 1 .. n - 1 : t[k] = SubSeq(s, 1, n - 1)[k] BY <1>3, <1>5, <1>7
  <2> QED BY <1>6, <1>7, <2>1, SeqEqual
<1>9. s # <<>> BY <1>3, <1>6
<1> QED BY <1>1, <1>3, <1>6, <1>8, <1>9 DEF n, n2, to2, s, t
=============================================================================
