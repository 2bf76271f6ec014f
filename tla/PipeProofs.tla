----------------------------- MODULE PipeProofs -----------------------------
(***************************************************************************)
(* The pipe for every size of the buffer, range of the counters, length of *)
(* the calls and number of readers and writers.                            *)
(***************************************************************************)
EXTENDS Pipe, TLAPS

USE SMTT(30)

-----------------------------------------------------------------------------
(* Arithmetic of the counters.                                             *)

\* Euclidean division.
LEMMA DivisionFacts ==
  ASSUME NEW a \in Nat, NEW s \in Nat \ {0}
  PROVE  /\ a \div s \in Nat /\ a % s \in 0 .. s - 1
         /\ a = s * (a \div s) + (a % s)
  OBVIOUS

\* The remainder is unique.
LEMMA RemainderUnique ==
  ASSUME NEW s \in Nat \ {0}, NEW q \in Int, NEW p \in Int,
         NEW r \in 0 .. s - 1, NEW t \in 0 .. s - 1, s * q + r = s * p + t
  PROVE  q = p /\ r = t
<1>1. s * (q - p) = t - r OBVIOUS
<1>2. CASE q - p >= 1
  <2>1. s * (q - p) >= s BY <1>2
  <2> QED BY <1>1, <2>1
<1>3. CASE q - p <= -1
  <2>1. s * (q - p) <= -s BY <1>3
  <2> QED BY <1>1, <2>1
<1> QED BY <1>1, <1>2, <1>3

\* A quotient and a remainder determine a % s.
LEMMA RemainderIs ==
  ASSUME NEW a \in Nat, NEW s \in Nat \ {0}, NEW q \in Int, NEW r \in 0 .. s - 1, a = s * q + r
  PROVE  a % s = r
  BY DivisionFacts, RemainderUnique

\* Offsets that do not reach the end of the buffer.
LEMMA RemainderAdd ==
  ASSUME NEW a \in Nat, NEW s \in Nat \ {0}, NEW j \in Nat, (a % s) + j < s
  PROVE  (a + j) % s = (a % s) + j
<1>1. a + j = s * (a \div s) + ((a % s) + j) BY DivisionFacts
<1>2. (a % s) + j \in 0 .. s - 1 /\ a \div s \in Int BY DivisionFacts
<1> QED BY <1>1, <1>2, RemainderIs

\* Two offsets less than a buffer apart differ.
LEMMA RemainderDiffers ==
  ASSUME NEW a \in Nat, NEW s \in Nat \ {0}, NEW j \in 1 .. s - 1
  PROVE  (a + j) % s # a % s
<1> DEFINE q == a \div s
           r == a % s
<1>1. q \in Nat /\ r \in 0 .. s - 1 /\ a = s * q + r BY DivisionFacts, ZenonT(40)
<1>2. CASE r + j < s
  <2>1. j \in Nat /\ (a % s) + j < s BY <1>2
  <2>2. (a + j) % s = (a % s) + j BY <2>1, RemainderAdd, ZenonT(40)
  <2> QED BY <1>1, <2>2
<1>3. CASE r + j >= s
  <2> DEFINE b == a + j
             m == r + j - s
             k == q + 1
  <2>1. b \in Nat /\ m \in 0 .. s - 1 /\ k \in Int BY <1>1, <1>3
  <2>2. b = s * k + m BY <1>1
  <2> HIDE DEF b, m, k
  <2>3. b % s = m BY <2>1, <2>2, RemainderIs
  <2> QED BY <1>1, <2>3 DEF b, m
<1> QED BY <1>1, <1>2, <1>3

\* The range of the counters is a multiple of the size: a counter that wraps
\* keeps its offset.
LEMMA RemainderWrap ==
  ASSUME NEW a \in Nat, NEW s \in Nat \ {0}, NEW w \in Nat, w > 0, w % s = 0
  PROVE  (a + w) % s = a % s
<1> DEFINE p == w \div s
           q == a \div s
           r == a % s
           b == a + w
           k == q + p
<1>1. /\ p \in Nat /\ q \in Nat /\ r \in 0 .. s - 1
      /\ w = s * p /\ a = s * q + r
  BY DivisionFacts
<1> HIDE DEF p, q, r
<1>2. s * q + s * p = s * k BY <1>1
<1>3. b = s * k + r /\ b \in Nat /\ k \in Int BY <1>1, <1>2
<1> HIDE DEF b, k
<1>4. b % s = r BY <1>1, <1>3, RemainderIs
<1> QED BY <1>4 DEF b, r

\* A counter below twice its range wraps at most once.
LEMMA WrapOnce ==
  ASSUME NEW w \in Nat \ {0}, NEW a \in 0 .. 2 * w - 1
  PROVE  a % w = IF a < w THEN a ELSE a - w
<1>1. CASE a < w BY <1>1, RemainderIs, a = w * 0 + a
<1>2. CASE a >= w BY <1>2, RemainderIs, a = w * 1 + (a - w)
<1> QED BY <1>1, <1>2

\* The offsets of n bytes that do not reach the end of the buffer.
LEMMA OffsetsAre ==
  ASSUME NEW a \in Nat, NEW s \in Nat \ {0}, NEW n \in Nat, (a % s) + n <= s
  PROVE  /\ a % s \in 0 .. s - 1
         /\ \A x \in (a % s) .. (a % s) + n - 1 :
              x - (a % s) \in 0 .. n - 1 /\ x = (a + (x - (a % s))) % s
<1>1. a % s \in 0 .. s - 1 BY DivisionFacts
<1> SUFFICES ASSUME NEW x \in (a % s) .. (a % s) + n - 1
             PROVE  x - (a % s) \in 0 .. n - 1 /\ x = (a + (x - (a % s))) % s
  BY <1>1
<1> DEFINE k == x - (a % s)
<1>2. k \in 0 .. n - 1 /\ k \in Nat /\ (a % s) + k < s /\ (a % s) + k = x BY <1>1
<1> HIDE DEF k
<1>3. (a + k) % s = (a % s) + k BY <1>2, RemainderAdd, ZenonT(40)
<1> QED BY <1>2, <1>3 DEF k

\* A position of the ring whose distance from offset a + k is less than a buffer.
LEMMA OffsetOutside ==
  ASSUME NEW a \in Nat, NEW s \in Nat \ {0}, NEW n \in Nat, (a % s) + n <= s,
         NEW b \in Nat, b >= a + n, b < a + s
  PROVE  b % s \notin (a % s) .. (a % s) + n - 1
<1> SUFFICES ASSUME b % s \in (a % s) .. (a % s) + n - 1 PROVE FALSE
  OBVIOUS
<1> DEFINE k == (b % s) - (a % s)
           j == b - (a + k)
<1>1. a % s \in 0 .. s - 1 /\ b % s \in 0 .. s - 1 BY DivisionFacts
<1>2. k \in 0 .. n - 1 /\ b % s = (a + k) % s BY <1>1, OffsetsAre, ZenonT(40)
<1> HIDE DEF k
<1>3. j \in 1 .. s - 1 /\ a + k \in Nat /\ b = (a + k) + j BY <1>2
<1> HIDE DEF j
<1>4. ((a + k) + j) % s # (a + k) % s
  <2> DEFINE c == a + k
  <2>1. c \in Nat BY <1>3
  <2> HIDE DEF c
  <2>2. (c + j) % s # c % s BY <1>3, <2>1, RemainderDiffers, ZenonT(40)
  <2> QED BY <2>2 DEF c
<1> QED BY <1>2, <1>3, <1>4

-----------------------------------------------------------------------------
(* The ring buffer.                                                        *)

Bytes == Tasks \X Nat

\* The buffer from t on holds the bytes of s, up to h.
Ring(h, t, b, s) ==
  /\ t \in 0 .. W - 1 /\ s \in Seq(Bytes) /\ Len(s) <= Size
  /\ h = (t + Len(s)) % W
  /\ b \in [0 .. Size - 1 -> Bytes \cup {None}]
  /\ \A i \in 1 .. Len(s) : b[(t + i - 1) % Size] = s[i]

\* head - tail is the number of the bytes, also when head has wrapped.
LEMMA RingFilled ==
  ASSUME PipeAssumption, NEW h, NEW t, NEW b, NEW s, Ring(h, t, b, s)
  PROVE  /\ h \in 0 .. W - 1 /\ (h - t + W) % W = Len(s) /\ Len(s) \in 0 .. Size
         /\ h = t <=> Len(s) = 0
<1> DEFINE l == Len(s)
<1>1. /\ l \in 0 .. Size /\ t \in 0 .. W - 1 /\ W \in Nat \ {0} /\ Size < W /\ Size \in Nat
      /\ h = (t + l) % W
  BY DEF Ring, PipeAssumption
<1> HIDE DEF l
<1>2. t + l \in 0 .. 2 * W - 1 BY <1>1
<1>3. h = IF t + l < W THEN t + l ELSE (t + l) - W
  <2> DEFINE a == t + l
  <2>1. a % W = IF a < W THEN a ELSE a - W
    <3>1. a \in 0 .. 2 * W - 1 BY <1>2
    <3> HIDE DEF a
    <3> QED BY <1>1, <3>1, WrapOnce, ZenonT(40)
  <2> QED BY <1>1, <2>1
<1>4. h \in 0 .. W - 1 /\ h - t + W \in 0 .. 2 * W - 1 BY <1>1, <1>3
<1>5. (h - t + W) % W = l
  <2> DEFINE a == h - t + W
  <2>1. a % W = IF a < W THEN a ELSE a - W
    <3>1. a \in 0 .. 2 * W - 1 BY <1>4
    <3> HIDE DEF a
    <3> QED BY <1>1, <3>1, WrapOnce, ZenonT(40)
  <2>2. a = IF t + l < W THEN l + W ELSE l BY <1>1, <1>3
  <2> HIDE DEF a
  <2>3. a % W = l BY <1>1, <2>1, <2>2
  <2> QED BY <2>3 DEF a
<1>6. h = t <=> l = 0 BY <1>1, <1>3
<1> QED BY <1>1, <1>4, <1>5, <1>6 DEF l

\* A counter that advances by up to a buffer keeps the offsets, and can advance
\* in two steps.
LEMMA CounterMove ==
  ASSUME PipeAssumption, NEW t \in 0 .. W - 1, NEW n \in 0 .. Size
  PROVE  /\ (t + n) % W \in 0 .. W - 1
         /\ \A j \in Nat : (((t + n) % W) + j) % Size = (t + n + j) % Size
         /\ \A l \in Nat : n + l <= Size => (((t + n) % W) + l) % W = (t + n + l) % W
<1> DEFINE a == t + n
           u == a % W
<1>1. /\ W \in Nat \ {0} /\ Size < W /\ Size \in Nat \ {0} /\ W > 0 /\ W % Size = 0
      /\ a \in 0 .. 2 * W - 1 /\ a < W + Size
  BY DEF PipeAssumption
<1>2. u = (IF a < W THEN a ELSE a - W)
  <2> HIDE DEF a
  <2> QED BY <1>1, WrapOnce
<1>3. u \in 0 .. W - 1 BY <1>1, <1>2
<1>4. ASSUME NEW j \in Nat PROVE (u + j) % Size = (a + j) % Size
  <2> HIDE DEF a, u
  <2>1. CASE a < W BY <1>2, <2>1
  <2>2. CASE a >= W
    <3> DEFINE b == u + j
    <3>1. b \in Nat /\ a + j = b + W BY <1>1, <1>2, <1>3, <2>2
    <3> HIDE DEF b
    <3>2. (b + W) % Size = b % Size BY <1>1, <3>1, RemainderWrap, ZenonT(40)
    <3> QED BY <3>1, <3>2 DEF b
  <2> QED BY <1>1, <2>1, <2>2
<1>5. ASSUME NEW l \in Nat, n + l <= Size PROVE (u + l) % W = (a + l) % W
  <2>1. CASE a < W BY <1>2, <2>1
  <2>2. CASE a >= W
    <3> DEFINE b == u + l
               c == a + l
    <3>1. /\ b \in 0 .. 2 * W - 1 /\ c \in 0 .. 2 * W - 1 /\ c = b + W /\ b < W
      BY <1>1, <1>2, <1>3, <1>5, <2>2
    <3> HIDE DEF b, c
    <3>2. b % W = b /\ c % W = c - W BY <1>1, <3>1, WrapOnce
    <3>3. b % W = c % W BY <1>1, <3>1, <3>2
    <3> QED BY <3>3 DEF b, c
  <2> QED BY <1>1, <2>1, <2>2
<1>6. /\ \A j \in Nat : (u + j) % Size = (a + j) % Size
      /\ \A l \in Nat : n + l <= Size => (u + l) % W = (a + l) % W
  BY <1>4, <1>5
<1> QED BY <1>3, <1>6

\* One round of the copy loop of pipe_read: the first n bytes leave, the others
\* keep their places.
LEMMA RingRead ==
  ASSUME PipeAssumption, NEW h, NEW t, NEW b, NEW s, Ring(h, t, b, s),
         NEW n \in 0 .. Len(s), (t % Size) + n <= Size
  PROVE  Ring(h, (t + n) % W,
              [i \in DOMAIN b |-> IF i \in (t % Size) .. (t % Size) + n - 1 THEN None ELSE b[i]],
              SubSeq(s, n + 1, Len(s)))
<1> DEFINE u == (t + n) % W
           o == t % Size
           c == [i \in DOMAIN b |-> IF i \in o .. o + n - 1 THEN None ELSE b[i]]
           r == SubSeq(s, n + 1, Len(s))
<1>1. /\ Size \in Nat \ {0} /\ W \in Nat /\ t \in 0 .. W - 1 /\ t \in Nat /\ s \in Seq(Bytes)
      /\ Len(s) \in 0 .. Size /\ n \in 0 .. Size /\ h = (t + Len(s)) % W
      /\ b \in [0 .. Size - 1 -> Bytes \cup {None}]
  BY DEF Ring, PipeAssumption
<1>2. /\ r \in Seq(Bytes) /\ Len(r) = Len(s) - n
      /\ \A i \in 1 .. Len(s) - n : r[i] = s[n + i]
  <2>1. s \in Seq(Bytes) /\ Len(s) \in Nat /\ n \in Nat /\ n <= Len(s) BY <1>1
  <2>2. r \in Seq(Bytes) BY <2>1
  <2>3. Len(r) = Len(s) - n BY <2>1
  <2>4. \A i \in 1 .. Len(s) - n : r[i] = s[n + i] BY <2>1
  <2> QED BY <2>2, <2>3, <2>4, ZenonT(40)
<1> HIDE DEF r
<1>3. u \in 0 .. W - 1 BY <1>1, CounterMove
<1>4. (u + Len(r)) % W = h
  <2>1. Len(r) \in Nat /\ n + Len(r) <= Size /\ t + n + Len(r) = t + Len(s) BY <1>1, <1>2
  <2>2. (u + Len(r)) % W = (t + n + Len(r)) % W BY <1>1, <2>1, CounterMove, ZenonT(40)
  <2> QED BY <1>1, <2>1, <2>2, ZenonT(40)
<1>5. c \in [0 .. Size - 1 -> Bytes \cup {None}] BY <1>1
<1>6. ASSUME NEW i \in 1 .. Len(r) PROVE c[(u + i - 1) % Size] = r[i]
  <2> DEFINE x == (u + i - 1) % Size
             y == t + n + (i - 1)
  <2>1. i - 1 \in Nat /\ u \in Nat /\ u + i - 1 = u + (i - 1) BY <1>1, <1>2, <1>3
  <2>2. x = y % Size BY <1>1, <2>1, CounterMove, ZenonT(40)
  <2>3. y \in Nat /\ y >= t + n /\ y < t + Size /\ y = t + (n + i) - 1 /\ n + i \in 1 .. Len(s)
    <3> HIDE DEF u, o, c
    <3>1. i \in Nat /\ i >= 1 /\ n \in Nat /\ Len(s) \in Nat /\ n + i <= Len(s) BY <1>1, <1>2
    <3> QED BY <1>1, <3>1
  <2>4. b[(t + (n + i) - 1) % Size] = s[n + i] BY <2>3 DEF Ring
  <2> HIDE DEF y, x, u
  <2>5. y % Size \notin o .. o + n - 1
    <3>1. n \in Nat BY <1>1
    <3> QED BY <1>1, <2>3, <3>1, OffsetOutside, ZenonT(40)
  <2>6. y % Size \in 0 .. Size - 1 BY <1>1, <2>3, DivisionFacts, ZenonT(40)
  <2> HIDE DEF o
  <2>7. c[x] = b[x] BY <1>1, <2>2, <2>5, <2>6
  <2>8. r[i] = s[n + i] BY <1>1, <1>2, ZenonT(40)
  <2> QED BY <2>2, <2>3, <2>4, <2>7, <2>8 DEF x
<1>7. Ring(h, u, c, r)
  <2>1. Len(r) <= Size BY <1>1, <1>2
  <2> HIDE DEF u, c
  <2> QED BY <1>2, <1>3, <1>4, <1>5, <1>6, <2>1 DEF Ring
<1> QED BY <1>7 DEF r

\* The bytes of a stream with others behind them.
LEMMA ConcatFacts ==
  ASSUME NEW S, NEW a \in Seq(S), NEW b \in Seq(S)
  PROVE  /\ a \o b \in Seq(S) /\ Len(a \o b) = Len(a) + Len(b)
         /\ \A i \in 1 .. Len(a) + Len(b) :
              (a \o b)[i] = IF i <= Len(a) THEN a[i] ELSE b[i - Len(a)]
<1>1. a \o b \in Seq(S) /\ Len(a \o b) = Len(a) + Len(b) OBVIOUS
<1>2. \A i \in 1 .. Len(a) + Len(b) :
        (a \o b)[i] = IF i <= Len(a) THEN a[i] ELSE b[i - Len(a)]
  OBVIOUS
<1> QED BY <1>1, <1>2, ZenonT(40)

\* A copy of pipe_write: n bytes are added behind the ones that are there, up to
\* the end of the buffer, and overwrite none of them.
LEMMA RingWrite ==
  ASSUME PipeAssumption, NEW h, NEW t, NEW b, NEW s, Ring(h, t, b, s),
         NEW n \in Nat, n <= Size - Len(s), (h % Size) + n <= Size,
         NEW e \in Seq(Bytes), Len(e) = n
  PROVE  Ring((h + n) % W, t,
              [i \in DOMAIN b \cup (h % Size) .. (h % Size) + n - 1 |->
                 IF i \in (h % Size) .. (h % Size) + n - 1 THEN e[i - (h % Size) + 1] ELSE b[i]],
              s \o e)
<1> DEFINE l == Len(s)
           o == h % Size
           c == [i \in DOMAIN b \cup o .. o + n - 1 |->
                   IF i \in o .. o + n - 1 THEN e[i - o + 1] ELSE b[i]]
           r == s \o e
<1>1. /\ Size \in Nat \ {0} /\ W \in Nat \ {0} /\ Size < W
      /\ t \in 0 .. W - 1 /\ t \in Nat /\ s \in Seq(Bytes)
      /\ l \in 0 .. Size /\ l \in Nat /\ n \in 0 .. Size /\ l + n <= Size /\ h = (t + l) % W
      /\ b \in [0 .. Size - 1 -> Bytes \cup {None}]
  BY DEF Ring, PipeAssumption
<1>2. /\ r \in Seq(Bytes) /\ Len(r) = l + n
      /\ \A i \in 1 .. l + n : r[i] = IF i <= l THEN s[i] ELSE e[i - l]
  BY <1>1, ConcatFacts, ZenonT(40)
<1> HIDE DEF r, l
<1>3. /\ h \in 0 .. W - 1 /\ h \in Nat
      /\ \A j \in Nat : (h + j) % Size = (t + l + j) % Size
      /\ (h + n) % W = (t + l + n) % W
  <2>1. /\ (t + l) % W \in 0 .. W - 1
        /\ \A j \in Nat : (((t + l) % W) + j) % Size = (t + l + j) % Size
        /\ \A k \in Nat : l + k <= Size => (((t + l) % W) + k) % W = (t + l + k) % W
    BY <1>1, CounterMove, ZenonT(40)
  <2>2. /\ h \in 0 .. W - 1
        /\ \A j \in Nat : (h + j) % Size = (t + l + j) % Size
        /\ \A k \in Nat : l + k <= Size => (h + k) % W = (t + l + k) % W
    BY <1>1, <2>1, ZenonT(40)
  <2> QED BY <1>1, <2>2
<1>4. o \in 0 .. Size - 1 /\ o = (t + l) % Size /\ o + n <= Size
  <2>1. 0 \in Nat /\ h + 0 = h /\ t + l + 0 = t + l BY <1>1, <1>3
  <2>2. o = (t + l) % Size BY <1>3, <2>1
  <2> QED BY <1>1, <1>3, <2>2, DivisionFacts, ZenonT(40)
<1>5. (h + n) % W = (t + Len(r)) % W BY <1>1, <1>2, <1>3, t + l + n = t + (l + n)
<1> HIDE DEF o
<1>6. c \in [0 .. Size - 1 -> Bytes \cup {None}]
  <2>1. o .. o + n - 1 \subseteq 0 .. Size - 1 BY <1>1, <1>4
  <2>2. \A i \in o .. o + n - 1 : i - o + 1 \in 1 .. n BY <1>1, <1>4
  <2>3. \A k \in 1 .. n : e[k] \in Bytes OBVIOUS
  <2> QED BY <1>1, <2>1, <2>2, <2>3
<1>7. ASSUME NEW i \in 1 .. Len(r) PROVE c[(t + i - 1) % Size] = r[i]
  <2> DEFINE y == t + i - 1
  <2>1. y \in Nat /\ i \in 1 .. l + n /\ y < t + l + n
    <3>1. i \in 1 .. l + n BY <1>2
    <3> QED BY <1>1, <3>1
  <2>2. y % Size \in 0 .. Size - 1 BY <1>1, <2>1, DivisionFacts, ZenonT(40)
  <2>3. CASE i <= l
    <3>1. b[y % Size] = s[i] BY <1>1, <2>1, <2>3 DEF Ring, l
    <3>2. y % Size \notin o .. o + n - 1
      <4> DEFINE a == t + l
                 k == Size - n
      <4>1. a \in Nat /\ y + Size \in Nat /\ y + Size >= a + n /\ y + Size < a + Size
        BY <1>1, <2>1, <2>3
      <4>2. (a % Size) + n <= Size BY <1>4
      <4> HIDE DEF a, y
      <4>3. (y + Size) % Size = y % Size
        <5>1. Size % Size = 0 BY <1>1, RemainderIs, Size = Size * 1 + 0
        <5>2. y \in Nat /\ Size \in Nat /\ Size > 0 BY <1>1, <2>1 DEF y
        <5> QED BY <1>1, <5>1, <5>2, RemainderWrap, ZenonT(40)
      <4>4. (y + Size) % Size \notin (a % Size) .. (a % Size) + n - 1
        <5> DEFINE z == y + Size
        <5>1. z \in Nat /\ z >= a + n /\ z < a + Size BY <4>1
        <5> HIDE DEF z
        <5>2. z % Size \notin (a % Size) .. (a % Size) + n - 1
          BY <1>1, <4>1, <4>2, <5>1, OffsetOutside, ZenonT(40)
        <5> QED BY <5>2 DEF z
      <4> QED BY <1>4, <4>3, <4>4 DEF a
    <3> HIDE DEF y
    <3>3. c[y % Size] = b[y % Size] BY <1>1, <2>2, <3>2
    <3>4. r[i] = s[i] BY <1>2, <2>1, <2>3
    <3> QED BY <3>1, <3>3, <3>4 DEF y
  <2>4. CASE i > l
    <3> DEFINE a == t + l
               j == i - l - 1
    <3>1. a \in Nat /\ j \in Nat /\ j < n /\ y = a + j /\ i = l + j + 1 BY <1>1, <2>1, <2>4
    <3>2. o = a % Size BY <1>4
    <3> HIDE DEF a, j, y, c
    <3>3. (a % Size) + j < Size BY <1>1, <1>4, <3>1, <3>2
    <3>4. y % Size = o + j
      <4>1. (a + j) % Size = (a % Size) + j BY <1>1, <3>1, <3>3, RemainderAdd, ZenonT(40)
      <4> QED BY <3>1, <3>2, <4>1, ZenonT(40)
    <3>5. o + j \in o .. o + n - 1 /\ (o + j) - o + 1 = j + 1 BY <1>1, <1>4, <3>1
    <3>6. c[y % Size] = e[j + 1] BY <3>4, <3>5 DEF c
    <3>7. i - l = j + 1 /\ ~(i <= l) /\ i \in 1 .. l + n
      <4>1. l \in Nat /\ n \in Nat BY <1>1
      <4> QED BY <3>1, <4>1
    <3>8. r[i] = e[j + 1]
      <4>1. r[i] = e[i - l] BY <1>2, <3>7, ZenonT(40)
      <4> QED BY <3>7, <4>1, ZenonT(40)
    <3> QED BY <3>6, <3>8 DEF y
  <2> QED BY <1>1, <2>1, <2>3, <2>4
<1>8. Ring((h + n) % W, t, c, r)
  <2> HIDE DEF c
  <2> QED BY <1>1, <1>2, <1>5, <1>6, <1>7 DEF Ring
<1> QED BY <1>8 DEF r, o

-----------------------------------------------------------------------------
(* The invariant.                                                          *)

\* Who is between mutex_lock and mutex_unlock; no end is closed under a call.
Holds(t) == pc[t] \in {"check", "copy", "fault"} \/ (t \in Writers /\ pc[t] = "wake")

HolderInv ==
  /\ ends \subseteq {"read", "write"}
  /\ \A t \in Tasks : Holds(t) => owner = t
  /\ \A t \in asleep : pc[t] = "sleep"
  /\ \A t \in Tasks : pc[t] # "idle" => MyEnd(t) \in ends

\* A write that fits goes in as a whole: it does not begin before there is room
\* for all of it, and the mutex is held until the last byte.
WholeInv ==
  /\ ~torn
  /\ \A w \in Writers : left[w] + done[w] <= Size =>
       /\ pc[w] \in {"lock", "wait", "sleep"} => done[w] = 0
       /\ pc[w] \in {"wake", "check", "copy"} /\ done[w] > 0 =>
            last = w /\ left[w] <= Size - Len(stream)
       /\ pc[w] = "copy" => left[w] <= Size - Len(stream)

\* A wakeup that is sure to come: a reader that stopped short notifies only if
\* it has read something.
WakeupPending(u) ==
  \/ pc[u] = "wake"
  \/ u \in Writers /\ pc[u] = "fault"
  \/ u \in Readers /\ pc[u] \in {"copy", "fault"} /\ done[u] > 0

WakeInv == \A t \in asleep : Condition(t) => \E u \in Tasks : WakeupPending(u)

PipeIInv == TypeOK /\ Ring(head, tail, buffer, stream) /\ HolderInv /\ WholeInv /\ WakeInv

\* What the ring says of the counters.
LEMMA RingFacts ==
  ASSUME PipeAssumption, PipeIInv
  PROVE  /\ Filled = Len(stream) /\ Len(stream) \in 0 .. Size
         /\ Size \in Nat \ {0} /\ stream \in Seq(Bytes)
         /\ head = tail <=> Len(stream) = 0
         /\ head % Size \in 0 .. Size - 1 /\ tail % Size \in 0 .. Size - 1
         /\ \A w \in Tasks : Room(w) <=> Size - Len(stream) >= Need(w)
<1>1. /\ Filled = Len(stream) /\ Len(stream) \in 0 .. Size
      /\ head = tail <=> Len(stream) = 0
  BY RingFilled DEF PipeIInv, Filled
<1>2. Size \in Nat \ {0} /\ W \in Nat /\ head \in Nat /\ tail \in Nat
  BY DEF PipeIInv, TypeOK, PipeAssumption
<1>3. head % Size \in 0 .. Size - 1 /\ tail % Size \in 0 .. Size - 1
  BY <1>2, DivisionFacts
<1> QED BY <1>1, <1>2, <1>3 DEF PipeIInv, Ring, Room

\* The tasks, of either end, and None.
LEMMA TaskFacts ==
  ASSUME PipeAssumption
  PROVE  /\ \A t \in Tasks : t # None
         /\ \A r \in Readers : r \in Tasks /\ r \notin Writers
         /\ \A w \in Writers : w \in Tasks /\ w \notin Readers
  BY DEF PipeAssumption, Tasks

\* The invariant of the runs follows.
LEMMA PipeIInvImplies ==
  ASSUME PipeAssumption, PipeIInv
  PROVE  PipeInv
<1>1. FifoInv BY RingFacts DEF PipeIInv, Ring, FifoInv
<1>2. AtomicInv BY DEF PipeIInv, WholeInv, AtomicInv
<1>3. NoLostWakeup
  BY DEF PipeIInv, HolderInv, WakeInv, WakeupPending, NoLostWakeup
<1> QED BY <1>1, <1>2, <1>3 DEF PipeInv

\* An empty pipe.
LEMMA PipeInit ==
  ASSUME PipeAssumption, Init
  PROVE  PipeIInv
<1>1. Size \in Nat \ {0} /\ W \in Nat \ {0} BY DEF PipeAssumption
<1>2. TypeOK BY <1>1 DEF Init, TypeOK
<1>3. Ring(head, tail, buffer, stream)
  <2>1. 0 + 0 = 0 /\ 0 % W = 0 BY <1>1
  <2> QED BY <1>1, <2>1 DEF Init, Ring
<1>4. HolderInv BY DEF Init, HolderInv, Holds
<1>5. WholeInv BY TaskFacts DEF Init, WholeInv
<1>6. WakeInv BY DEF Init, WakeInv
<1> QED BY <1>2, <1>3, <1>4, <1>5, <1>6 DEF PipeIInv

Labels == {"idle", "lock", "check", "wait", "sleep", "copy", "fault", "wake"}

\* A step of t that moves no byte: what it has to respect of the mutex, of the
\* sleepers and of its own write.
LEMMA OwnStep ==
  ASSUME PipeAssumption, PipeIInv, NEW t \in Tasks,
         NEW l \in Labels, NEW x \in Nat, NEW d \in Nat,
         pc' = [pc EXCEPT ![t] = l],
         left' = [left EXCEPT ![t] = x], done' = [done EXCEPT ![t] = d],
         UNCHANGED <<head, tail, buffer, stream, last, torn, ends>>,
         l # "idle" => MyEnd(t) \in ends,
         owner' \in Tasks \cup {None},
         \A u \in Tasks \ {t} : Holds(u) => owner' = u,
         l \in {"check", "copy", "fault"} \/ (t \in Writers /\ l = "wake") => owner' = t,
         asleep' \subseteq asleep \cup {t},
         t \in asleep' => l = "sleep" /\ ~Condition(t)',
         WakeupPending(t) => WakeupPending(t)' \/ asleep' = {},
         t \in Writers /\ x + d <= Size =>
           /\ l \in {"lock", "wait", "sleep"} => d = 0
           /\ l \in {"wake", "check", "copy"} /\ d > 0 => last = t /\ x <= Size - Len(stream)
           /\ l = "copy" => x <= Size - Len(stream)
  PROVE  PipeIInv'
<1>1. /\ pc'[t] = l /\ left'[t] = x /\ done'[t] = d
      /\ \A u \in Tasks \ {t} : pc'[u] = pc[u] /\ left'[u] = left[u] /\ done'[u] = done[u]
  BY DEF PipeIInv, TypeOK
<1>2. TypeOK'
  <2>1. /\ pc' \in [Tasks -> Labels] /\ left' \in [Tasks -> Nat] /\ done' \in [Tasks -> Nat]
        /\ asleep' \subseteq Tasks
    BY DEF PipeIInv, TypeOK, Labels
  <2> QED BY <2>1 DEF PipeIInv, TypeOK, Labels
<1>3. Ring(head, tail, buffer, stream)' BY DEF PipeIInv, Ring
<1>4. HolderInv'
  <2>1. \A u \in Tasks \ {t} : Holds(u)' = Holds(u) BY <1>1 DEF Holds
  <2> QED BY <1>1, <2>1 DEF PipeIInv, TypeOK, HolderInv, Holds
<1>5. WholeInv' BY <1>1, TaskFacts DEF PipeIInv, WholeInv
<1>6. WakeInv'
  <2>1. \A u \in Tasks \ {t} : /\ Condition(u)' = Condition(u)
                               /\ WakeupPending(u) => WakeupPending(u)'
    BY <1>1 DEF Condition, Room, Need, Filled, WakeupPending
  <2> QED BY <2>1 DEF PipeIInv, TypeOK, WakeInv
<1> QED BY <1>2, <1>3, <1>4, <1>5, <1>6 DEF PipeIInv

\* A step that returns from the call without owning the mutex any more.
LEMMA ReturnStep ==
  ASSUME PipeAssumption, PipeIInv, NEW t \in Tasks, Return(t),
         UNCHANGED <<head, tail, buffer, stream, last, torn, ends>>,
         (owner' = owner /\ ~Holds(t)) \/ (owner' = None /\ Holds(t)),
         asleep' = {} \/ (asleep' \subseteq asleep \ {t} /\ ~WakeupPending(t))
  PROVE  PipeIInv'
<1>1. /\ pc' = [pc EXCEPT ![t] = "idle"]
      /\ left' = [left EXCEPT ![t] = 0] /\ done' = [done EXCEPT ![t] = 0]
  BY DEF Return, Goto
<1>2. /\ owner' \in Tasks \cup {None}
      /\ \A u \in Tasks \ {t} : Holds(u) => owner' = u
  BY TaskFacts DEF PipeIInv, TypeOK, HolderInv
<1>3. "idle" \in Labels /\ 0 \in Nat BY DEF Labels
<1> QED BY <1>1, <1>2, <1>3, OwnStep, ZenonT(40)

\* A step that only goes on to another label.
LEMMA GotoStep ==
  ASSUME PipeAssumption, PipeIInv, NEW t \in Tasks, NEW l \in Labels,
         pc' = [pc EXCEPT ![t] = l],
         UNCHANGED <<head, tail, buffer, stream, last, torn, ends, left, done>>,
         pc[t] # "idle",
         owner' \in Tasks \cup {None},
         \A u \in Tasks \ {t} : Holds(u) => owner' = u,
         l \in {"check", "copy", "fault"} \/ (t \in Writers /\ l = "wake") => owner' = t,
         asleep' \subseteq asleep \cup {t},
         t \in asleep' => l = "sleep" /\ ~Condition(t),
         WakeupPending(t) => WakeupPending(t)' \/ asleep' = {},
         t \in Writers /\ left[t] + done[t] <= Size =>
           /\ l \in {"lock", "wait", "sleep"} => done[t] = 0
           /\ l \in {"wake", "check", "copy"} /\ done[t] > 0 =>
                last = t /\ left[t] <= Size - Len(stream)
           /\ l = "copy" => left[t] <= Size - Len(stream)
  PROVE  PipeIInv'
<1>1. /\ left' = [left EXCEPT ![t] = left[t]] /\ done' = [done EXCEPT ![t] = done[t]]
      /\ left[t] \in Nat /\ done[t] \in Nat
  BY DEF PipeIInv, TypeOK
<1>2. Condition(t)' = Condition(t) BY DEF Condition, Room, Need, Filled
<1>3. MyEnd(t) \in ends BY DEF PipeIInv, HolderInv
<1> QED BY <1>1, <1>2, <1>3, OwnStep, ZenonT(40)

\* pipe_read or pipe_write is called.
LEMMA CallKeeps ==
  ASSUME PipeAssumption, PipeIInv, NEW t \in Tasks, NEW n \in Counts, Call(t, n)
  PROVE  PipeIInv'
<1>1. /\ pc[t] = "idle" /\ MyEnd(t) \in ends /\ pc' = [pc EXCEPT ![t] = "lock"]
      /\ left' = [left EXCEPT ![t] = n] /\ done' = [done EXCEPT ![t] = 0]
      /\ UNCHANGED <<head, tail, buffer, stream, last, torn, ends, owner, asleep>>
  BY DEF Call, Goto, pipeVars
<1>2. n \in Nat /\ 0 \in Nat /\ "lock" \in Labels BY DEF PipeAssumption, Labels
<1>3. t \notin asleep /\ ~WakeupPending(t) BY <1>1 DEF PipeIInv, HolderInv, WakeupPending
<1>4. owner \in Tasks \cup {None} /\ \A u \in Tasks : Holds(u) => owner = u
  BY DEF PipeIInv, TypeOK, HolderInv
<1> QED BY <1>1, <1>2, <1>3, <1>4, OwnStep, ZenonT(40)

\* mutex_lock_interruptible: nobody holds a free mutex.
LEMMA LockKeeps ==
  ASSUME PipeAssumption, PipeIInv, NEW t \in Tasks, Lock(t)
  PROVE  PipeIInv'
<1>1. /\ pc[t] = "lock" /\ UNCHANGED <<head, tail, buffer, stream, last, torn, ends, asleep>>
  BY DEF Lock, pipeVars
<1>2. t \notin asleep /\ ~WakeupPending(t) /\ ~Holds(t)
  BY <1>1 DEF PipeIInv, HolderInv, WakeupPending, Holds
<1>3. CASE Return(t) /\ UNCHANGED owner
  <2>1. owner' = owner /\ asleep' \subseteq asleep \ {t} BY <1>1, <1>2, <1>3
  <2> QED BY <1>1, <1>2, <1>3, <2>1, ReturnStep
<1>4. CASE owner = None /\ owner' = t /\ Goto(t, "check") /\ UNCHANGED callVars
  <2>1. \A u \in Tasks : ~Holds(u) BY <1>4, TaskFacts DEF PipeIInv, HolderInv
  <2>2. t \in Writers /\ left[t] + done[t] <= Size => done[t] = 0
    BY <1>1 DEF PipeIInv, WholeInv
  <2>3. /\ pc' = [pc EXCEPT ![t] = "check"] /\ UNCHANGED <<left, done>> /\ owner' = t
        /\ "check" \in Labels
    BY <1>4 DEF Goto, callVars, Labels
  <2>4. ~(done[t] = 0 /\ done[t] > 0) BY DEF PipeIInv, TypeOK
  <2> QED BY <1>1, <1>2, <2>1, <2>2, <2>3, <2>4, GotoStep, ZenonT(40)
<1> QED BY <1>3, <1>4 DEF Lock

\* wait_event_interruptible: who goes to sleep has seen the condition false.
LEMMA WaitEventKeeps ==
  ASSUME PipeAssumption, PipeIInv, NEW t \in Tasks, WaitEvent(t)
  PROVE  PipeIInv'
<1>1. /\ pc[t] \in {"wait", "sleep"} /\ t \notin asleep
      /\ UNCHANGED <<head, tail, buffer, stream, last, torn, ends, owner, left, done>>
  BY DEF WaitEvent, pipeVars, callVars, PipeIInv, HolderInv
<1>2. /\ ~WakeupPending(t) /\ owner \in Tasks \cup {None}
      /\ \A u \in Tasks : Holds(u) => owner = u
      /\ t \in Writers /\ left[t] + done[t] <= Size => done[t] = 0
  BY <1>1 DEF PipeIInv, TypeOK, HolderInv, WholeInv, WakeupPending
<1>0. "lock" \in Labels /\ "sleep" \in Labels BY ZenonT(40) DEF Labels
<1>3. CASE Goto(t, "lock") /\ UNCHANGED asleep
  BY <1>0, <1>1, <1>2, <1>3, GotoStep, ZenonT(40) DEF Goto
<1>4. CASE ~Condition(t) /\ asleep' = asleep \cup {t} /\ Goto(t, "sleep")
  BY <1>0, <1>1, <1>2, <1>4, GotoStep, ZenonT(40) DEF Goto
<1> QED BY <1>3, <1>4 DEF WaitEvent

\* A signal ends the wait.
LEMMA InterruptedKeeps ==
  ASSUME PipeAssumption, PipeIInv, NEW t \in Tasks, Interrupted(t)
  PROVE  PipeIInv'
<1>1. /\ pc[t] \in {"wait", "sleep"} /\ Return(t) /\ asleep' = asleep \ {t}
      /\ UNCHANGED <<head, tail, buffer, stream, last, torn, ends, owner>>
  BY DEF Interrupted, pipeVars
<1>2. ~WakeupPending(t) /\ ~Holds(t) BY <1>1 DEF WakeupPending, Holds
<1>3. owner' = owner /\ asleep' \subseteq asleep \ {t} BY <1>1
<1> QED BY <1>1, <1>2, <1>3, ReturnStep

\* The mutex is dropped before the wait.  A write that fits and has begun does
\* not come here.
LEMMA BlockKeeps ==
  ASSUME PipeAssumption, PipeIInv, NEW t \in Tasks, pc[t] = "check", Block(t), ~Condition(t)
  PROVE  PipeIInv'
<1>1. owner' = None /\ UNCHANGED <<head, tail, buffer, stream, last, torn, ends, asleep>>
  BY DEF Block, pipeVars
<1>2. t \notin asleep /\ ~WakeupPending(t) /\ Holds(t)
  BY DEF PipeIInv, HolderInv, WakeupPending, Holds
<1>3. CASE Return(t) BY <1>1, <1>2, <1>3, ReturnStep
<1>4. CASE Goto(t, "wait") /\ UNCHANGED callVars
  <2>1. \A u \in Tasks \ {t} : ~Holds(u) BY <1>2 DEF PipeIInv, HolderInv
  <2>2. t \in Writers /\ left[t] + done[t] <= Size => done[t] = 0
    <3> SUFFICES ASSUME t \in Writers, left[t] + done[t] <= Size, done[t] # 0 PROVE FALSE
      OBVIOUS
    <3>1. done[t] \in Nat /\ done[t] > 0 /\ left[t] \in Nat BY DEF PipeIInv, TypeOK
    <3>2. left[t] <= Size - Len(stream) BY <3>1 DEF PipeIInv, WholeInv
    <3>3. Room(t) BY <3>1, <3>2, RingFacts DEF Need
    <3> QED BY <3>3, TaskFacts DEF Condition
  <2>3. /\ pc' = [pc EXCEPT ![t] = "wait"] /\ UNCHANGED <<left, done>> /\ "wait" \in Labels
    BY <1>4 DEF Goto, callVars, Labels
  <2> QED BY <1>1, <1>2, <2>1, <2>2, <2>3, GotoStep, ZenonT(40)
<1> QED BY <1>3, <1>4 DEF Block

\* pipe_read finds bytes or blocks.
LEMMA ReadCheckKeeps ==
  ASSUME PipeAssumption, PipeIInv, NEW t \in Tasks, ReadCheck(t)
  PROVE  PipeIInv'
<1>1. pc[t] = "check" /\ t \in Readers BY DEF ReadCheck
<1>2. CASE ~Condition(t) /\ Block(t) BY <1>1, <1>2, BlockKeeps
<1>3. CASE Goto(t, "copy") /\ UNCHANGED <<pipeVars, ends, owner, asleep, callVars>>
  <2>1. /\ pc' = [pc EXCEPT ![t] = "copy"] /\ "copy" \in Labels
        /\ UNCHANGED <<head, tail, buffer, stream, last, torn, ends, left, done>>
        /\ owner' = owner /\ asleep' = asleep
    BY <1>3 DEF Goto, pipeVars, callVars, Labels
  <2>2. /\ t \notin asleep /\ ~WakeupPending(t) /\ owner = t
        /\ \A u \in Tasks : Holds(u) => owner = u
    BY <1>1 DEF PipeIInv, HolderInv, WakeupPending, Holds
  <2>3. t \notin Writers BY <1>1, TaskFacts
  <2> QED BY <1>1, <2>1, <2>2, <2>3, GotoStep, ZenonT(40)
<1> QED BY <1>2, <1>3 DEF ReadCheck

\* The end of pipe_read: who has read something goes on to the wakeup.
LEMMA ReadUnlockKeeps ==
  ASSUME PipeAssumption, PipeIInv, NEW t \in Tasks, ReadUnlock(t)
  PROVE  PipeIInv'
<1>1. /\ pc[t] \in {"copy", "fault"} /\ t \in Readers /\ t \notin Writers /\ owner' = None
      /\ UNCHANGED <<head, tail, buffer, stream, last, torn, ends, asleep>>
  BY TaskFacts DEF ReadUnlock, pipeVars
<1>2. t \notin asleep /\ Holds(t) /\ \A u \in Tasks \ {t} : ~Holds(u)
  BY <1>1 DEF PipeIInv, HolderInv, Holds
<1>3. CASE done[t] > 0
  <2>1. pc' = [pc EXCEPT ![t] = "wake"] /\ UNCHANGED <<left, done>> /\ "wake" \in Labels
    BY <1>3 DEF ReadUnlock, NotifyAfterRead, Goto, callVars, Labels
  <2>2. WakeupPending(t)' BY <2>1 DEF PipeIInv, TypeOK, WakeupPending
  <2> QED BY <1>1, <1>2, <2>1, <2>2, GotoStep, ZenonT(40)
<1>4. CASE ~(done[t] > 0)
  <2>1. Return(t) BY <1>4 DEF ReadUnlock, NotifyAfterRead
  <2>2. ~WakeupPending(t) BY <1>1, <1>4 DEF WakeupPending
  <2>3. asleep' \subseteq asleep \ {t} BY <1>1, <1>2
  <2> QED BY <1>1, <1>2, <2>1, <2>2, <2>3, ReturnStep
<1> QED BY <1>3, <1>4

\* wake_up_all after a read.
LEMMA ReadWakeKeeps ==
  ASSUME PipeAssumption, PipeIInv, NEW t \in Tasks, ReadWake(t)
  PROVE  PipeIInv'
<1>1. /\ pc[t] = "wake" /\ t \in Readers /\ asleep' = {} /\ Return(t) /\ owner' = owner
      /\ UNCHANGED <<head, tail, buffer, stream, last, torn, ends>>
  BY DEF ReadWake, pipeVars
<1>2. ~Holds(t) BY <1>1, TaskFacts DEF Holds
<1> QED BY <1>1, <1>2, ReturnStep

\* The top of the loop of pipe_write: a write that fits goes on with room for
\* all of it.
LEMMA WriteCheckKeeps ==
  ASSUME PipeAssumption, PipeIInv, NEW t \in Tasks, WriteCheck(t)
  PROVE  PipeIInv'
<1>1. pc[t] = "check" /\ t \in Writers BY DEF WriteCheck
<1>2. /\ t \notin asleep /\ ~WakeupPending(t) /\ owner = t /\ Holds(t)
      /\ \A u \in Tasks : Holds(u) => owner = u
  BY <1>1 DEF PipeIInv, HolderInv, WakeupPending, Holds
<1>3. CASE owner' = None /\ Return(t) /\ UNCHANGED <<pipeVars, ends, asleep>>
  <2>1. /\ UNCHANGED <<head, tail, buffer, stream, last, torn, ends>>
        /\ asleep' \subseteq asleep \ {t}
    BY <1>2, <1>3 DEF pipeVars
  <2> QED BY <1>2, <1>3, <2>1, ReturnStep
<1>4. CASE ~Condition(t) /\ Block(t) BY <1>1, <1>4, BlockKeeps
<1>5. CASE Room(t) /\ Goto(t, "copy") /\ UNCHANGED <<pipeVars, ends, owner, asleep, callVars>>
  <2>1. /\ pc' = [pc EXCEPT ![t] = "copy"] /\ "copy" \in Labels
        /\ UNCHANGED <<head, tail, buffer, stream, last, torn, ends, left, done>>
        /\ owner' = owner /\ asleep' = asleep
    BY <1>5 DEF Goto, pipeVars, callVars, Labels
  <2>2. left[t] + done[t] <= Size =>
          left[t] <= Size - Len(stream) /\ (done[t] > 0 => last = t)
    <3>1. left[t] \in Nat /\ Len(stream) \in Nat /\ Size \in Nat /\ done[t] \in Nat
      BY RingFacts DEF PipeIInv, TypeOK
    <3>2. Size - Len(stream) >= Need(t) BY <1>5, RingFacts
    <3> QED BY <1>1, <3>1, <3>2 DEF Need, PipeIInv, WholeInv
  <2> QED BY <1>1, <1>2, <2>1, <2>2, GotoStep, ZenonT(40)
<1> QED BY <1>3, <1>4, <1>5 DEF WriteCheck

\* wake_up_all after a write, under the mutex.
LEMMA WriteWakeKeeps ==
  ASSUME PipeAssumption, PipeIInv, NEW t \in Tasks, WriteWake(t)
  PROVE  PipeIInv'
<1>1. /\ pc[t] \in {"wake", "fault"} /\ t \in Writers /\ asleep' = {}
      /\ UNCHANGED <<head, tail, buffer, stream, last, torn, ends>>
  BY DEF WriteWake, pipeVars
<1>2. Holds(t) /\ owner = t /\ \A u \in Tasks : Holds(u) => owner = u
  BY <1>1 DEF PipeIInv, HolderInv, Holds
<1>3. CASE pc[t] = "wake"
  <2>1. /\ pc' = [pc EXCEPT ![t] = "check"] /\ "check" \in Labels
        /\ UNCHANGED <<left, done>> /\ owner' = owner
    BY <1>3 DEF WriteWake, Goto, callVars, Labels
  <2>2. left[t] + done[t] <= Size /\ done[t] > 0 => last = t /\ left[t] <= Size - Len(stream)
    BY <1>1, <1>3 DEF PipeIInv, WholeInv
  <2> QED BY <1>1, <1>2, <1>3, <2>1, <2>2, GotoStep, ZenonT(40)
<1>4. CASE pc[t] = "fault"
  <2>1. owner' = None /\ Return(t) BY <1>4 DEF WriteWake
  <2> QED BY <1>1, <1>2, <2>1, ReturnStep
<1> QED BY <1>1, <1>3, <1>4

\* One round of the copy of pipe_read.  The bytes it takes are the first of the
\* stream; it leaves room, so from the first byte on its wakeup is pending.
LEMMA ReadCopyKeeps ==
  ASSUME PipeAssumption, PipeIInv, NEW t \in Tasks, ReadCopy(t)
  PROVE  PipeIInv'
<1> DEFINE offset == tail % Size
           count == Smaller(Smaller(Filled, Size - offset), left[t])
<1>1. /\ pc[t] = "copy" /\ t \in Readers /\ t \notin Writers /\ left[t] > 0 /\ head # tail
      /\ UNCHANGED <<head, last, torn, ends, owner, asleep>>
  BY TaskFacts DEF ReadCopy
<1>2. /\ Size \in Nat \ {0} /\ offset \in 0 .. Size - 1 /\ Len(stream) \in 1 .. Size
      /\ Filled = Len(stream) /\ left[t] \in Nat /\ done[t] \in Nat
  BY <1>1, RingFacts DEF PipeIInv, TypeOK
<1> HIDE DEF offset
<1>3. /\ count \in Nat /\ count > 0 /\ count <= Len(stream)
      /\ offset + count <= Size /\ count <= left[t]
  BY <1>1, <1>2 DEF Smaller
<1>4. PICK n \in 0 .. count :
       /\ tail' = (tail + n) % W
       /\ buffer' = [i \in DOMAIN buffer |->
                       IF i \in offset .. offset + n - 1 THEN None ELSE buffer[i]]
       /\ stream' = SubSeq(stream, n + 1, Len(stream))
       /\ left' = [left EXCEPT ![t] = @ - n] /\ done' = [done EXCEPT ![t] = @ + n]
       /\ Goto(t, IF n = count THEN "copy" ELSE "fault")
  <2>1. (IF Faults THEN 0 .. count ELSE {count}) \subseteq 0 .. count BY <1>3
  <2> QED BY <2>1, ZenonT(40) DEF ReadCopy, offset
<1> HIDE DEF count
<1>5. /\ n \in Nat /\ n \in 0 .. Len(stream) /\ offset + n <= Size /\ n <= left[t]
      /\ n = 0 => n # count
  BY <1>2, <1>3
<1>6. /\ pc' = [pc EXCEPT ![t] = IF n = count THEN "copy" ELSE "fault"]
      /\ pc'[t] \in {"copy", "fault"}
      /\ left'[t] = left[t] - n /\ done'[t] = done[t] + n
      /\ \A u \in Tasks \ {t} : pc'[u] = pc[u] /\ left'[u] = left[u] /\ done'[u] = done[u]
  BY <1>4 DEF PipeIInv, TypeOK, Goto
<1>7. Ring(head', tail', buffer', stream')
  <2>1. Ring(head, tail, buffer, stream) /\ (tail % Size) + n <= Size
    BY <1>5 DEF PipeIInv, offset
  <2>2. Ring(head, (tail + n) % W,
             [i \in DOMAIN buffer |-> IF i \in (tail % Size) .. (tail % Size) + n - 1
                                      THEN None ELSE buffer[i]],
             SubSeq(stream, n + 1, Len(stream)))
    BY <1>5, <2>1, RingRead
  <2> QED BY <1>1, <1>4, <2>2 DEF offset
<1>8. TypeOK'
  <2>1. /\ pc' \in [Tasks -> Labels] /\ left' \in [Tasks -> Nat] /\ done' \in [Tasks -> Nat]
    <3>0. left[t] \in Nat /\ done[t] \in Nat /\ n \in Nat /\ n <= left[t] BY <1>2, <1>5, ZenonT(40)
    <3>1. left[t] - n \in Nat /\ done[t] + n \in Nat BY <3>0
    <3> QED BY <1>4, <1>6, <3>1, ZenonT(40) DEF PipeIInv, TypeOK, Labels
  <2>2. head' \in 0 .. W - 1 /\ tail' \in 0 .. W - 1 /\ DOMAIN buffer' = 0 .. Size - 1
    BY <1>1, <1>7, ZenonT(40) DEF Ring, PipeIInv, TypeOK
  <2> QED BY <1>1, <2>1, <2>2, ZenonT(40) DEF PipeIInv, TypeOK, Labels
<1>9. HolderInv'
  <2>1. \A u \in Tasks : Holds(u)' = Holds(u) BY <1>1, <1>6, ZenonT(40) DEF Holds
  <2> QED BY <1>1, <1>6, <2>1, ZenonT(40) DEF PipeIInv, TypeOK, HolderInv, Holds, MyEnd
<1>10. WholeInv'
  <2>1. \A w \in Writers : pc'[w] = pc[w] /\ left'[w] = left[w] /\ done'[w] = done[w]
                           /\ left[w] \in Nat
    BY <1>1, <1>6, TaskFacts DEF PipeIInv, TypeOK
  <2>2. stream \in Seq(Bytes) /\ Len(stream') = Len(stream) - n
    <3>1. stream \in Seq(Bytes) BY RingFacts
    <3> QED BY <1>4, <1>5, <3>1
  <2>3. Size - Len(stream) <= Size - Len(stream') BY <1>2, <1>5, <2>2
  <2>4. Size - Len(stream) \in Int /\ Size - Len(stream') \in Int BY <1>2, <1>5, <2>2
  <2> HIDE DEF offset, count
  <2>5. \A w \in Writers : left[w] <= Size - Len(stream) => left'[w] <= Size - Len(stream')
    BY <2>1, <2>3, <2>4
  <2> QED BY <1>1, <2>1, <2>5, ZenonT(40) DEF PipeIInv, WholeInv
<1>11. WakeInv'
  <2>1. CASE n = 0
    <3>1. tail' = tail /\ stream' = stream
      <4>1. tail \in 0 .. W - 1 /\ W \in Nat BY DEF PipeIInv, TypeOK, PipeAssumption
      <4>2. tail + 0 = tail /\ tail % W = tail BY <4>1
      <4> QED BY <1>4, <2>1, <4>2, RingFacts
    <3>2. \A u \in asleep : Condition(u)' = Condition(u)
      <4>1. \A u \in asleep : u \in Tasks \ {t} BY <1>1 DEF PipeIInv, TypeOK, HolderInv
      <4> QED BY <1>1, <1>6, <3>1, <4>1 DEF Condition, Room, Need, Filled
    <3>3. \A u \in Tasks : WakeupPending(u) => WakeupPending(u)'
      BY <1>1, <1>2, <1>6, <2>1 DEF WakeupPending
    <3> QED BY <1>1, <3>2, <3>3 DEF PipeIInv, WakeInv
  <2>2. CASE n # 0
    <3>1. done'[t] > 0 BY <1>2, <1>5, <1>6, <2>2
    <3>2. WakeupPending(t)' BY <1>1, <1>6, <3>1 DEF WakeupPending
    <3> QED BY <3>2 DEF WakeInv
  <2> QED BY <2>1, <2>2, ZenonT(40)
<1> QED BY <1>7, <1>8, <1>9, <1>10, <1>11 DEF PipeIInv

\* The copy of pipe_write.  The bytes go in after the last of the stream.  The
\* mutex keeps other writers out, and the wakeup follows under it.
LEMMA WriteCopyKeeps ==
  ASSUME PipeAssumption, PipeIInv, NEW t \in Tasks, WriteCopy(t)
  PROVE  PipeIInv'
<1> DEFINE offset == head % Size
           bytes(n) == [i \in 1 .. n |-> <<t, done[t] + i>>]
<1>1. /\ pc[t] = "copy" /\ t \in Writers /\ t \notin Readers
      /\ UNCHANGED <<tail, ends, owner, asleep>>
  BY TaskFacts DEF WriteCopy
<1>2. /\ Size \in Nat \ {0} /\ offset \in 0 .. Size - 1 /\ Len(stream) \in 0 .. Size
      /\ Filled = Len(stream) /\ left[t] \in Nat /\ done[t] \in Nat /\ stream \in Seq(Bytes)
  BY RingFacts DEF PipeIInv, TypeOK
<1>3. /\ Chunk(t) \in Nat /\ Chunk(t) <= Size - Len(stream)
      /\ offset + Chunk(t) <= Size /\ Chunk(t) <= left[t]
  <2> DEFINE o == head % Size
  <2>1. o \in 0 .. Size - 1 /\ offset = o BY <1>2
  <2>2. Chunk(t) = Smaller(Smaller(Size - Filled, Size - o), left[t]) BY DEF Chunk
  <2> HIDE DEF o, offset
  <2> QED BY <1>2, <2>1, <2>2 DEF Smaller
<1> HIDE DEF offset
<1>4. PICK n \in 0 .. Chunk(t) :
       /\ buffer' = [i \in DOMAIN buffer \cup offset .. offset + n - 1 |->
                       IF i \in offset .. offset + n - 1 THEN bytes(n)[i - offset + 1] ELSE buffer[i]]
       /\ head' = (head + n) % W
       /\ stream' = stream \o bytes(n)
       /\ torn' = (torn \/ (n > 0 /\ done[t] > 0 /\ left[t] + done[t] <= Size /\ last # t))
       /\ last' = IF n > 0 THEN t ELSE last
       /\ left' = [left EXCEPT ![t] = @ - n] /\ done' = [done EXCEPT ![t] = @ + n]
       /\ Goto(t, IF n = Chunk(t) THEN "wake" ELSE "fault")
  <2>1. (IF Faults THEN 0 .. Chunk(t) ELSE {Chunk(t)}) \subseteq 0 .. Chunk(t) BY <1>3
  <2> QED BY <2>1, ZenonT(40) DEF WriteCopy, offset
<1> DEFINE e == bytes(n)
<1>5. n \in Nat /\ n <= Size - Len(stream) /\ offset + n <= Size /\ n <= left[t]
  BY <1>2, <1>3
<1>6. e \in Seq(Bytes) /\ Len(e) = n
  <2>1. \A i \in 1 .. n : <<t, done[t] + i>> \in Bytes BY <1>2, <1>5 DEF Bytes
  <2> QED BY <1>5, <2>1
<1> HIDE DEF e
<1>7. /\ pc' = [pc EXCEPT ![t] = IF n = Chunk(t) THEN "wake" ELSE "fault"]
      /\ pc'[t] \in {"wake", "fault"}
      /\ left'[t] = left[t] - n /\ done'[t] = done[t] + n
      /\ \A u \in Tasks \ {t} : pc'[u] = pc[u] /\ left'[u] = left[u] /\ done'[u] = done[u]
  BY <1>4, ZenonT(40) DEF PipeIInv, TypeOK, Goto
<1>8. Ring(head', tail', buffer', stream')
  <2>1. Ring(head, tail, buffer, stream) /\ (head % Size) + n <= Size
    BY <1>5 DEF PipeIInv, offset
  <2>2. Ring((head + n) % W, tail,
             [i \in DOMAIN buffer \cup (head % Size) .. (head % Size) + n - 1 |->
                IF i \in (head % Size) .. (head % Size) + n - 1
                THEN e[i - (head % Size) + 1] ELSE buffer[i]],
             stream \o e)
    BY <1>5, <1>6, <2>1, RingWrite, ZenonT(40)
  <2> QED BY <1>1, <1>4, <2>2 DEF offset, e
<1>9. TypeOK'
  <2>1. /\ pc' \in [Tasks -> Labels] /\ left' \in [Tasks -> Nat] /\ done' \in [Tasks -> Nat]
    <3>0. left[t] \in Nat /\ done[t] \in Nat /\ n \in Nat /\ n <= left[t] BY <1>2, <1>5, ZenonT(40)
    <3>1. left[t] - n \in Nat /\ done[t] + n \in Nat BY <3>0
    <3> QED BY <1>4, <1>7, <3>1 DEF PipeIInv, TypeOK, Labels
  <2>2. head' \in 0 .. W - 1 /\ tail' \in 0 .. W - 1 /\ DOMAIN buffer' = 0 .. Size - 1
    <3>1. head' \in 0 .. W - 1 BY <1>8, RingFilled, ZenonT(40)
    <3> QED BY <1>8, <3>1 DEF Ring
  <2> QED BY <1>1, <2>1, <2>2, ZenonT(40) DEF PipeIInv, TypeOK, Labels
<1>10. HolderInv'
  <2>1. \A u \in Tasks : Holds(u)' = Holds(u) BY <1>1, <1>7, ZenonT(40) DEF Holds
  <2> QED BY <1>1, <1>7, <2>1, ZenonT(40) DEF PipeIInv, TypeOK, HolderInv, Holds, MyEnd
<1>11. WholeInv'
  <2>1. left[t] + done[t] <= Size =>
          left[t] <= Size - Len(stream) /\ (done[t] > 0 => last = t)
    BY <1>1, ZenonT(40) DEF PipeIInv, WholeInv
  <2>2. ~torn' BY <1>4, <2>1, ZenonT(40) DEF PipeIInv, WholeInv
  <2>3. Len(stream') = Len(stream) + n
    <3>1. stream' = stream \o e BY <1>4, ZenonT(40) DEF e
    <3>2. stream \in Seq(Bytes) BY <1>2, ZenonT(40)
    <3> QED BY <1>6, <3>1, <3>2, ConcatFacts, ZenonT(40)
  <2>4. left'[t] + done'[t] <= Size =>
          (done'[t] > 0 => last' = t) /\ left'[t] <= Size - Len(stream')
    <3>1. left'[t] + done'[t] = left[t] + done[t] BY <1>2, <1>5, <1>7
    <3>2. n = 0 => done'[t] = done[t] BY <1>2, <1>7
    <3>3. left[t] <= Size - Len(stream) => left'[t] <= Size - Len(stream')
      BY <1>2, <1>5, <1>7, <2>3
    <3>4. n > 0 => last' = t BY <1>4
    <3>5. n = 0 => last' = last BY <1>4, <1>5
    <3>6. n = 0 \/ n > 0 BY <1>5
    <3> QED BY <2>1, <3>1, <3>2, <3>3, <3>4, <3>5, <3>6, ZenonT(40)
  <2>5. \A w \in Writers \ {t} : w \in Tasks /\ pc[w] \notin {"wake", "check", "copy"}
    BY <1>1, TaskFacts DEF PipeIInv, HolderInv, Holds
  <2> QED BY <1>1, <1>7, <2>2, <2>4, <2>5 DEF PipeIInv, WholeInv
<1>12. WakeInv'
  <2>1. WakeupPending(t)' BY <1>1, <1>7 DEF WakeupPending
  <2> QED BY <2>1 DEF WakeInv
<1> QED BY <1>8, <1>9, <1>10, <1>11, <1>12, ZenonT(40) DEF PipeIInv

\* pipe_release wakes everybody, or was the last: no call is left then.
LEMMA PipeReleaseKeeps ==
  ASSUME PipeAssumption, PipeIInv, NEW e \in ends, PipeRelease(e)
  PROVE  PipeIInv'
<1>1. /\ \A t \in Tasks : MyEnd(t) = e => pc[t] = "idle"
      /\ ends' = ends \ {e} /\ (ends' # {} => asleep' = {}) /\ asleep' \subseteq asleep
      /\ UNCHANGED <<head, tail, buffer, stream, last, torn, owner, pc, left, done>>
  BY DEF PipeRelease, ReleaseWakes, pipeVars, callVars
<1>2. asleep' = {}
  <2> SUFFICES ASSUME ends' = {}, NEW t \in asleep' PROVE FALSE BY <1>1
  <2>1. t \in Tasks /\ pc[t] = "sleep" BY <1>1 DEF PipeIInv, TypeOK, HolderInv
  <2>2. MyEnd(t) \in ends /\ MyEnd(t) # e BY <1>1, <2>1 DEF PipeIInv, HolderInv
  <2> QED BY <1>1, <2>2
<1>3. TypeOK' BY <1>1, <1>2 DEF PipeIInv, TypeOK
<1>4. Ring(head, tail, buffer, stream)' BY <1>1 DEF PipeIInv, Ring
<1>5. HolderInv' BY <1>1, <1>2, ZenonT(40) DEF PipeIInv, HolderInv, Holds, MyEnd
<1>6. WholeInv' BY <1>1 DEF PipeIInv, WholeInv
<1>7. WakeInv' BY <1>2 DEF WakeInv
<1> QED BY <1>3, <1>4, <1>5, <1>6, <1>7 DEF PipeIInv

-----------------------------------------------------------------------------
(* Theorems.                                                               *)

\* The inductive invariant of a pipe, for any readers, writers, buffer size and
\* lengths of calls: the ring of bytes, who holds pipe.mutex, writes that fit go
\* in whole, and a wakeup is pending wherever a sleeper's condition holds.
THEOREM PipeInvariant ==
  ASSUME PipeAssumption
  PROVE  Spec => []PipeIInv
<1>1. Init => PipeIInv BY PipeInit
<1>2. PipeIInv /\ [Next]_vars => PipeIInv'
  <2> SUFFICES ASSUME PipeIInv, [Next]_vars PROVE PipeIInv' BY ZenonT(40)
  <2>1. CASE UNCHANGED vars
    BY <2>1 DEF vars, pipeVars, callVars, PipeIInv, TypeOK, Ring, HolderInv, Holds, MyEnd,
                WholeInv, WakeInv, WakeupPending, Condition, Room, Need, Filled
  <2>2. ASSUME NEW t \in Tasks, Step(t) \/ Interrupted(t) \/ \E n \in Counts : Call(t, n)
        PROVE  PipeIInv'
    BY <2>2, CallKeeps, LockKeeps, WaitEventKeeps, InterruptedKeeps, ReadCheckKeeps,
       ReadCopyKeeps, ReadUnlockKeeps, ReadWakeKeeps, WriteCheckKeeps, WriteCopyKeeps,
       WriteWakeKeeps
       DEF Step, ReadStep, WriteStep
  <2>3. ASSUME NEW e \in ends, PipeRelease(e) PROVE PipeIInv' BY <2>3, PipeReleaseKeeps
  <2> QED BY <2>1, <2>2, <2>3 DEF Next
<1> QED BY <1>1, <1>2, PTL DEF Spec

\* fs/pipe.c, for any readers and writers and any buffer size that divides the
\* range of the counters: bytes come out in the order they went in and none is
\* overwritten, a write of up to PIPE_BUF_SIZE bytes is never split, and no reader
\* or writer sleeps over a condition that holds with no wakeup on its way.
THEOREM PipeCorrect ==
  ASSUME PipeAssumption
  PROVE  Spec => []PipeInv
<1>1. PipeIInv => PipeInv BY PipeIInvImplies
<1> QED BY <1>1, PipeInvariant, PTL
=============================================================================
