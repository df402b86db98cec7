---------------------------- MODULE PtyHostProofs ----------------------------
(***************************************************************************)
(* Proofs about RingBuffer, for buffers and chunks of every size, and      *)
(* about PtyHost, for every number of sessions, streams and chunks and     *)
(* every ring size and idle timeout.                                       *)
(***************************************************************************)
EXTENDS PtyHost, FiniteSetTheorems, SequenceTheorems, TLAPS

-----------------------------------------------------------------------------
(* ringBuffer.write and snapshot.                                           *)

\* The buffers of ringBuffer over units of T.
RingsOf(T) == [cap: Nat \ {0}, buf: Seq(T), head: Nat, full: BOOLEAN]

\* copy overwrites as much as fits and leaves the rest.
LEMMA CopyAt ==
  ASSUME NEW T, NEW b \in Seq(T), NEW at \in Nat, NEW p \in Seq(T)
  PROVE  /\ Copy(b, at, p) \in Seq(T) /\ Len(Copy(b, at, p)) = Len(b)
         /\ \A i \in 1 .. Len(b) : Copy(b, at, p)[i] =
              IF at < i /\ i <= at + Len(p) THEN p[i - at] ELSE b[i]
<1> DEFINE val(i) == IF at < i /\ i <= at + Len(p) THEN p[i - at] ELSE b[i]
<1>1. \A i \in 1 .. Len(b) : val(i) \in T
  <2> SUFFICES ASSUME NEW i \in 1 .. Len(b) PROVE val(i) \in T
    OBVIOUS
  <2>1. CASE at < i /\ i <= at + Len(p)
    <3>1. i - at \in 1 .. Len(p)
      BY <2>1
    <3> QED
      BY <2>1, <3>1
  <2>2. CASE ~(at < i /\ i <= at + Len(p))
    BY <2>2
  <2> QED
    BY <2>1, <2>2
<1>2. Copy(b, at, p) = [i \in 1 .. Len(b) |-> val(i)]
  BY DEF Copy
<1>3. Len(b) \in Nat
  OBVIOUS
<1> HIDE DEF val
<1>4. [i \in 1 .. Len(b) |-> val(i)] \in Seq(T)
  BY <1>1, <1>3, IsASeq
<1>5. Len([i \in 1 .. Len(b) |-> val(i)]) = Len(b)
  BY <1>3, <1>4
<1> QED
  BY <1>2, <1>4, <1>5 DEF val

\* Two sequences in a row, element by element.
LEMMA ConcatAt ==
  ASSUME NEW T, NEW p \in Seq(T), NEW q \in Seq(T)
  PROVE  /\ p \o q \in Seq(T) /\ Len(p \o q) = Len(p) + Len(q)
         /\ \A i \in 1 .. Len(p) : (p \o q)[i] = p[i]
         /\ \A i \in Len(p) + 1 .. Len(p) + Len(q) : (p \o q)[i] = q[i - Len(p)]
<1>1. /\ p \o q \in Seq(T)
      /\ Len(p \o q) = Len(p) + Len(q)
      /\ \A i \in 1 .. Len(p) + Len(q) : (p \o q)[i] =
           IF i <= Len(p) THEN p[i] ELSE q[i - Len(p)]
  BY ConcatProperties
<1>2. Len(p) \in Nat /\ Len(q) \in Nat
  OBVIOUS
<1> QED
  BY <1>1, <1>2

\* A part of a sequence, element by element.
LEMMA PartAt ==
  ASSUME NEW T, NEW b \in Seq(T), NEW m \in Nat, NEW n \in 0 .. Len(b), m <= n + 1, 1 <= m
  PROVE  /\ SubSeq(b, m, n) \in Seq(T) /\ Len(SubSeq(b, m, n)) = n - m + 1
         /\ \A i \in 1 .. n - m + 1 : SubSeq(b, m, n)[i] = b[m + i - 1]
<1>1. m \in Int /\ n \in Int
  OBVIOUS
<1>2. \A i \in m .. n : b[i] \in T
  OBVIOUS
<1>3. /\ SubSeq(b, m, n) \in Seq(T)
      /\ Len(SubSeq(b, m, n)) = IF m <= n THEN n - m + 1 ELSE 0
      /\ \A i \in 1 .. n - m + 1 : SubSeq(b, m, n)[i] = b[m + i - 1]
  BY <1>1, <1>2, SubSeqProperties
<1> QED
  BY <1>3

\* A sequence read from after position h on, and then from its start.
LEMMA RotateAt ==
  ASSUME NEW T, NEW c \in Nat, NEW b \in Seq(T), Len(b) = c, NEW h \in 0 .. c
  PROVE  LET s == SubSeq(b, h + 1, c) \o SubSeq(b, 1, h) IN
         /\ s \in Seq(T) /\ Len(s) = c
         /\ \A i \in 1 .. c - h : s[i] = b[h + i]
         /\ \A i \in c - h + 1 .. c : s[i] = b[i - (c - h)]
<1> DEFINE p == SubSeq(b, h + 1, c)
           q == SubSeq(b, 1, h)
<1>0. c = Len(b)
  OBVIOUS
<1>1. /\ p \in Seq(T) /\ Len(p) = c - (h + 1) + 1
      /\ \A i \in 1 .. c - (h + 1) + 1 : p[i] = b[(h + 1) + i - 1]
  BY <1>0, PartAt
<1>2. /\ q \in Seq(T) /\ Len(q) = h - 1 + 1
      /\ \A i \in 1 .. h - 1 + 1 : q[i] = b[1 + i - 1]
  BY <1>0, PartAt
<1> HIDE DEF p, q
<1>3. /\ p \o q \in Seq(T) /\ Len(p \o q) = Len(p) + Len(q)
      /\ \A i \in 1 .. Len(p) : (p \o q)[i] = p[i]
      /\ \A i \in Len(p) + 1 .. Len(p) + Len(q) : (p \o q)[i] = q[i - Len(p)]
  BY <1>1, <1>2, ConcatAt
<1>4. Len(p) = c - h /\ Len(q) = h
  BY <1>0, <1>1, <1>2
<1>5. \A i \in 1 .. c - h : (p \o q)[i] = b[h + i]
  <2> SUFFICES ASSUME NEW i \in 1 .. c - h PROVE (p \o q)[i] = b[h + i]
    OBVIOUS
  <2>1. i \in 1 .. Len(p) /\ i \in 1 .. c - (h + 1) + 1
    BY <1>0, <1>4
  <2> QED
    BY <1>0, <1>1, <1>3, <2>1
<1>6. \A i \in c - h + 1 .. c : (p \o q)[i] = b[i - (c - h)]
  <2> SUFFICES ASSUME NEW i \in c - h + 1 .. c
               PROVE  (p \o q)[i] = b[i - (c - h)]
    OBVIOUS
  <2>1. i \in Len(p) + 1 .. Len(p) + Len(q) /\ i - Len(p) \in 1 .. h - 1 + 1
    BY <1>0, <1>4
  <2> QED
    BY <1>0, <1>2, <1>3, <1>4, <2>1
<1>7. p \o q \in Seq(T) /\ Len(p \o q) = c
  BY <1>0, <1>3, <1>4
<1> QED
  BY <1>5, <1>6, <1>7 DEF p, q

\* The last k elements of a sequence, element by element.
LEMMA LastOfAt ==
  ASSUME NEW T, NEW q \in Seq(T), NEW k \in Nat, k <= Len(q)
  PROVE  /\ LastOf(q, k) \in Seq(T) /\ Len(LastOf(q, k)) = k
         /\ \A i \in 1 .. k : LastOf(q, k)[i] = q[Len(q) - k + i]
<1>1. CASE Len(q) <= k
  BY <1>1 DEF LastOf
<1>2. CASE ~(Len(q) <= k)
  <2>1. \A i \in Len(q) - k + 1 .. Len(q) : q[i] \in T
    OBVIOUS
  <2>2. LET t == SubSeq(q, Len(q) - k + 1, Len(q)) IN
        /\ t \in Seq(T)
        /\ Len(t) = IF Len(q) - k + 1 <= Len(q) THEN Len(q) - (Len(q) - k + 1) + 1 ELSE 0
        /\ \A i \in 1 .. Len(q) - (Len(q) - k + 1) + 1 : t[i] = q[(Len(q) - k + 1) + i - 1]
    <3>1. Len(q) - k + 1 \in Int /\ Len(q) \in Int
      OBVIOUS
    <3> QED
      BY <2>1, <3>1, SubSeqProperties
  <2>3. LastOf(q, k) = SubSeq(q, Len(q) - k + 1, Len(q))
    BY <1>2 DEF LastOf
  <2> QED
    BY <2>2, <2>3
<1> QED
  BY <1>1, <1>2

\* Unit i of the last c of q, which has length c, followed by p.
TailUnit(q, c, p, i) == IF Len(p) + i <= c THEN q[Len(p) + i] ELSE p[Len(p) + i - c]

\* What is left of a sequence of length c when others follow it and only the last c
\* are kept.
LEMMA TailAt ==
  ASSUME NEW T, NEW c \in Nat, NEW q \in Seq(T), Len(q) = c, NEW p \in Seq(T)
  PROVE  /\ LastOf(q \o p, c) \in Seq(T)
         /\ Len(LastOf(q \o p, c)) = c
         /\ \A i \in 1 .. c : LastOf(q \o p, c)[i] = TailUnit(q, c, p, i)
<1>1. /\ q \o p \in Seq(T) /\ Len(q \o p) = c + Len(p)
      /\ \A i \in 1 .. c : (q \o p)[i] = q[i]
      /\ \A i \in c + 1 .. c + Len(p) : (q \o p)[i] = p[i - c]
  BY ConcatAt
<1>2. c = Len(q) /\ Len(p) \in Nat
  OBVIOUS
<1> DEFINE t == q \o p
<1>3. t \in Seq(T) /\ Len(t) = c + Len(p) /\ c <= Len(t)
  BY <1>1, <1>2
<1> HIDE DEF t
<1>4. /\ LastOf(t, c) \in Seq(T) /\ Len(LastOf(t, c)) = c
      /\ \A i \in 1 .. c : LastOf(t, c)[i] = t[Len(t) - c + i]
  BY <1>2, <1>3, LastOfAt
<1>5. ASSUME NEW i \in 1 .. c
      PROVE  t[Len(t) - c + i] = TailUnit(q, c, p, i)
  <2>1. Len(t) - c + i = Len(p) + i
    BY <1>2, <1>3
  <2>2. CASE Len(p) + i <= c
    <3>1. Len(p) + i \in 1 .. c
      BY <1>2, <2>2
    <3> QED
      BY <1>1, <2>1, <2>2, <3>1 DEF t, TailUnit
  <2>3. CASE ~(Len(p) + i <= c)
    <3>1. Len(p) + i \in c + 1 .. c + Len(p)
      BY <1>2, <2>3
    <3> QED
      BY <1>1, <2>1, <2>3, <3>1 DEF t, TailUnit
  <2> QED
    BY <2>2, <2>3
<1> QED
  BY <1>4, <1>5 DEF t

\* Read from h2 on, b2 holds what p leaves of b, read from h on: the n-th unit is
\* the one that was p's length further on, or one of p.
MovedOn(b, h, c, p, b2, h2) ==
  \A i \in 1 .. c :
    (IF i <= c - h2 THEN b2[h2 + i] ELSE b2[i - (c - h2)]) =
    (IF Len(p) + i <= c
     THEN IF Len(p) + i <= c - h THEN b[h + Len(p) + i] ELSE b[Len(p) + i - (c - h)]
     ELSE p[Len(p) + i - c])

\* Two buffers so related have snapshots that differ by p.
LEMMA RotatedIsTail ==
  ASSUME NEW T, NEW c \in Nat, NEW p \in Seq(T),
         NEW b \in Seq(T), Len(b) = c, NEW h \in 0 .. c,
         NEW b2 \in Seq(T), Len(b2) = c, NEW h2 \in 0 .. c,
         MovedOn(b, h, c, p, b2, h2)
  PROVE  SubSeq(b2, h2 + 1, c) \o SubSeq(b2, 1, h2) =
         LastOf(SubSeq(b, h + 1, c) \o SubSeq(b, 1, h) \o p, c)
<1> DEFINE s2 == SubSeq(b2, h2 + 1, c) \o SubSeq(b2, 1, h2)
           s  == SubSeq(b, h + 1, c) \o SubSeq(b, 1, h)
<1>1. /\ s2 \in Seq(T) /\ Len(s2) = c
      /\ \A i \in 1 .. c - h2 : s2[i] = b2[h2 + i]
      /\ \A i \in c - h2 + 1 .. c : s2[i] = b2[i - (c - h2)]
  BY RotateAt
<1>2. /\ s \in Seq(T) /\ Len(s) = c
      /\ \A i \in 1 .. c - h : s[i] = b[h + i]
      /\ \A i \in c - h + 1 .. c : s[i] = b[i - (c - h)]
  BY RotateAt
<1>3. c \in Nat /\ h \in Nat /\ h2 \in Nat /\ Len(p) \in Nat /\ h <= c /\ h2 <= c
  OBVIOUS
<1>4. \A i \in 1 .. c :
        (IF i <= c - h2 THEN b2[h2 + i] ELSE b2[i - (c - h2)]) =
        (IF Len(p) + i <= c
         THEN IF Len(p) + i <= c - h THEN b[h + Len(p) + i] ELSE b[Len(p) + i - (c - h)]
         ELSE p[Len(p) + i - c])
  BY DEF MovedOn
<1> HIDE DEF s, s2
<1>5. /\ LastOf(s \o p, c) \in Seq(T) /\ Len(LastOf(s \o p, c)) = c
      /\ \A i \in 1 .. c : LastOf(s \o p, c)[i] =
           IF Len(p) + i <= c THEN s[Len(p) + i] ELSE p[Len(p) + i - c]
  <2>1. s \in Seq(T) /\ Len(s) = c
    BY <1>2
  <2>2. LastOf(s \o p, c) \in Seq(T)
    BY ONLY <2>1, c \in Nat, p \in Seq(T), TailAt
  <2>3. Len(LastOf(s \o p, c)) = c
    BY ONLY <2>1, c \in Nat, p \in Seq(T), TailAt
  <2>4. ASSUME NEW i \in 1 .. c
        PROVE  LastOf(s \o p, c)[i] = TailUnit(s, c, p, i)
    BY ONLY <2>1, c \in Nat, p \in Seq(T), i \in 1 .. c, TailAt
  <2> QED
    BY <2>2, <2>3, <2>4 DEF TailUnit
<1>6. ASSUME NEW j \in 1 .. c
      PROVE  s[j] = IF j <= c - h THEN b[h + j] ELSE b[j - (c - h)]
  <2>1. CASE j <= c - h
    <3>1. j \in 1 .. c - h
      BY <1>3, <2>1
    <3> QED
      BY <1>2, <2>1, <3>1
  <2>2. CASE ~(j <= c - h)
    <3>1. j \in c - h + 1 .. c
      BY <1>3, <2>2
    <3> QED
      BY <1>2, <2>2, <3>1
  <2> QED
    BY <2>1, <2>2
<1>7. ASSUME NEW i \in 1 .. c PROVE s2[i] = LastOf(s \o p, c)[i]
  <2>1. s2[i] = IF i <= c - h2 THEN b2[h2 + i] ELSE b2[i - (c - h2)]
    <3>1. CASE i <= c - h2
      <4>1. i \in 1 .. c - h2
        BY <1>3, <3>1
      <4> QED
        BY <1>1, <3>1, <4>1
    <3>2. CASE ~(i <= c - h2)
      <4>1. i \in c - h2 + 1 .. c
        BY <1>3, <3>2
      <4> QED
        BY <1>1, <3>2, <4>1
    <3> QED
      BY <3>1, <3>2
  <2>2. CASE Len(p) + i <= c
    <3>1. Len(p) + i \in 1 .. c /\ h + (Len(p) + i) = h + Len(p) + i
      BY <1>3, <2>2
    <3>2. s[Len(p) + i] = IF Len(p) + i <= c - h THEN b[h + (Len(p) + i)] ELSE b[Len(p) + i - (c - h)]
      <4>1. (Len(p) + i) - (c - h) = Len(p) + i - (c - h)
        BY <1>3
      <4> QED
        BY <1>6, <3>1, <4>1
    <3> QED
      BY <1>4, <1>5, <2>1, <2>2, <3>1, <3>2
  <2>3. CASE ~(Len(p) + i <= c)
    BY <1>4, <1>5, <2>1, <2>3
  <2> QED
    BY <2>2, <2>3
<1>8. s2 = LastOf(s \o p, c)
  BY <1>1, <1>5, <1>7, SeqEqual
<1> QED
  BY <1>8 DEF s, s2

\* The fields of a full buffer.
LEMMA FullFields ==
  ASSUME NEW T, NEW r \in RingsOf(T), RingShape(r), r.full
  PROVE  /\ r.buf \in Seq(T) /\ r.cap = Len(r.buf) /\ r.cap \in Nat \ {0}
         /\ r.head \in 0 .. r.cap
         /\ Snapshot(r) = SubSeq(r.buf, r.head + 1, r.cap) \o SubSeq(r.buf, 1, r.head)
<1>1. r.buf \in Seq(T) /\ r.cap \in Nat \ {0} /\ r.head \in Nat
  BY DEF RingsOf
<1>2. r.cap = Len(r.buf) /\ r.head <= r.cap
  BY DEF RingShape
<1>3. Snapshot(r) = SubSeq(r.buf, r.head + 1, r.cap) \o SubSeq(r.buf, 1, r.head)
  BY DEF Snapshot
<1> QED
  BY <1>1, <1>2, <1>3

\* ringBuffer.write into a full buffer: what a snapshot gives is moved on by p.
LEMMA OverwriteTail ==
  ASSUME NEW T, NEW r \in RingsOf(T), NEW p \in Seq(T), RingShape(r), r.full
  PROVE  LET w == Overwrite(r, p) IN
         /\ w \in RingsOf(T) /\ RingShape(w) /\ w.cap = r.cap
         /\ Snapshot(w) = LastOf(Snapshot(r) \o p, r.cap)
<1> DEFINE w == Overwrite(r, p)
<1>1. PICK b, h, c : /\ b = r.buf /\ h = r.head /\ c = r.cap
  OBVIOUS
<1>2. /\ b \in Seq(T) /\ c = Len(b) /\ h \in 0 .. c /\ c \in Nat \ {0}
      /\ Snapshot(r) = SubSeq(b, h + 1, c) \o SubSeq(b, 1, h)
  BY <1>1, FullFields
<1>3. Len(p) \in Nat
  OBVIOUS
<1>4. ASSUME NEW b2 \in Seq(T), NEW h2 \in 0 .. c, Len(b2) = c,
             w = [r EXCEPT !.buf = b2, !.head = h2],
             MovedOn(b, h, c, p, b2, h2)
      PROVE  /\ w \in RingsOf(T) /\ RingShape(w) /\ w.cap = r.cap
             /\ Snapshot(w) = LastOf(Snapshot(r) \o p, r.cap)
  <2> HIDE DEF w
  <2>1. w = [cap |-> c, buf |-> b2, head |-> h2, full |-> TRUE]
    BY <1>1, <1>4 DEF RingsOf
  <2>2. w \in RingsOf(T)
    <3>1. h2 \in Nat /\ c \in Nat \ {0} /\ b2 \in Seq(T)
      BY <1>2
    <3> QED
      BY <2>1, <3>1 DEF RingsOf
  <2>3. RingShape(w)
    <3>1. w.full = TRUE /\ w.buf = b2 /\ w.cap = c /\ w.head = h2
      BY <2>1
    <3> QED
      BY <1>2, <1>4, <3>1 DEF RingShape
  <2>4. Snapshot(w) = SubSeq(b2, h2 + 1, c) \o SubSeq(b2, 1, h2)
    BY <2>1 DEF Snapshot
  <2>5. SubSeq(b2, h2 + 1, c) \o SubSeq(b2, 1, h2) =
        LastOf(SubSeq(b, h + 1, c) \o SubSeq(b, 1, h) \o p, c)
    <3>1. c \in Nat /\ b \in Seq(T) /\ Len(b) = c /\ h \in 0 .. c
      BY <1>2
    <3>2. b2 \in Seq(T) /\ h2 \in 0 .. c /\ Len(b2) = c /\ MovedOn(b, h, c, p, b2, h2)
      BY <1>4
    <3> QED
      BY ONLY <3>1, <3>2, p \in Seq(T), RotatedIsTail
  <2> QED
    BY <1>1, <1>2, <2>1, <2>2, <2>3, <2>4, <2>5
<1>5. CASE Len(p) >= c
  <2> DEFINE q == SubSeq(p, Len(p) - c + 1, Len(p))
             b2 == Copy(b, 0, q)
  <2>1. /\ q \in Seq(T) /\ Len(q) = c
        /\ \A i \in 1 .. c : q[i] = p[Len(p) - c + i]
    <3>1. Len(p) - c + 1 \in Nat /\ 1 <= Len(p) - c + 1 /\ Len(p) \in 0 .. Len(p)
          /\ Len(p) - c + 1 <= Len(p) + 1
      BY <1>2, <1>3, <1>5
    <3>2. /\ q \in Seq(T) /\ Len(q) = Len(p) - (Len(p) - c + 1) + 1
          /\ \A i \in 1 .. Len(p) - (Len(p) - c + 1) + 1 : q[i] = p[(Len(p) - c + 1) + i - 1]
      BY <3>1, PartAt
    <3> HIDE DEF q
    <3> QED
      BY <1>2, <1>3, <1>5, <3>2
  <2>2. w = [r EXCEPT !.buf = b2, !.head = 0]
    BY <1>1, <1>5 DEF Overwrite
  <2> HIDE DEF q, w
  <2>3. /\ b2 \in Seq(T) /\ Len(b2) = c
        /\ \A i \in 1 .. c : b2[i] = IF 0 < i /\ i <= 0 + Len(q) THEN q[i - 0] ELSE b[i]
    BY <1>2, <2>1, CopyAt
  <2> HIDE DEF b2
  <2>4. ASSUME NEW i \in 1 .. c PROVE b2[i] = p[Len(p) + i - c]
    <3>1. b2[i] = q[i] /\ q[i] = p[Len(p) - c + i] /\ Len(p) - c + i = Len(p) + i - c
      BY <1>2, <1>3, <1>5, <2>1, <2>3
    <3> QED
      BY <3>1
  <2>5. MovedOn(b, h, c, p, b2, 0)
    <3> SUFFICES ASSUME NEW i \in 1 .. c
                 PROVE  /\ i <= c - 0 /\ b2[0 + i] = p[Len(p) + i - c]
                        /\ ~(Len(p) + i <= c)
      BY DEF MovedOn
    <3>1. i <= c - 0 /\ 0 + i = i /\ ~(Len(p) + i <= c)
      BY <1>2, <1>3, <1>5
    <3> QED
      BY <2>4, <3>1
  <2>6. 0 \in 0 .. c
    BY <1>2
  <2> QED
    BY <1>4, <2>2, <2>3, <2>5, <2>6 DEF w
<1>6. CASE Len(p) < c /\ Len(p) <= c - h
  <2> DEFINE b2 == Copy(b, h, p)
             h2 == IF h + Len(p) = c THEN 0 ELSE h + Len(p)
  <2>1. w = [r EXCEPT !.buf = b2, !.head = h2]
    BY <1>1, <1>2, <1>3, <1>6 DEF Overwrite
  <2> HIDE DEF w
  <2>2. h \in Nat
    BY <1>2
  <2>3. /\ b2 \in Seq(T) /\ Len(b2) = c
        /\ \A i \in 1 .. c : b2[i] = IF h < i /\ i <= h + Len(p) THEN p[i - h] ELSE b[i]
    <3>1. b \in Seq(T) /\ c = Len(b) /\ p \in Seq(T)
      BY <1>2
    <3> QED
      BY ONLY <2>2, <3>1, CopyAt
  <2>4. h2 \in 0 .. c
    BY <1>2, <1>3, <1>6
  <2> HIDE DEF b2
  <2>5. MovedOn(b, h, c, p, b2, h2)
    <3> SUFFICES ASSUME NEW i \in 1 .. c
                 PROVE  (IF i <= c - h2 THEN b2[h2 + i] ELSE b2[i - (c - h2)]) =
                        (IF Len(p) + i <= c
                         THEN IF Len(p) + i <= c - h THEN b[h + Len(p) + i] ELSE b[Len(p) + i - (c - h)]
                         ELSE p[Len(p) + i - c])
      BY DEF MovedOn
    <3>1. CASE i <= c - h2
      <4>1. h2 + i \in 1 .. c
        BY <1>2, <1>3, <1>6, <2>4, <3>1
      <4>2. b2[h2 + i] = IF h < h2 + i /\ h2 + i <= h + Len(p) THEN p[(h2 + i) - h] ELSE b[h2 + i]
        BY <2>3, <4>1
      <4> QED
        BY <1>2, <1>3, <1>6, <2>4, <3>1, <4>1, <4>2
    <3>2. CASE ~(i <= c - h2)
      <4> DEFINE k == i - (c - h2)
      <4>1. k \in 1 .. c
        BY <1>2, <1>3, <1>6, <2>4, <3>2
      <4>2. b2[k] = IF h < k /\ k <= h + Len(p) THEN p[k - h] ELSE b[k]
        BY <2>3, <4>1
      <4> QED
        BY <1>2, <1>3, <1>6, <2>4, <3>2, <4>1, <4>2
    <3> QED
      BY <3>1, <3>2
  <2> QED
    BY <1>4, <2>1, <2>3, <2>4, <2>5 DEF w
<1>7. CASE Len(p) < c /\ Len(p) > c - h
  <2> DEFINE t  == c - h
             p1 == SubSeq(p, 1, t)
             p2 == SubSeq(p, t + 1, Len(p))
             b1 == Copy(b, h, p1)
             b2 == Copy(b1, 0, p2)
             h2 == Len(p) - t
  <2>1. w = [r EXCEPT !.buf = b2, !.head = h2]
    BY <1>1, <1>2, <1>3, <1>7 DEF Overwrite
  <2> HIDE DEF w
  <2>2. h \in Nat /\ 0 \in Nat /\ t \in 0 .. Len(p) /\ 1 <= t + 1 /\ t + 1 \in Nat
    BY <1>2, <1>3, <1>7
  <2>3. /\ p1 \in Seq(T) /\ Len(p1) = t
        /\ \A i \in 1 .. t : p1[i] = p[i]
    <3>1. /\ p1 \in Seq(T) /\ Len(p1) = t - 1 + 1
          /\ \A i \in 1 .. t - 1 + 1 : p1[i] = p[1 + i - 1]
      BY <1>3, <2>2, PartAt
    <3> HIDE DEF p1, t
    <3> QED
      BY <2>2, <3>1
  <2>4. /\ p2 \in Seq(T) /\ Len(p2) = h2
        /\ \A i \in 1 .. h2 : p2[i] = p[t + i]
    <3>1. /\ p2 \in Seq(T) /\ Len(p2) = Len(p) - (t + 1) + 1
          /\ \A i \in 1 .. Len(p) - (t + 1) + 1 : p2[i] = p[(t + 1) + i - 1]
      BY <1>3, <2>2, PartAt
    <3>2. Len(p) - (t + 1) + 1 = h2
      BY <1>3, <2>2
    <3> HIDE DEF p2, t, h2
    <3> QED
      BY <1>3, <2>2, <3>1, <3>2
  <2> HIDE DEF p1, p2
  <2>5. /\ b1 \in Seq(T) /\ Len(b1) = c
        /\ \A i \in 1 .. c : b1[i] = IF h < i THEN p1[i - h] ELSE b[i]
    <3>1. /\ b1 \in Seq(T) /\ Len(b1) = c
          /\ \A i \in 1 .. c : b1[i] = IF h < i /\ i <= h + Len(p1) THEN p1[i - h] ELSE b[i]
      BY <1>2, <2>2, <2>3, CopyAt
    <3>2. h + Len(p1) = c
      BY <1>2, <1>3, <1>7, <2>3
    <3> HIDE DEF b1
    <3> QED
      BY <1>2, <3>1, <3>2
  <2> HIDE DEF b1
  <2>6. /\ b2 \in Seq(T) /\ Len(b2) = c
        /\ \A i \in 1 .. c : b2[i] = IF i <= h2 THEN p2[i] ELSE b1[i]
    <3>1. /\ b2 \in Seq(T) /\ Len(b2) = c
          /\ \A i \in 1 .. c : b2[i] = IF 0 < i /\ i <= 0 + Len(p2) THEN p2[i - 0] ELSE b1[i]
      BY <1>2, <2>2, <2>4, <2>5, CopyAt
    <3>2. 0 + Len(p2) = h2 /\ h2 \in Nat
      BY <1>2, <1>3, <1>7, <2>4
    <3> HIDE DEF b2, h2
    <3> QED
      BY <1>2, <3>1, <3>2
  <2>7. h2 \in 0 .. c
    BY <1>2, <1>3, <1>7
  <2> HIDE DEF b2
  <2>8. ASSUME NEW k \in 1 .. c
        PROVE  b2[k] = IF k <= h2 THEN p[t + k] ELSE IF h < k THEN p[k - h] ELSE b[k]
    <3>0. k - h <= t
      BY <1>2
    <3> HIDE DEF h2, t
    <3>1. CASE k <= h2
      <4>1. k \in 1 .. h2
        BY <1>2, <2>7, <3>1
      <4> QED
        BY <2>4, <2>6, <3>1, <4>1
    <3>2. CASE ~(k <= h2) /\ h < k
      <4>1. b2[k] = b1[k] /\ b1[k] = p1[k - h]
        BY <2>5, <2>6, <3>2
      <4>2. k - h \in 1 .. t
        BY <1>2, <2>2, <3>0, <3>2
      <4> QED
        BY <2>3, <3>2, <4>1, <4>2
    <3>3. CASE ~(k <= h2) /\ ~(h < k)
      BY <2>5, <2>6, <3>3
    <3> QED
      BY <3>1, <3>2, <3>3
  <2>9. MovedOn(b, h, c, p, b2, h2)
    <3> SUFFICES ASSUME NEW i \in 1 .. c
                 PROVE  (IF i <= c - h2 THEN b2[h2 + i] ELSE b2[i - (c - h2)]) =
                        (IF Len(p) + i <= c
                         THEN IF Len(p) + i <= c - h THEN b[h + Len(p) + i] ELSE b[Len(p) + i - (c - h)]
                         ELSE p[Len(p) + i - c])
      BY DEF MovedOn
    <3>1. CASE i <= c - h2
      <4>1. h2 + i \in 1 .. c
        BY <1>2, <1>3, <1>7, <2>7, <3>1
      <4>2. b2[h2 + i] = IF h2 + i <= h2 THEN p[t + (h2 + i)]
                         ELSE IF h < h2 + i THEN p[(h2 + i) - h] ELSE b[h2 + i]
        BY <2>8, <4>1
      <4> QED
        BY <1>2, <1>3, <1>7, <2>7, <3>1, <4>1, <4>2
    <3>2. CASE ~(i <= c - h2)
      <4> DEFINE k == i - (c - h2)
      <4>1. k \in 1 .. c
        BY <1>2, <1>3, <1>7, <2>7, <3>2
      <4>2. b2[k] = IF k <= h2 THEN p[t + k] ELSE IF h < k THEN p[k - h] ELSE b[k]
        BY <2>8, <4>1
      <4> QED
        BY <1>2, <1>3, <1>7, <2>7, <3>2, <4>1, <4>2
    <3> QED
      BY <3>1, <3>2
  <2> QED
    BY <1>4, <2>1, <2>6, <2>7, <2>9 DEF w
<1> QED
  BY <1>2, <1>3, <1>5, <1>6, <1>7

\* Concatenation is associative.
LEMMA ConcatTwice ==
  ASSUME NEW T, NEW a \in Seq(T), NEW b \in Seq(T), NEW c \in Seq(T)
  PROVE  (a \o b) \o c = a \o (b \o c)
BY ConcatAssociative

\* ringBuffer.write keeps the shape of the buffer, and what a snapshot gives after it
\* is the most recent cap units of what it gave before followed by p, for a p of any
\* length and a buffer of any capacity.
THEOREM RingTakesAnyChunk ==
  ASSUME NEW T, NEW r \in RingsOf(T), NEW p \in Seq(T), RingShape(r)
  PROVE  LET w == RingWrite(r, p) IN
         /\ w \in RingsOf(T) /\ RingShape(w) /\ w.cap = r.cap
         /\ Snapshot(w) = LastOf(Snapshot(r) \o p, r.cap)
<1>0. /\ r.cap \in Nat \ {0} /\ r.buf \in Seq(T) /\ r.head \in Nat /\ r.full \in BOOLEAN
      /\ Len(p) \in Nat /\ Len(r.buf) \in Nat
  BY DEF RingsOf
<1>1. CASE r.full
  <2>1. RingWrite(r, p) = Overwrite(r, p)
    BY <1>1 DEF RingWrite
  <2> QED
    BY <1>1, <2>1, OverwriteTail
<1>2. CASE ~r.full /\ Len(r.buf) + Len(p) <= r.cap
  <2> DEFINE n == Len(r.buf) + Len(p)
             b2 == r.buf \o p
             w == RingWrite(r, p)
  <2>1. /\ b2 \in Seq(T) /\ Len(b2) = n
    BY <1>0, ConcatAt
  <2>2. n \in Nat /\ n <= r.cap /\ Snapshot(r) = r.buf
    BY <1>0, <1>2 DEF Snapshot
  <2>3. w = [r EXCEPT !.buf = b2, !.head = n, !.full = n = r.cap]
    BY <1>2 DEF RingWrite, Extend
  <2>4. w = [cap |-> r.cap, buf |-> b2, head |-> n, full |-> n = r.cap]
    BY <2>3 DEF RingsOf
  <2> HIDE DEF b2, w, n
  <2>5. w.cap = r.cap /\ w.buf = b2 /\ w.head = n /\ w.full = (n = r.cap)
    BY <2>4
  <2>6. w \in RingsOf(T)
    BY <1>0, <2>1, <2>2, <2>4 DEF RingsOf
  <2>7. RingShape(w)
    <3>1. Len(w.buf) = n /\ w.head = n /\ w.cap = r.cap
      BY <2>1, <2>5
    <3>2. CASE n = r.cap
      <4>1. w.full = TRUE
        BY <2>5, <3>2
      <4> QED
        BY <1>0, <2>2, <3>1, <3>2, <4>1 DEF RingShape
    <3>3. CASE n # r.cap
      <4>1. w.full = FALSE
        BY <2>5, <3>3
      <4> QED
        BY <1>0, <2>2, <3>1, <3>3, <4>1 DEF RingShape
    <3> QED
      BY <3>2, <3>3
  <2>8. LastOf(b2, r.cap) = b2
    BY <2>1, <2>2 DEF LastOf
  <2>9. Snapshot(w) = b2
    <3>1. CASE n # r.cap
      BY <2>5, <3>1 DEF Snapshot
    <3>2. CASE n = r.cap
      <4>1. Snapshot(w) = SubSeq(b2, n + 1, n) \o SubSeq(b2, 1, n)
        BY <2>5, <3>2 DEF Snapshot
      <4>2. SubSeq(b2, n + 1, n) = <<>>
        BY <2>2, SubSeqEmpty
      <4>3. SubSeq(b2, 1, n) = b2
        BY <2>1, SubSeqFull
      <4>4. <<>> \o b2 = b2
        BY <2>1, ConcatEmptySeq
      <4> QED
        BY <4>1, <4>2, <4>3, <4>4
    <3> QED
      BY <3>1, <3>2
  <2> QED
    BY <2>2, <2>5, <2>6, <2>7, <2>8, <2>9 DEF b2, w
<1>3. CASE ~r.full /\ ~(Len(r.buf) + Len(p) <= r.cap)
  <2> DEFINE need == r.cap - Len(r.buf)
             p1 == SubSeq(p, 1, need)
             p2 == SubSeq(p, need + 1, Len(p))
             f  == [r EXCEPT !.buf = r.buf \o p1, !.head = 0, !.full = TRUE]
  <2>1. RingWrite(r, p) = Overwrite(f, p2)
    BY <1>3 DEF RingWrite
  <2>2. need \in 0 .. Len(p) /\ 1 <= need + 1 /\ need + 1 \in Nat /\ Len(r.buf) + need = r.cap
    BY <1>0, <1>3 DEF RingShape
  <2>3. p1 \in Seq(T) /\ Len(p1) = need /\ p2 \in Seq(T) /\ p1 \o p2 = p
    <3>1. p1 \in Seq(T) /\ Len(p1) = need - 1 + 1
      BY <1>0, <2>2, PartAt
    <3>2. p2 \in Seq(T)
      BY <1>0, <2>2, PartAt
    <3>3. p1 \o p2 = p
      <4>1. p1 \o p2 = SubSeq(p, 1, Len(p))
        <5>1. 1 \in 1 .. Len(p) + 1 /\ need \in 1 - 1 .. Len(p) /\ Len(p) \in need .. Len(p)
          BY <1>0, <2>2
        <5> QED
          BY <5>1, ConcatAdjacentSubSeq
      <4> QED
        BY <4>1, SubSeqFull
    <3>4. Len(p1) = need
      BY <2>2, <3>1
    <3> HIDE DEF p1, p2, need
    <3> QED
      BY <3>1, <3>2, <3>3, <3>4
  <2>4. r.buf \o p1 \in Seq(T) /\ Len(r.buf \o p1) = r.cap
    BY <1>0, <2>2, <2>3, ConcatAt
  <2> HIDE DEF p1, p2
  <2>5. f = [cap |-> r.cap, buf |-> r.buf \o p1, head |-> 0, full |-> TRUE]
    <3> DEFINE b1 == r.buf \o p1
    <3>1. f = [r EXCEPT !.buf = b1, !.head = 0, !.full = TRUE]
      OBVIOUS
    <3> HIDE DEF b1, f
    <3>2. f = [cap |-> r.cap, buf |-> b1, head |-> 0, full |-> TRUE]
      BY <3>1 DEF RingsOf
    <3> QED
      BY <3>2 DEF b1
  <2> HIDE DEF f
  <2>6. f.cap = r.cap /\ f.buf = r.buf \o p1 /\ f.head = 0 /\ f.full = TRUE
    BY <2>5
  <2>7. f \in RingsOf(T)
    BY <1>0, <2>4, <2>5 DEF RingsOf
  <2>8. RingShape(f)
    BY <1>0, <2>4, <2>6 DEF RingShape
  <2>9. Snapshot(f) = r.buf \o p1
    <3>1. Snapshot(f) = SubSeq(r.buf \o p1, 0 + 1, r.cap) \o SubSeq(r.buf \o p1, 1, 0)
      BY <2>6 DEF Snapshot
    <3>2. SubSeq(r.buf \o p1, 1, 0) = <<>>
      BY SubSeqEmpty
    <3>3. SubSeq(r.buf \o p1, 0 + 1, r.cap) = r.buf \o p1
      BY <2>4, SubSeqFull
    <3>4. (r.buf \o p1) \o <<>> = r.buf \o p1
      BY <2>4, ConcatEmptySeq
    <3> QED
      BY <3>1, <3>2, <3>3, <3>4
  <2>10. (r.buf \o p1) \o p2 = r.buf \o p
    <3>1. r.buf \in Seq(T) /\ p1 \in Seq(T) /\ p2 \in Seq(T)
      BY <1>0, <2>3
    <3>2. (r.buf \o p1) \o p2 = r.buf \o (p1 \o p2)
      <4> DEFINE a == r.buf
      <4>1. a \in Seq(T)
        BY <3>1
      <4> HIDE DEF a
      <4>2. (a \o p1) \o p2 = a \o (p1 \o p2)
        BY ONLY <4>1, <3>1, ConcatTwice
      <4> QED
        BY <4>2 DEF a
    <3> QED
      BY <2>3, <3>2
  <2>11. LET w == Overwrite(f, p2) IN
         /\ w \in RingsOf(T) /\ RingShape(w) /\ w.cap = f.cap
         /\ Snapshot(w) = LastOf(Snapshot(f) \o p2, f.cap)
    BY <2>3, <2>6, <2>7, <2>8, OverwriteTail
  <2>12. Snapshot(r) = r.buf
    BY <1>3 DEF Snapshot
  <2> QED
    BY <2>1, <2>6, <2>9, <2>10, <2>11, <2>12
<1> QED
  BY <1>0, <1>1, <1>2, <1>3

-----------------------------------------------------------------------------
(* Type correctness.                                                        *)

\* The frames the host writes are frames.
LEMMA FrameTypes ==
  /\ AckFrame \in Frame /\ RejectFrame \in Frame /\ ExitFrame \in Frame
  /\ \A r \in Seq(Nat) : ReplayFrame(r) \in Frame
  /\ \A n \in Nat : DataFrame(n) \in Frame
<1>1. <<>> \in Seq(Nat) /\ \A n \in Nat : <<n>> \in Seq(Nat)
  OBVIOUS
<1> QED
  BY <1>1 DEF Frame, AckFrame, RejectFrame, ExitFrame, ReplayFrame, DataFrame

\* wire.Write keeps the log of a stream a sequence of frames.
LEMMA WrittenType ==
  ASSUME TypeOK, NEW s \in Stream, NEW f \in Frame
  PROVE  Written(s, f) \in Seq(Frame)
BY DEF TypeOK, Written

\* A ring of a Manager is a ring buffer of RingCap chunks.
LEMMA RingFields ==
  ASSUME NEW r \in Ring
  PROVE  /\ r \in RingsOf(Nat) /\ r.cap = RingCap /\ r.buf \in Seq(Nat)
         /\ r.head \in Nat /\ r.full \in BOOLEAN /\ Len(r.buf) \in Nat
BY ConstAssumption DEF Ring, RingsOf

\* The other way round.
LEMMA RingIn ==
  ASSUME NEW r \in RingsOf(Nat), r.cap = RingCap
  PROVE  r \in Ring
BY DEF Ring, RingsOf

\* ringBuffer.write of one chunk keeps the ring a ring; a snapshot gains the chunk.
LEMMA RingWriteType ==
  ASSUME NEW r \in Ring, RingShape(r), NEW n \in Nat
  PROVE  /\ RingWrite(r, <<n>>) \in Ring /\ RingShape(RingWrite(r, <<n>>))
         /\ Snapshot(RingWrite(r, <<n>>)) = LastOf(Snapshot(r) \o <<n>>, RingCap)
<1> DEFINE w == RingWrite(r, <<n>>)
<1>1. <<n>> \in Seq(Nat)
  OBVIOUS
<1>2. r \in RingsOf(Nat) /\ r.cap = RingCap
  BY RingFields
<1>3. /\ w \in RingsOf(Nat) /\ RingShape(w) /\ w.cap = r.cap
      /\ Snapshot(w) = LastOf(Snapshot(r) \o <<n>>, r.cap)
  BY ONLY <1>1, <1>2, RingShape(r), RingTakesAnyChunk
<1> HIDE DEF w
<1>4. w \in Ring
  BY <1>2, <1>3, RingIn
<1> QED
  BY <1>2, <1>3, <1>4 DEF w

\* A snapshot is a sequence of chunks.
LEMMA SnapshotType ==
  ASSUME NEW r \in Ring, RingShape(r)
  PROVE  Snapshot(r) \in Seq(Nat)
<1>1. /\ r.buf \in Seq(Nat) /\ r.head \in Nat /\ r.cap = RingCap
      /\ r.full => Len(r.buf) = r.cap /\ r.head <= r.cap
  BY RingFields DEF RingShape
<1>2. CASE r.full
  <2>1. SubSeq(r.buf, r.head + 1, r.cap) \in Seq(Nat) /\ SubSeq(r.buf, 1, r.head) \in Seq(Nat)
    BY <1>1, <1>2, ConstAssumption, PartAt
  <2> QED
    BY <1>2, <2>1, ConcatAt DEF Snapshot
<1>3. CASE ~r.full
  BY <1>1, <1>3 DEF Snapshot
<1> QED
  BY <1>2, <1>3

\* Every initial state is well typed.
LEMMA InitType == Init => TypeOK
<1> SUFFICES ASSUME Init PROVE TypeOK
  OBVIOUS
<1>1. <<>> \in Seq(Nat) /\ <<>> \in Seq(Frame)
  OBVIOUS
<1>2. 0 \in 0 .. IdleTimeout + 1
  BY ConstAssumption
<1>0. newRingBuffer(RingCap) \in Ring
  BY <1>1, ConstAssumption DEF Ring, newRingBuffer
<1>3. /\ ring \in [Handle -> Ring] /\ replay \in [Stream -> Seq(Nat)]
      /\ wire \in [Stream -> Seq(Frame)] /\ idle \in [Handle -> 0 .. IdleTimeout + 1]
  BY <1>0, <1>1, <1>2 DEF Init
<1> QED
  BY <1>3 DEF Init, TypeOK, PumpStates, HandlerStates, HoldsSession, Registering

\* Every step of a client preserves the types.
LEMMA ClientStepType ==
  ASSUME TypeOK, NEW s \in Stream, ClientStep(s)
  PROVE  TypeOK'
<1> USE DEF TypeOK, HandlerStates, HoldsSession, Registering, mgrVars, sinkVars,
        outVars, pumpVars, procVars, sessVars, bindVars, streamVars
<1>1. CASE OpenFails(s)
  BY <1>1, WrittenType, FrameTypes DEF OpenFails
<1>2. ASSUME NEW h \in Handle, RegisterInsert(s, h) PROVE TypeOK'
  BY <1>2, ConstAssumption, SMTT(30) DEF RegisterInsert
<1>3. ASSUME NEW h \in Handle, RegisterClosed(s, h) PROVE TypeOK'
  BY <1>3 DEF RegisterClosed
<1>4. ASSUME NEW h \in Handle, AttachReject(s, h) PROVE TypeOK'
  BY <1>4, WrittenType, FrameTypes DEF AttachReject
<1>5. ASSUME NEW h \in Handle, AttachLookup(s, h) PROVE TypeOK'
  BY <1>5 DEF AttachLookup
<1>6. CASE PeerStep(s)
  BY <1>6 DEF PeerStep
<1>7. CASE ReadFrame(s)
  BY <1>7, ConstAssumption DEF ReadFrame
<1>8. CASE InputTaken(s)
  BY <1>8 DEF InputTaken
<1> QED
  BY <1>1, <1>2, <1>3, <1>4, <1>5, <1>6, <1>7, <1>8 DEF ClientStep

\* addSinkLocked keeps the types of what it changes.
LEMMA AddSinkType ==
  ASSUME TypeOK, NEW h \in Handle, NEW s \in Stream, AddSink(h, s)
  PROVE  /\ sinks' \in [Handle -> SUBSET (Nat \X Stream)]
         /\ nextSink' \in [Handle -> Nat]
         /\ token' \in [Stream -> Nat]
<1> DEFINE t == nextSink[h] + 1
<1>1. t \in Nat
  BY DEF TypeOK
<1>2. {p \in sinks[h] : p[1] # t} \cup {<<t, s>>} \in SUBSET (Nat \X Stream)
  BY <1>1 DEF TypeOK
<1> QED
  BY <1>1, <1>2 DEF TypeOK, AddSink

\* Every step of a stream handler preserves the types.
LEMMA HandlerStepType ==
  ASSUME TypeOK, RingOK, NEW s \in Stream, HandlerStep(s)
  PROVE  TypeOK'
<1> USE DEF TypeOK, HandlerStates, HoldsSession, Registering, mgrVars, sinkVars,
        outVars, pumpVars, procVars, sessVars, bindVars, streamVars
<1>0. pc[s] \in HoldsSession => sess[s] \in Handle
  OBVIOUS
<1>1. CASE RegisterSink(s)
  <2>1. sess[s] \in Handle
    BY <1>0, <1>1 DEF RegisterSink
  <2>2. /\ sinks' \in [Handle -> SUBSET (Nat \X Stream)]
        /\ nextSink' \in [Handle -> Nat] /\ token' \in [Stream -> Nat]
    BY <1>1, <2>1, AddSinkType DEF RegisterSink
  <2> QED
    BY <1>1, <2>2 DEF RegisterSink
<1>2. CASE RegisterCount(s)
  <2>1. sess[s] \in Handle
    BY <1>0, <1>2 DEF RegisterCount
  <2>2. /\ attachCount' \in [Handle -> Nat] /\ idle' \in [Handle -> 0 .. IdleTimeout + 1]
        /\ pump' \in [Handle -> PumpStates]
    BY <1>2, <2>1, ConstAssumption DEF RegisterCount, PumpStates
  <2> QED
    BY <1>2, <2>2 DEF RegisterCount
<1>3. CASE AttachSink(s)
  <2>1. sess[s] \in Handle
    BY <1>0, <1>3 DEF AttachSink
  <2>2. /\ sinks' \in [Handle -> SUBSET (Nat \X Stream)]
        /\ nextSink' \in [Handle -> Nat] /\ token' \in [Stream -> Nat]
    BY <1>3, <2>1, AddSinkType DEF AttachSink
  <2>3. replay' \in [Stream -> Seq(Nat)]
    <3>1. Snapshot(ring[sess[s]]) \in Seq(Nat)
      BY <2>1, SnapshotType DEF RingOK
    <3> QED
      BY <1>3, <3>1 DEF AttachSink
  <2> QED
    BY <1>3, <2>2, <2>3 DEF AttachSink
<1>4. CASE AttachCount(s)
  <2>1. sess[s] \in Handle
    BY <1>0, <1>4 DEF AttachCount
  <2>2. attachCount' \in [Handle -> Nat] /\ idle' \in [Handle -> 0 .. IdleTimeout + 1]
    BY <1>4, <2>1, ConstAssumption DEF AttachCount
  <2> QED
    BY <1>4, <2>2 DEF AttachCount
<1>5. CASE AckReplay(s)
  <2>1. Written(s, AckFrame) \in Seq(Frame)
    BY WrittenType, FrameTypes
  <2>2. ReplayFrame(replay[s]) \in Frame
    BY FrameTypes
  <2>3. Append(Written(s, AckFrame), ReplayFrame(replay[s])) \in Seq(Frame)
    BY <2>1, <2>2
  <2>4. wire' \in [Stream -> Seq(Frame)]
    BY <1>5, <2>1, <2>3 DEF AckReplay
  <2> QED
    BY <1>5, <2>4 DEF AckReplay
<1>6. CASE ReadEnds(s)
  BY <1>6 DEF ReadEnds
<1>7. CASE DetachLookup(s)
  BY <1>7 DEF DetachLookup
<1>8. CASE DetachSink(s)
  BY <1>8 DEF DetachSink
<1>9. CASE DetachCount(s)
  BY <1>9, ConstAssumption, SMTT(30) DEF DetachCount
<1>10. CASE AttachResize(s)
  BY <1>10 DEF AttachResize
<1>11. CASE InputLock(s)
  BY <1>11 DEF InputLock
<1> QED
  BY <1>1, <1>2, <1>3, <1>4, <1>5, <1>6, <1>7, <1>8, <1>9, <1>10, <1>11 DEF HandlerStep

\* FanOut keeps the types of what it changes.
LEMMA FanOutType ==
  ASSUME TypeOK, NEW h \in Handle, NEW S \in SUBSET Stream,
         NEW during \in PumpStates, NEW after \in PumpStates,
         FanOut(h, S, during, after)
  PROVE  /\ pump' \in [Handle -> PumpStates]
         /\ fan' \in [Handle -> SUBSET Stream]
         /\ writing' \in [Handle -> Stream \cup {NoStream}]
<1>1. CASE /\ writing' = [writing EXCEPT ![h] = NoStream]
           /\ fan' = [fan EXCEPT ![h] = {}]
           /\ pump' = [pump EXCEPT ![h] = after]
  BY <1>1 DEF TypeOK
<1>2. ASSUME NEW s \in S,
             writing' = [writing EXCEPT ![h] = s],
             fan' = [fan EXCEPT ![h] = S \ {s}],
             pump' = [pump EXCEPT ![h] = during]
      PROVE  /\ pump' \in [Handle -> PumpStates]
             /\ fan' \in [Handle -> SUBSET Stream]
             /\ writing' \in [Handle -> Stream \cup {NoStream}]
  BY <1>2 DEF TypeOK
<1> QED
  BY <1>1, <1>2 DEF FanOut

\* Every step on one session preserves the types.
LEMMA SessionStepType ==
  ASSUME TypeOK, RingOK, NEW h \in Handle,
         PumpStep(h) \/ PumpData(h) \/ ChildWatcher(h) \/ ChildExit(h) \/ Drop(h) \/ CloseSession(h)
  PROVE  TypeOK'
<1> USE DEF TypeOK, mgrVars, sinkVars, outVars, pumpVars, procVars, sessVars,
        bindVars, streamVars
<1>0. SinkStreams(h) \in SUBSET Stream
  BY DEF SinkStreams
<1>1. CASE ChildWatcher(h)
  BY <1>1 DEF ChildWatcher
<1>2. CASE PumpData(h)
  <2>1. RingWrite(ring[h], <<out[h] + 1>>) \in Ring
    <3>1. ring[h] \in Ring /\ RingShape(ring[h]) /\ out[h] + 1 \in Nat
      BY DEF RingOK
    <3> QED
      BY <3>1, RingWriteType
  <2>2. FanOut(h, SinkStreams(h), "data", "read")
    BY <1>2 DEF PumpData
  <2>3. /\ pump' \in [Handle -> PumpStates] /\ fan' \in [Handle -> SUBSET Stream]
        /\ writing' \in [Handle -> Stream \cup {NoStream}]
    BY <1>0, <2>2, FanOutType DEF PumpStates
  <2> QED
    <3>1. ring' \in [Handle -> Ring] /\ out' \in [Handle -> Nat]
      BY <1>2, <2>1 DEF PumpData
    <3> QED
      BY <1>2, <2>3, <3>1 DEF PumpData
<1>3. CASE PumpExit(h)
  <2>1. FanOut(h, SinkStreams(h), "exit", "remove")
    BY <1>3 DEF PumpExit
  <2>2. /\ pump' \in [Handle -> PumpStates] /\ fan' \in [Handle -> SUBSET Stream]
        /\ writing' \in [Handle -> Stream \cup {NoStream}]
    BY <1>0, <2>1, FanOutType DEF PumpStates
  <2> QED
    BY <1>3, <2>2 DEF PumpExit
<1>4. CASE SinkWrite(h)
  <2>1. writing[h] \in Stream
    BY <1>4 DEF SinkWrite
  <2>2. \E after \in PumpStates : FanOut(h, fan[h], pump[h], after)
    BY <1>4 DEF SinkWrite, PumpStates
  <2>3. /\ pump' \in [Handle -> PumpStates] /\ fan' \in [Handle -> SUBSET Stream]
        /\ writing' \in [Handle -> Stream \cup {NoStream}]
    BY <2>2, FanOutType
  <2>4. Written(writing[h], IF pump[h] = "data" THEN DataFrame(out[h]) ELSE ExitFrame) \in Seq(Frame)
    BY <2>1, WrittenType, FrameTypes
  <2>5. wire' \in [Stream -> Seq(Frame)]
    BY <1>4, <2>4 DEF SinkWrite
  <2> QED
    BY <1>4, <2>3, <2>5 DEF SinkWrite
<1>5. CASE PumpRemove(h)
  BY <1>5 DEF PumpRemove, PumpStates
<1>6. CASE ChildExit(h)
  BY <1>6 DEF ChildExit
<1>7. CASE Drop(h)
  BY <1>7 DEF Drop
<1>8. CASE CloseSession(h)
  BY <1>8 DEF CloseSession
<1> QED
  BY <1>1, <1>2, <1>3, <1>4, <1>5, <1>6, <1>7, <1>8 DEF PumpStep

\* Sweep, Close and the clock preserve the types.
LEMMA ManagerStepType ==
  ASSUME TypeOK, Sweep \/ ManagerClose \/ Tick
  PROVE  TypeOK'
<1> USE DEF TypeOK, mgrVars, sessVars, streamVars, sinkVars, outVars, pumpVars,
        procVars, bindVars
<1>1. CASE Sweep
  BY <1>1 DEF Sweep, Expired
<1>2. CASE ManagerClose
  BY <1>2 DEF ManagerClose
<1>3. CASE Tick
  <2>1. ASSUME NEW h \in Handle
        PROVE  (IF idle[h] <= IdleTimeout THEN idle[h] + 1 ELSE idle[h]) \in 0 .. IdleTimeout + 1
    BY ConstAssumption
  <2>2. idle' \in [Handle -> 0 .. IdleTimeout + 1]
    BY <1>3, <2>1 DEF Tick
  <2> QED
    BY <1>3, <2>2 DEF Tick
<1> QED
  BY <1>1, <1>2, <1>3

\* Only dispatchData writes a ring, and the number of the latest chunk.
LEMMA RingSteps ==
  ASSUME [Next]_vars
  PROVE  UNCHANGED <<ring, out>> \/ \E h \in Handle : PumpData(h)
<1> USE DEF mgrVars, sinkVars, outVars, pumpVars, procVars, sessVars, bindVars, streamVars
<1>1. ASSUME NEW s \in Stream, ClientStep(s) PROVE UNCHANGED <<ring, out>>
  BY <1>1 DEF ClientStep, OpenFails, ReadFrame, InputTaken, PeerStep, RegisterInsert,
     RegisterClosed, AttachReject, AttachLookup
<1>2. ASSUME NEW s \in Stream, HandlerStep(s) PROVE UNCHANGED <<ring, out>>
  BY <1>2 DEF HandlerStep, RegisterSink, RegisterCount, AttachSink, AttachCount, AttachResize,
     AckReplay, ReadEnds, InputLock, DetachLookup, DetachSink, DetachCount
<1>3. ASSUME NEW h \in Handle,
             PumpStep(h) \/ ChildWatcher(h) \/ ChildExit(h) \/ Drop(h) \/ CloseSession(h)
      PROVE  UNCHANGED <<ring, out>>
  BY <1>3 DEF PumpStep, PumpExit, SinkWrite, PumpRemove, ChildWatcher, ChildExit, Drop,
     CloseSession
<1>4. CASE Sweep \/ ManagerClose \/ Tick
  BY <1>4 DEF Sweep, ManagerClose, Tick
<1>5. CASE UNCHANGED vars
  BY <1>5 DEF vars
<1> QED
  BY <1>1, <1>2, <1>3, <1>4, <1>5 DEF Next

\* ringBuffer.write keeps the shape of the rings.
LEMMA NextShape == TypeOK /\ RingOK /\ [Next]_vars => RingOK'
<1> SUFFICES ASSUME TypeOK, RingOK, [Next]_vars PROVE RingOK'
  OBVIOUS
<1>1. CASE UNCHANGED ring
  BY <1>1 DEF RingOK
<1>2. ASSUME NEW h \in Handle, PumpData(h) PROVE RingOK'
  <2>1. ring[h] \in Ring /\ RingShape(ring[h]) /\ out[h] + 1 \in Nat
    BY DEF TypeOK, RingOK
  <2>2. RingShape(RingWrite(ring[h], <<out[h] + 1>>))
    BY <2>1, RingWriteType
  <2>3. ring' = [ring EXCEPT ![h] = RingWrite(ring[h], <<out[h] + 1>>)]
    BY <1>2 DEF PumpData
  <2>4. \A g \in Handle : ring'[g] = IF g = h THEN RingWrite(ring[h], <<out[h] + 1>>) ELSE ring[g]
    BY <2>3 DEF TypeOK
  <2> QED
    BY <2>2, <2>4 DEF RingOK
<1> QED
  BY <1>1, <1>2, RingSteps

\* A step of Next, or a stuttering step, preserves the types.
LEMMA NextType == TypeOK /\ RingOK /\ [Next]_vars => TypeOK'
<1> SUFFICES ASSUME TypeOK, RingOK, [Next]_vars PROVE TypeOK'
  OBVIOUS
<1>1. CASE Next
  BY <1>1, ClientStepType, HandlerStepType, SessionStepType, ManagerStepType DEF Next
<1>2. CASE UNCHANGED vars
  BY <1>2 DEF TypeOK, vars, mgrVars, sinkVars, outVars, pumpVars, procVars,
     sessVars, bindVars, streamVars
<1> QED
  BY <1>1, <1>2

\* The ring buffers of the sessions keep their shape.
LEMMA Typed == Spec => [](TypeOK /\ RingOK)
<1>1. Init => RingOK
  BY ConstAssumption DEF Init, RingOK, RingShape, newRingBuffer
<1> QED
  BY <1>1, InitType, NextType, NextShape, PTL DEF Spec

\* Every variable of the persisted-PTY model keeps its type, and a handler that
\* is about to use a Session holds one (servePTYStream, Register, Attach).
THEOREM TypeCorrect == Spec => []TypeOK
BY Typed, PTL

-----------------------------------------------------------------------------
(* Who is bound to which session: BindInv is inductive relative to TypeOK.  *)

\* Initially nothing is bound.
LEMMA InitBind == Init => BindInv
BY ConstAssumption DEF Init, BindInv, SinkTableOK, BoundOK, OpenOK, FanOK, Bound,
   Registering, SinkMuFree, SinkStreams

\* The handler reads a frame and passes it on, or waits to set the window size:
\* it stays bound and counted, and changes nothing else.
InputStep(s) == ReadFrame(s) \/ InputLock(s) \/ InputTaken(s) \/ AttachResize(s)

LEMMA InputSteps ==
  ASSUME NEW s \in Stream, InputStep(s)
  PROVE  /\ UNCHANGED <<mgrVars, sessVars, bindVars, wire, peer>>
         /\ pc[s] \in {"resize", "loop", "input", "write"}
         /\ \E next \in {"ack", "loop", "input", "write", "detach"} :
              pc' = [pc EXCEPT ![s] = next]
BY DEF InputStep, ReadFrame, InputLock, InputTaken, AttachResize

\* An input changes no binding.
LEMMA InputStepBind ==
  ASSUME TypeOK, BindInv, NEW s \in Stream, InputStep(s)
  PROVE  BindInv'
<1>1. PICK next \in {"ack", "loop", "input", "write", "detach"} :
        pc' = [pc EXCEPT ![s] = next]
  BY InputSteps
<1>2. /\ UNCHANGED <<entries, child, sinks, nextSink, out, pump, fan, writing, sess, token,
                     replay, wire>>
      /\ pc[s] \in {"resize", "loop", "input", "write"}
  BY InputSteps DEF mgrVars, sinkVars, outVars, pumpVars, procVars, sessVars, bindVars
<1>3. SinkTableOK'
  BY <1>1, <1>2 DEF TypeOK, BindInv, SinkTableOK, Bound
<1>4. BoundOK'
  BY <1>1, <1>2 DEF TypeOK, BindInv, BoundOK, Bound
<1>5. OpenOK'
  BY <1>1, <1>2 DEF TypeOK, BindInv, OpenOK, Registering
<1>6. FanOK'
  BY <1>2 DEF BindInv, FanOK, SinkStreams, SinkMuFree
<1> QED
  BY <1>3, <1>4, <1>5, <1>6 DEF BindInv

\* A stream that is still idle opens or asks to reattach.
LEMMA ClientStepBind ==
  ASSUME TypeOK, BindInv, NEW s \in Stream, ClientStep(s)
  PROVE  BindInv'
<1> USE DEF mgrVars, sinkVars, outVars, pumpVars, procVars, sessVars, bindVars,
        streamVars, TypeOK, BindInv
<1>1. ASSUME pc[s] = "idle", UNCHANGED <<sessVars, bindVars>>,
             pc' = [pc EXCEPT ![s] = "closed"], UNCHANGED entries,
             \A u \in Stream \ {s} : wire'[u] = wire[u]
      PROVE  BindInv'
  <2>1. SinkTableOK'
    BY <1>1 DEF SinkTableOK, Bound
  <2>2. BoundOK'
    BY <1>1 DEF BoundOK, Bound
  <2>3. OpenOK'
    BY <1>1 DEF OpenOK, Registering
  <2>4. FanOK'
    BY <1>1 DEF FanOK, SinkStreams, SinkMuFree
  <2> QED
    BY <2>1, <2>2, <2>3, <2>4
<1>2. CASE OpenFails(s)
  BY <1>1, <1>2 DEF OpenFails
<1>3. ASSUME NEW h \in Handle, AttachReject(s, h) PROVE BindInv'
  BY <1>1, <1>3 DEF AttachReject
<1>4. ASSUME NEW h \in Handle, RegisterInsert(s, h) PROVE BindInv'
  <2>1. SinkTableOK'
    BY <1>4, SMTT(30) DEF RegisterInsert, SinkTableOK, Bound
  <2>2. BoundOK'
    BY <1>4 DEF RegisterInsert, BoundOK, Bound
  <2>3. OpenOK'
    BY <1>4, SMTT(30) DEF RegisterInsert, OpenOK, Registering
  <2>4. FanOK'
    BY <1>4 DEF RegisterInsert, FanOK, SinkStreams, SinkMuFree
  <2> QED
    BY <2>1, <2>2, <2>3, <2>4
<1>5. ASSUME NEW h \in Handle, RegisterClosed(s, h) PROVE BindInv'
  <2>1. SinkTableOK'
    BY <1>5, SMTT(30) DEF RegisterClosed, SinkTableOK, Bound
  <2>2. BoundOK'
    BY <1>5 DEF RegisterClosed, BoundOK, Bound
  <2>3. OpenOK'
    BY <1>5 DEF RegisterClosed, OpenOK, Registering
  <2>4. FanOK'
    BY <1>5 DEF RegisterClosed, FanOK, SinkStreams, SinkMuFree
  <2> QED
    BY <2>1, <2>2, <2>3, <2>4
<1>6. ASSUME NEW h \in Handle, AttachLookup(s, h) PROVE BindInv'
  <2>1. SinkTableOK'
    BY <1>6, SMTT(30) DEF AttachLookup, SinkTableOK, Bound
  <2>2. BoundOK'
    BY <1>6 DEF AttachLookup, BoundOK, Bound
  <2>3. OpenOK'
    BY <1>6 DEF AttachLookup, OpenOK, Registering
  <2>4. FanOK'
    BY <1>6 DEF AttachLookup, FanOK, SinkStreams, SinkMuFree
  <2> QED
    BY <2>1, <2>2, <2>3, <2>4
<1>7. CASE PeerStep(s)
  BY <1>7 DEF PeerStep, SinkTableOK, BoundOK, OpenOK, FanOK, SinkStreams, SinkMuFree
<1>8. CASE InputStep(s)
  BY <1>8, InputStepBind
<1> QED
  BY <1>2, <1>3, <1>4, <1>5, <1>6, <1>7, <1>8 DEF ClientStep, InputStep

\* addSinkLocked installs the sink of a stream that had none, under a new token.
LEMMA AddSinkBind ==
  ASSUME TypeOK, BindInv, NEW s \in Stream, NEW h \in Handle,
         sess[s] = h, pc[s] \in {"regSink", "attSink"}, SinkMuFree(h), AddSink(h, s),
         NEW next \in Bound, pc' = [pc EXCEPT ![s] = next], sess' = sess
  PROVE  /\ SinkTableOK'
         /\ \A u \in Stream : pc'[u] \in Bound /\ sess'[u] # NoHandle
              => <<token'[u], u>> \in sinks'[sess'[u]]
         /\ \A g \in Handle : sinks'[g] = IF g = h
              THEN sinks[g] \cup {<<nextSink[g] + 1, s>>} ELSE sinks[g]
<1> DEFINE t == nextSink[h] + 1
<1>0. ASSUME NEW g \in Handle, NEW p \in sinks[g]
      PROVE  p[1] \in Nat /\ p[2] \in Stream /\ p[2] # s /\ p[1] <= nextSink[g]
  <2>1. p \in Nat \X Stream
    BY DEF TypeOK
  <2>2. pc[p[2]] \in Bound \cup {"closed"} /\ p[1] <= nextSink[g]
    BY DEF BindInv, SinkTableOK
  <2>3. pc[s] \notin Bound \cup {"closed"}
    BY DEF Bound
  <2> QED
    BY <2>1, <2>2, <2>3
<1>1. \A p \in sinks[h] : p[1] # t /\ p[2] # s
  BY <1>0 DEF TypeOK
<1>2. {p \in sinks[h] : p[1] # t} = sinks[h]
  BY <1>1
<1>3. \A g \in Handle : sinks'[g] = IF g = h THEN sinks[h] \cup {<<t, s>>} ELSE sinks[g]
  BY <1>2 DEF AddSink, TypeOK
<1>4. \A u \in Stream : token'[u] = IF u = s THEN t ELSE token[u]
  BY DEF AddSink, TypeOK
<1>5. \A g \in Handle : nextSink'[g] = IF g = h THEN t ELSE nextSink[g]
  BY DEF AddSink, TypeOK
<1>6. \A g \in Handle : \A p \in sinks[g] : p[2] \in Stream /\ p[2] # s /\ p[1] \in Nat
  BY <1>0
<1>7. ASSUME NEW g \in Handle, NEW p \in sinks'[g]
      PROVE  /\ p[1] <= nextSink'[g]
             /\ sess'[p[2]] = g /\ token'[p[2]] = p[1]
             /\ pc'[p[2]] \in Bound \cup {"closed"}
             /\ \A q \in sinks'[g] : p[1] = q[1] => p = q
  <2>0. t \in Nat /\ nextSink[g] \in Nat
    BY DEF TypeOK
  <2>1. CASE p \in sinks[g]
    <3>1. /\ p[1] <= nextSink[g] /\ sess[p[2]] = g /\ token[p[2]] = p[1]
          /\ pc[p[2]] \in Bound \cup {"closed"}
          /\ \A q \in sinks[g] : p[1] = q[1] => p = q
      BY <2>1 DEF BindInv, SinkTableOK
    <3>2. p[2] \in Stream /\ p[2] # s /\ p[1] \in Nat
      BY <1>6, <2>1
    <3>3. p[1] <= nextSink'[g]
      BY <1>5, <2>0, <3>1, <3>2
    <3>4. sess'[p[2]] = g /\ token'[p[2]] = p[1] /\ pc'[p[2]] \in Bound \cup {"closed"}
      BY <1>4, <3>1, <3>2 DEF TypeOK
    <3>5. \A q \in sinks'[g] : p[1] = q[1] => p = q
      BY <1>1, <1>3, <2>1, <3>1
    <3> QED
      BY <3>3, <3>4, <3>5
  <2>2. CASE p \notin sinks[g]
    <3>1. g = h /\ p = <<t, s>>
      BY <1>3, <2>2
    <3>2. p[1] = t /\ p[2] = s
      BY <3>1
    <3>3. p[1] <= nextSink'[g]
      BY <1>5, <2>0, <3>1, <3>2
    <3>4. sess'[p[2]] = g /\ token'[p[2]] = p[1] /\ pc'[p[2]] \in Bound \cup {"closed"}
      BY <1>4, <3>1, <3>2 DEF TypeOK
    <3>5. \A q \in sinks'[g] : p[1] = q[1] => p = q
      BY <1>1, <1>3, <3>1, <3>2
    <3> QED
      BY <3>3, <3>4, <3>5
  <2> QED
    BY <2>1, <2>2
<1>8. SinkTableOK'
  BY <1>7 DEF SinkTableOK
<1>9. ASSUME NEW u \in Stream, pc'[u] \in Bound, sess'[u] # NoHandle
      PROVE  <<token'[u], u>> \in sinks'[sess'[u]]
  <2>1. sess[u] \in Handle
    BY <1>9 DEF TypeOK
  <2>2. CASE u = s
    BY <1>3, <1>4, <2>2
  <2>3. CASE u # s
    <3>1. pc[u] \in Bound
      BY <1>9, <2>3 DEF TypeOK
    <3>2. <<token[u], u>> \in sinks[sess[u]]
      BY <1>9, <3>1 DEF BindInv, BoundOK
    <3> QED
      BY <1>3, <1>4, <2>1, <2>3, <3>2
  <2> QED
    BY <2>2, <2>3
<1> QED
  BY <1>3, <1>8, <1>9

\* The steps of a stream handler preserve BindInv.
LEMMA HandlerStepBind ==
  ASSUME TypeOK, BindInv, NEW s \in Stream, HandlerStep(s)
  PROVE  BindInv'
<1> USE DEF mgrVars, sinkVars, outVars, pumpVars, procVars, sessVars, bindVars,
        streamVars, TypeOK, BindInv
<1>1. CASE RegisterSink(s)
  <2>0. sess[s] \in Handle
    BY <1>1 DEF RegisterSink, HoldsSession, Registering
  <2>1. /\ SinkTableOK'
        /\ \A u \in Stream : pc'[u] \in Bound /\ sess'[u] # NoHandle
             => <<token'[u], u>> \in sinks'[sess'[u]]
        /\ \A g \in Handle : sinks'[g] = IF g = sess[s]
             THEN sinks[g] \cup {<<nextSink[g] + 1, s>>} ELSE sinks[g]
    <3>1. /\ pc[s] \in {"regSink", "attSink"} /\ SinkMuFree(sess[s]) /\ AddSink(sess[s], s)
          /\ pc' = [pc EXCEPT ![s] = "regCount"] /\ sess' = sess /\ "regCount" \in Bound
      BY <1>1 DEF RegisterSink, Bound
    <3> HIDE DEF TypeOK, BindInv
    <3> QED
      BY <2>0, <3>1, AddSinkBind
  <2>2. BoundOK'
    BY <1>1, <2>1 DEF RegisterSink, BoundOK, Bound
  <2>3. OpenOK'
    BY <1>1 DEF RegisterSink, OpenOK, Registering
  <2>4. FanOK'
    <3>1. \A g \in Handle : SinkStreams(g) \subseteq SinkStreams(g)'
      BY <2>1, ZenonT(30) DEF SinkStreams
    <3> QED
      BY <1>1, <2>0, <3>1 DEF RegisterSink, FanOK, SinkMuFree
  <2> QED
    BY <2>1, <2>2, <2>3, <2>4
<1>2. CASE RegisterCount(s)
  <2>1. SinkTableOK'
    BY <1>2 DEF RegisterCount, SinkTableOK, Bound, HoldsSession
  <2>2. BoundOK'
    BY <1>2 DEF RegisterCount, BoundOK, Bound, HoldsSession
  <2>3. OpenOK'
    BY <1>2, SMTT(30) DEF RegisterCount, OpenOK, Registering, HoldsSession
  <2>4. FanOK'
    BY <1>2, SMTT(30) DEF RegisterCount, FanOK, OpenOK, SinkStreams, SinkMuFree, HoldsSession, Registering
  <2> QED
    BY <2>1, <2>2, <2>3, <2>4
<1>3. CASE AttachSink(s)
  <2>0. sess[s] \in Handle
    BY <1>3 DEF AttachSink, HoldsSession, Registering
  <2>1. /\ SinkTableOK'
        /\ \A u \in Stream : pc'[u] \in Bound /\ sess'[u] # NoHandle
             => <<token'[u], u>> \in sinks'[sess'[u]]
        /\ \A g \in Handle : sinks'[g] = IF g = sess[s]
             THEN sinks[g] \cup {<<nextSink[g] + 1, s>>} ELSE sinks[g]
    <3>1. /\ pc[s] \in {"regSink", "attSink"} /\ SinkMuFree(sess[s]) /\ AddSink(sess[s], s)
          /\ pc' = [pc EXCEPT ![s] = "attCount"] /\ sess' = sess /\ "attCount" \in Bound
      BY <1>3 DEF AttachSink, Bound
    <3> HIDE DEF TypeOK, BindInv
    <3> QED
      BY <2>0, <3>1, AddSinkBind
  <2>2. BoundOK'
    BY <1>3, <2>1 DEF AttachSink, BoundOK, Bound
  <2>3. OpenOK'
    BY <1>3 DEF AttachSink, OpenOK, Registering
  <2>4. FanOK'
    <3>1. \A g \in Handle : SinkStreams(g) \subseteq SinkStreams(g)'
      BY <2>1, ZenonT(30) DEF SinkStreams
    <3> QED
      BY <1>3, <2>0, <3>1 DEF AttachSink, FanOK, SinkMuFree
  <2> QED
    BY <2>1, <2>2, <2>3, <2>4
<1>4. CASE AttachCount(s)
  <2>1. SinkTableOK'
    BY <1>4 DEF AttachCount, SinkTableOK, Bound
  <2>2. BoundOK'
    BY <1>4 DEF AttachCount, BoundOK, Bound
  <2>3. OpenOK'
    BY <1>4 DEF AttachCount, OpenOK, Registering
  <2>4. FanOK'
    BY <1>4 DEF AttachCount, FanOK, SinkStreams, SinkMuFree
  <2> QED
    BY <2>1, <2>2, <2>3, <2>4
<1>5. CASE AckReplay(s)
  <2>1. SinkTableOK'
    BY <1>5 DEF AckReplay, SinkTableOK, Bound
  <2>2. BoundOK'
    BY <1>5 DEF AckReplay, BoundOK, Bound
  <2>3. OpenOK'
    BY <1>5 DEF AckReplay, OpenOK, Registering
  <2>4. FanOK'
    BY <1>5 DEF AckReplay, FanOK, SinkStreams, SinkMuFree
  <2> QED
    BY <2>1, <2>2, <2>3, <2>4
<1>6. CASE ReadEnds(s)
  <2>1. SinkTableOK'
    BY <1>6 DEF ReadEnds, SinkTableOK, Bound
  <2>2. BoundOK'
    BY <1>6 DEF ReadEnds, BoundOK, Bound
  <2>3. OpenOK'
    BY <1>6 DEF ReadEnds, OpenOK, Registering
  <2>4. FanOK'
    BY <1>6 DEF ReadEnds, FanOK, SinkStreams, SinkMuFree
  <2> QED
    BY <2>1, <2>2, <2>3, <2>4
<1>7. CASE DetachLookup(s)
  <2>1. SinkTableOK'
    BY <1>7 DEF DetachLookup, SinkTableOK, Bound
  <2>2. BoundOK'
    BY <1>7 DEF DetachLookup, BoundOK, Bound
  <2>3. OpenOK'
    BY <1>7 DEF DetachLookup, OpenOK, Registering
  <2>4. FanOK'
    BY <1>7 DEF DetachLookup, FanOK, SinkStreams, SinkMuFree
  <2> QED
    BY <2>1, <2>2, <2>3, <2>4
<1>8. CASE DetachSink(s)
  <2>1. SinkTableOK'
    BY <1>8 DEF DetachSink, SinkTableOK, Bound
  <2>2. BoundOK'
    <3> DEFINE h == sess[s]
    <3>0. h \in Handle /\ pc[s] \in Bound
      BY <1>8 DEF DetachSink, HoldsSession, Bound
    <3>1. <<token[s], s>> \in sinks[h]
      BY <3>0, ConstAssumption DEF BoundOK
    <3>2. ASSUME NEW u \in Stream, pc'[u] \in Bound, sess'[u] # NoHandle
          PROVE  <<token'[u], u>> \in sinks'[sess'[u]]
      <4>1. u # s /\ pc[u] \in Bound /\ sess[u] \in Handle
        BY <1>8, <3>2 DEF DetachSink, Bound
      <4>2. <<token[u], u>> \in sinks[sess[u]]
        BY <1>8, <3>2, <4>1 DEF DetachSink, BoundOK
      <4>3. sess[u] = h => token[u] # token[s]
        BY <3>0, <3>1, <4>1, <4>2 DEF SinkTableOK
      <4> QED
        BY <1>8, <3>0, <4>1, <4>2, <4>3 DEF DetachSink
    <3> QED
      BY <1>8, <3>2 DEF DetachSink, BoundOK, Bound
  <2>3. OpenOK'
    BY <1>8 DEF DetachSink, OpenOK, Registering
  <2>4. FanOK'
    BY <1>8 DEF DetachSink, FanOK, SinkStreams, SinkMuFree
  <2> QED
    BY <2>1, <2>2, <2>3, <2>4
<1>9. CASE DetachCount(s)
  <2>1. SinkTableOK'
    BY <1>9 DEF DetachCount, SinkTableOK, Bound
  <2>2. BoundOK'
    BY <1>9 DEF DetachCount, BoundOK, Bound
  <2>3. OpenOK'
    BY <1>9 DEF DetachCount, OpenOK, Registering
  <2>4. FanOK'
    BY <1>9 DEF DetachCount, FanOK, SinkStreams, SinkMuFree
  <2> QED
    BY <2>1, <2>2, <2>3, <2>4
<1>10. CASE InputStep(s)
  BY <1>10, InputStepBind
<1> QED
  BY <1>1, <1>2, <1>3, <1>4, <1>5, <1>6, <1>7, <1>8, <1>9, <1>10 DEF HandlerStep, InputStep

\* FanOut from a set of installed sinks keeps FanOK, and moves only Pump.
LEMMA FanOutBind ==
  ASSUME TypeOK, BindInv, NEW h \in Handle, NEW S \in SUBSET SinkStreams(h),
         NEW during \in {"data", "exit"}, NEW after \in {"read", "remove"},
         FanOut(h, S, during, after), pump[h] # "none", UNCHANGED sinks
  PROVE  /\ FanOK'
         /\ \A g \in Handle : (pump'[g] = "none") <=> (pump[g] = "none")
<1> USE DEF TypeOK
<1>0. NoStream \notin SinkStreams(h) /\ \A g \in Handle : SinkStreams(g)' = SinkStreams(g)
  BY ConstAssumption DEF SinkStreams
<1>1. ASSUME NEW s \in S,
             writing' = [writing EXCEPT ![h] = s],
             fan' = [fan EXCEPT ![h] = S \ {s}],
             pump' = [pump EXCEPT ![h] = during]
      PROVE  /\ FanOK'
             /\ \A g \in Handle : (pump'[g] = "none") <=> (pump[g] = "none")
  BY <1>0, <1>1 DEF BindInv, FanOK, SinkMuFree
<1>2. CASE /\ writing' = [writing EXCEPT ![h] = NoStream]
           /\ fan' = [fan EXCEPT ![h] = {}]
           /\ pump' = [pump EXCEPT ![h] = after]
  BY <1>0, <1>2 DEF BindInv, FanOK, SinkMuFree
<1> QED
  BY <1>1, <1>2 DEF FanOut

\* The steps of Pump and of the callers of Close preserve BindInv.
LEMMA SessionStepBind ==
  ASSUME TypeOK, BindInv, NEW h \in Handle,
         PumpStep(h) \/ PumpData(h) \/ ChildWatcher(h) \/ ChildExit(h) \/ Drop(h) \/ CloseSession(h)
  PROVE  BindInv'
<1> USE DEF mgrVars, sinkVars, outVars, pumpVars, procVars, sessVars, bindVars, streamVars
<1>1. CASE PumpData(h)
  <2>1. FanOut(h, SinkStreams(h), "data", "read") /\ pump[h] # "none" /\ UNCHANGED sinks
    BY <1>1 DEF PumpData
  <2>2. FanOK' /\ \A g \in Handle : (pump'[g] = "none") <=> (pump[g] = "none")
    BY <2>1, FanOutBind
  <2>3. SinkTableOK' /\ BoundOK'
    BY <1>1 DEF PumpData, BindInv, SinkTableOK, BoundOK
  <2>4. OpenOK'
    BY <1>1, <2>2 DEF PumpData, BindInv, OpenOK, TypeOK, Registering, HoldsSession
  <2> QED
    BY <2>2, <2>3, <2>4 DEF BindInv
<1>2. CASE PumpExit(h)
  <2>1. FanOut(h, SinkStreams(h), "exit", "remove") /\ pump[h] # "none" /\ UNCHANGED sinks
    BY <1>2 DEF PumpExit
  <2>2. FanOK' /\ \A g \in Handle : (pump'[g] = "none") <=> (pump[g] = "none")
    BY <2>1, FanOutBind
  <2>3. SinkTableOK' /\ BoundOK'
    BY <1>2 DEF PumpExit, BindInv, SinkTableOK, BoundOK
  <2>4. OpenOK'
    BY <1>2, <2>2 DEF PumpExit, BindInv, OpenOK, TypeOK, Registering, HoldsSession
  <2> QED
    BY <2>2, <2>3, <2>4 DEF BindInv
<1>3. CASE SinkWrite(h)
  <2>0. /\ pump[h] \in {"data", "exit"} /\ fan[h] \in SUBSET SinkStreams(h)
        /\ writing[h] \in SinkStreams(h)
    BY <1>3 DEF SinkWrite, BindInv, FanOK, SinkMuFree
  <2>1. /\ FanOut(h, fan[h], pump[h], IF pump[h] = "data" THEN "read" ELSE "remove")
        /\ pump[h] # "none" /\ UNCHANGED sinks
    BY <1>3, <2>0 DEF SinkWrite
  <2>2. FanOK' /\ \A g \in Handle : (pump'[g] = "none") <=> (pump[g] = "none")
    BY <2>0, <2>1, FanOutBind
  <2>3. SinkTableOK'
    BY <1>3 DEF SinkWrite, BindInv, SinkTableOK
  <2>4. pc[writing[h]] \in Bound \cup {"closed"}
    BY <2>0 DEF BindInv, SinkTableOK, SinkStreams
  <2>5. BoundOK'
    BY <1>3, <2>4 DEF SinkWrite, BindInv, BoundOK, TypeOK, Bound
  <2>6. OpenOK'
    BY <1>3, <2>2 DEF SinkWrite, BindInv, OpenOK, TypeOK, Registering, HoldsSession
  <2> QED
    BY <2>2, <2>3, <2>5, <2>6 DEF BindInv
<1>4. CASE PumpRemove(h)
  <2>1. SinkTableOK' /\ BoundOK'
    BY <1>4 DEF PumpRemove, BindInv, SinkTableOK, BoundOK
  <2>2. OpenOK'
    BY <1>4 DEF PumpRemove, BindInv, OpenOK, TypeOK, Registering, HoldsSession
  <2>3. FanOK'
    BY <1>4 DEF PumpRemove, BindInv, FanOK, TypeOK, SinkStreams, SinkMuFree
  <2> QED
    BY <2>1, <2>2, <2>3 DEF BindInv
<1>5. ASSUME UNCHANGED <<sinkVars, outVars, pumpVars, streamVars>>,
             entries' \subseteq entries,
             \A g \in Handle : child'[g] = "none" => child[g] = "none"
      PROVE  BindInv'
  <2>1. SinkTableOK' /\ BoundOK'
    BY <1>5 DEF BindInv, SinkTableOK, BoundOK
  <2>2. OpenOK' /\ FanOK'
    BY <1>5 DEF BindInv, OpenOK, FanOK, SinkStreams, SinkMuFree
  <2> QED
    BY <2>1, <2>2 DEF BindInv
<1>6. CASE ChildWatcher(h)
  BY <1>5, <1>6 DEF ChildWatcher
<1>7. CASE ChildExit(h)
  BY <1>5, <1>7 DEF ChildExit, TypeOK
<1>8. CASE Drop(h)
  BY <1>5, <1>8 DEF Drop
<1>9. CASE CloseSession(h)
  BY <1>5, <1>9 DEF CloseSession
<1> QED
  BY <1>1, <1>2, <1>3, <1>4, <1>6, <1>7, <1>8, <1>9 DEF PumpStep

\* Sweep, Close and the clock preserve BindInv.
LEMMA ManagerStepBind ==
  ASSUME BindInv, Sweep \/ ManagerClose \/ Tick
  PROVE  BindInv'
<1> USE DEF sinkVars, outVars, pumpVars, procVars, sessVars, bindVars, streamVars
<1>1. UNCHANGED <<sessVars, streamVars>> /\ entries' \subseteq entries
  BY DEF Sweep, ManagerClose, Tick
<1>2. SinkTableOK' /\ BoundOK'
  BY <1>1 DEF BindInv, SinkTableOK, BoundOK
<1>3. OpenOK' /\ FanOK'
  BY <1>1 DEF BindInv, OpenOK, FanOK, SinkStreams, SinkMuFree
<1> QED
  BY <1>2, <1>3 DEF BindInv

\* A step of Next, or a stuttering step, preserves BindInv.
LEMMA NextBind == TypeOK /\ BindInv /\ [Next]_vars => BindInv'
<1> SUFFICES ASSUME TypeOK, BindInv, [Next]_vars PROVE BindInv'
  OBVIOUS
<1>1. CASE Next
  BY <1>1, ClientStepBind, HandlerStepBind, SessionStepBind, ManagerStepBind DEF Next
<1>2. CASE UNCHANGED vars
  BY <1>2 DEF BindInv, SinkTableOK, BoundOK, OpenOK, FanOK, SinkStreams, SinkMuFree,
     vars, mgrVars, sinkVars, outVars, pumpVars, procVars, sessVars, bindVars, streamVars
<1> QED
  BY <1>1, <1>2

\* Sinks and streams always match up: each sink is its own stream's, under a
\* token nobody else has, and stays installed while the stream is bound
\* (addSinkLocked, RemoveSink, AddSinkWithSnapshot).
THEOREM BindCorrect == Spec => []BindInv
BY TypeCorrect, InitBind, NextBind, PTL DEF Spec

\* "A successful Attach NEVER displaces previously-bound streams" and no stale
\* RemoveSink removes another's sink: a sink leaves the map only in its own
\* stream's Detach (addSinkLocked, RemoveSink).
THEOREM NeverDisplaced == Spec => NoDisplacement
<1> DEFINE A == \A h \in Handle : \A p \in sinks[h] \ sinks'[h] :
                  pc[p[2]] = "rmSink" /\ pc'[p[2]] = "uncount" /\ sess[p[2]] = h
<1>1. ASSUME TypeOK, BindInv, Next PROVE A
  <2> USE DEF mgrVars, sinkVars, outVars, pumpVars, procVars, sessVars, bindVars, streamVars
  <2>1. ASSUME NEW s \in Stream, HandlerStep(s) PROVE A
    <3>1. CASE UNCHANGED sinks
      BY <3>1
    <3>2. ASSUME NEW next \in Bound, pc[s] \in {"regSink", "attSink"}, SinkMuFree(sess[s]),
                 AddSink(sess[s], s), pc' = [pc EXCEPT ![s] = next], sess' = sess
          PROVE  A
      <4>1. sess[s] \in Handle
        BY <1>1, <3>2 DEF TypeOK, HoldsSession, Registering
      <4>2. \A g \in Handle : sinks[g] \subseteq sinks'[g]
        <5>1. \A g \in Handle : sinks'[g] = IF g = sess[s]
                THEN sinks[g] \cup {<<nextSink[g] + 1, s>>} ELSE sinks[g]
          BY <1>1, <3>2, <4>1, AddSinkBind
        <5> QED
          BY <5>1
      <4> QED
        BY <4>2
    <3>3. CASE RegisterSink(s)
      BY <3>2, <3>3 DEF RegisterSink, Bound
    <3>4. CASE AttachSink(s)
      BY <3>2, <3>4 DEF AttachSink, Bound
    <3>5. CASE DetachSink(s)
      <4>0. sess[s] \in Handle /\ pc[s] \in Bound
        BY <1>1, <3>5 DEF DetachSink, TypeOK, HoldsSession, Bound
      <4>1. <<token[s], s>> \in sinks[sess[s]]
        BY <1>1, <4>0, ConstAssumption DEF BindInv, BoundOK
      <4>2. ASSUME NEW h \in Handle, NEW p \in sinks[h] \ sinks'[h]
            PROVE  pc[p[2]] = "rmSink" /\ pc'[p[2]] = "uncount" /\ sess[p[2]] = h
        <5>1. h = sess[s] /\ p[1] = token[s]
          BY <1>1, <3>5, <4>0, <4>2 DEF DetachSink, TypeOK
        <5>2. p = <<token[s], s>>
          BY <1>1, <4>1, <5>1 DEF BindInv, SinkTableOK
        <5>3. p[2] = s
          BY <5>2
        <5> QED
          BY <1>1, <3>5, <5>1, <5>3 DEF DetachSink, TypeOK
      <4> QED
        BY <4>2
    <3>6. CASE InputStep(s)
      BY <3>1, <3>6, InputSteps
    <3> QED
      BY <2>1, <3>1, <3>3, <3>4, <3>5, <3>6 DEF HandlerStep, RegisterCount, AttachCount,
         AckReplay, ReadEnds, DetachLookup, DetachCount, InputStep
  <2>2. ASSUME NEW s \in Stream, ClientStep(s) PROVE UNCHANGED sinks
    BY <2>2, InputSteps DEF ClientStep, InputStep, OpenFails, RegisterInsert, RegisterClosed,
       AttachReject, AttachLookup, PeerStep
  <2>3. ASSUME NEW h \in Handle,
               PumpStep(h) \/ PumpData(h) \/ ChildWatcher(h) \/ ChildExit(h) \/ Drop(h) \/ CloseSession(h)
        PROVE  UNCHANGED sinks
    BY <2>3 DEF PumpStep, ChildWatcher, PumpExit, SinkWrite, PumpRemove, PumpData,
       ChildExit, Drop, CloseSession
  <2>4. Sweep \/ ManagerClose \/ Tick => UNCHANGED sinks
    BY DEF Sweep, ManagerClose, Tick
  <2> QED
    BY <1>1, <2>1, <2>2, <2>3, <2>4 DEF Next
<1>2. TypeOK /\ BindInv /\ [Next]_vars => [A]_vars
  BY <1>1
<1> HIDE DEF A
<1>3. Spec => [][A]_vars
  BY <1>2, TypeCorrect, BindCorrect, PTL DEF Spec
<1> QED
  BY <1>3 DEF NoDisplacement, A

-----------------------------------------------------------------------------
(* The ring is a suffix of the output.                                      *)

\* Only dispatchData writes the ring, one chunk at a time.
LEMMA NextRing == TypeOK /\ RingOK /\ RingIsTail /\ [Next]_vars => RingIsTail'
<1> SUFFICES ASSUME TypeOK, RingOK, RingIsTail, [Next]_vars PROVE RingIsTail'
  OBVIOUS
<1>1. CASE UNCHANGED <<ring, out>>
  BY <1>1 DEF RingIsTail
<1>2. ASSUME NEW h \in Handle, PumpData(h) PROVE RingIsTail'
  <2> DEFINE q == Snapshot(ring[h])
             n == out[h] + 1
             t == q \o <<n>>
             w == RingWrite(ring[h], <<n>>)
             v == Snapshot(w)
  <2>0. ring[h] \in Ring /\ RingShape(ring[h]) /\ out[h] \in Nat /\ n \in Nat
    BY DEF TypeOK, RingOK
  <2>1. /\ q \in Seq(Nat) /\ Len(q) \in Nat
        /\ Len(q) = IF out[h] < RingCap THEN out[h] ELSE RingCap
        /\ \A i \in 1 .. Len(q) : q[i] = out[h] - Len(q) + i
    <3>1. q \in Seq(Nat)
      BY <2>0, SnapshotType
    <3>2. /\ Len(q) = IF out[h] < RingCap THEN out[h] ELSE RingCap
          /\ \A i \in DOMAIN q : q[i] = out[h] - Len(q) + i
      BY DEF RingIsTail
    <3> HIDE DEF q
    <3> QED
      BY <3>1, <3>2
  <2>2. v = LastOf(t, RingCap)
    BY <2>0, RingWriteType
  <2>3. \A g \in Handle : /\ ring'[g] = IF g = h THEN w ELSE ring[g]
                          /\ out'[g] = IF g = h THEN n ELSE out[g]
    BY <1>2 DEF PumpData, TypeOK
  <2> HIDE DEF q, v, w
  <2>4. /\ t \in Seq(Nat) /\ Len(t) = Len(q) + 1
        /\ \A i \in 1 .. Len(q) : t[i] = q[i]
        /\ t[Len(q) + 1] = n
    <3> DEFINE u == <<n>>
    <3>1. u \in Seq(Nat) /\ Len(u) = 1 /\ u[1] = n
      BY <2>0
    <3> HIDE DEF u
    <3>2. /\ q \o u \in Seq(Nat) /\ Len(q \o u) = Len(q) + Len(u)
          /\ \A i \in 1 .. Len(q) : (q \o u)[i] = q[i]
          /\ \A i \in Len(q) + 1 .. Len(q) + Len(u) : (q \o u)[i] = u[i - Len(q)]
      BY <2>1, <3>1, ConcatAt
    <3>3. (q \o u)[Len(q) + 1] = u[1]
      BY <2>1, <3>1, <3>2
    <3> QED
      BY <3>1, <3>2, <3>3 DEF u
  <2>5. \A i \in 1 .. Len(q) + 1 : t[i] = out[h] - Len(q) + i
    BY <2>0, <2>1, <2>4
  <2> HIDE DEF t
  <2>6. RingCap \in Nat \ {0}
    BY ConstAssumption
  <2>7. /\ v \in Seq(Nat)
        /\ Len(v) = IF n < RingCap THEN n ELSE RingCap
        /\ \A i \in 1 .. Len(v) : v[i] = n - Len(v) + i
    <3>1. CASE Len(t) <= RingCap
      <4>1. v = t
        BY <2>2, <3>1 DEF LastOf
      <4>2. Len(q) = out[h] /\ Len(t) = n
        BY <2>0, <2>1, <2>4, <2>6, <3>1
      <4> QED
        BY <2>0, <2>4, <2>5, <2>6, <3>1, <4>1, <4>2
    <3>2. CASE ~(Len(t) <= RingCap)
      <4>1. Len(q) = RingCap /\ out[h] >= RingCap /\ Len(t) = RingCap + 1
        BY <2>0, <2>1, <2>4, <2>6, <3>2
      <4>2. RingCap <= Len(t)
        BY <2>6, <4>1
      <4>3. /\ v \in Seq(Nat) /\ Len(v) = RingCap
            /\ \A i \in 1 .. RingCap : v[i] = t[Len(t) - RingCap + i]
        <5>1. t \in Seq(Nat) /\ RingCap \in Nat
          BY <2>4, <2>6
        <5> QED
          BY ONLY <2>2, <4>2, <5>1, LastOfAt
      <4>4. ASSUME NEW i \in 1 .. RingCap PROVE v[i] = n - RingCap + i
        <5>1. Len(t) - RingCap + i = i + 1 /\ i + 1 \in 1 .. Len(q) + 1
          BY <2>6, <4>1
        <5>2. t[i + 1] = out[h] - Len(q) + (i + 1)
          BY <2>5, <5>1
        <5>3. v[i] = out[h] - Len(q) + (i + 1)
          BY <4>3, <5>1, <5>2
        <5>4. out[h] - Len(q) + (i + 1) = n - RingCap + i
          <6>1. out[h] \in Nat /\ RingCap \in Nat /\ i \in Nat /\ Len(q) = RingCap
            BY <2>0, <2>6, <4>1
          <6> QED
            BY ONLY <6>1
        <5> QED
          BY <5>3, <5>4
      <4> QED
        BY <2>0, <4>1, <4>3, <4>4
    <3> QED
      BY <3>1, <3>2
  <2>8. /\ Len(v) = IF n < RingCap THEN n ELSE RingCap
        /\ \A i \in DOMAIN v : v[i] = n - Len(v) + i
    BY <2>7
  <2> HIDE DEF n
  <2>9. ASSUME NEW g \in Handle
        PROVE  LET r == Snapshot(ring'[g]) IN
               /\ Len(r) = IF out'[g] < RingCap THEN out'[g] ELSE RingCap
               /\ \A i \in DOMAIN r : r[i] = out'[g] - Len(r) + i
    <3>1. CASE g = h
      BY <2>3, <2>8, <3>1 DEF v
    <3>2. CASE g # h
      BY <2>3, <3>2 DEF RingIsTail
    <3> QED
      BY <3>1, <3>2
  <2> QED
    BY <2>9 DEF RingIsTail
<1> QED
  BY <1>1, <1>2, RingSteps

\* What a reattach replays is a gap-free suffix of the output, however the
\* chunks, attaches and detaches interleave (ringBuffer.write, dispatchData).
THEOREM RingCorrect == Spec => []RingIsTail
<1>1. Init => RingIsTail
  BY ConstAssumption DEF Init, RingIsTail, Snapshot, newRingBuffer
<1> QED
  BY <1>1, NextRing, Typed, PTL DEF Spec

-----------------------------------------------------------------------------
(* Every chunk exactly once: what a single stream has been sent.            *)

\* The parts of LiveOK, LiveFollowsSnapshot and NoChunkMissed about stream s.
LiveAt(s) ==
  /\ sess[s] = NoHandle => DataAt(s) = {}
  /\ \A i \in DataAt(s) : ChunkAt(s, i) \in Nat
  /\ sess[s] # NoHandle =>
       /\ SnapAt(s) <= out[sess[s]]
       /\ InFlight(sess[s], s) => SnapAt(s) < out[sess[s]]
       /\ \A i \in DataAt(s) :
            /\ ChunkAt(s, i) <= out[sess[s]]
            /\ InFlight(sess[s], s) => ChunkAt(s, i) < out[sess[s]]

FollowsAt(s) ==
  \A i \in DataAt(s) :
    /\ ChunkAt(s, i) > SnapAt(s)
    /\ \A j \in DataAt(s) : i < j => ChunkAt(s, i) < ChunkAt(s, j)

NotMissedAt(s) ==
  pc[s] \in Bound /\ sess[s] # NoHandle /\ peer[s] # "gone" =>
    \A n \in SnapAt(s) + 1 .. out[sess[s]] :
      \/ \E i \in DataAt(s) : ChunkAt(s, i) = n
      \/ n = out[sess[s]] /\ InFlight(sess[s], s)

StreamOK(s) == LiveAt(s) /\ FollowsAt(s) /\ NotMissedAt(s)

\* The three invariants speak of each stream by itself.
LEMMA PerStream ==
  (LiveOK /\ LiveFollowsSnapshot /\ NoChunkMissed) <=> \A s \in Stream : StreamOK(s)
BY DEF LiveOK, LiveFollowsSnapshot, NoChunkMissed, StreamOK, LiveAt, FollowsAt, NotMissedAt

\* The same equivalence in the next state.
LEMMA PerStreamNext ==
  (LiveOK /\ LiveFollowsSnapshot /\ NoChunkMissed)' <=> \A s \in Stream : StreamOK(s)'
BY DEF LiveOK, LiveFollowsSnapshot, NoChunkMissed, StreamOK, LiveAt, FollowsAt, NotMissedAt

\* A frame that is not live data changes no live data of its stream.
LEMMA AppendOther ==
  ASSUME NEW w \in Seq(Frame), NEW f \in Frame, f.kind # "data"
  PROVE  /\ {i \in DOMAIN Append(w, f) : Append(w, f)[i].kind = "data"}
              = {i \in DOMAIN w : w[i].kind = "data"}
         /\ \A i \in DOMAIN w : Append(w, f)[i] = w[i]
<1> DEFINE a == Append(w, f)
<1>1. /\ DOMAIN w = 1 .. Len(w) /\ Len(w) \in Nat /\ DOMAIN a = 1 .. Len(w) + 1
      /\ \A i \in 1 .. Len(w) : a[i] = w[i]
      /\ a[Len(w) + 1] = f
  OBVIOUS
<1> HIDE DEF a
<1>2. DOMAIN a = DOMAIN w \cup {Len(w) + 1}
  BY <1>1
<1>3. {i \in DOMAIN a : a[i].kind = "data"} = {i \in DOMAIN w : w[i].kind = "data"}
  BY <1>1, <1>2
<1> QED
  BY <1>1, <1>3 DEF a

\* A step that leaves the live data, the snapshot, the binding and the session's
\* output alone, and does not bind the stream, keeps StreamOK.
LEMMA KeepStream ==
  ASSUME NEW s \in Stream, StreamOK(s),
         DataAt(s)' = DataAt(s),
         \A i \in DataAt(s) : ChunkAt(s, i)' = ChunkAt(s, i),
         replay'[s] = replay[s], sess'[s] = sess[s],
         sess[s] # NoHandle => out'[sess[s]] = out[sess[s]],
         sess[s] # NoHandle => (InFlight(sess[s], s)' <=> InFlight(sess[s], s)),
         pc'[s] \in Bound /\ sess[s] # NoHandle /\ peer'[s] # "gone"
           => pc[s] \in Bound /\ peer[s] # "gone"
  PROVE  StreamOK(s)'
<1>1. SnapAt(s)' = SnapAt(s)
  BY DEF SnapAt
<1>2. LiveAt(s)'
  <2>1. CASE sess[s] = NoHandle
    BY <2>1 DEF StreamOK, LiveAt
  <2>2. CASE sess[s] # NoHandle
    <3> DEFINE q == sess[s]
    <3>1. sess'[s] = q /\ q # NoHandle /\ out'[q] = out[q] /\ (InFlight(q, s)' <=> InFlight(q, s))
      BY <2>2
    <3>2. /\ \A i \in DataAt(s) : ChunkAt(s, i) \in Nat
          /\ SnapAt(s) <= out[q]
          /\ InFlight(q, s) => SnapAt(s) < out[q]
          /\ \A i \in DataAt(s) :
               /\ ChunkAt(s, i) <= out[q]
               /\ InFlight(q, s) => ChunkAt(s, i) < out[q]
      BY <2>2 DEF StreamOK, LiveAt
    <3> HIDE DEF q
    <3> QED
      BY <1>1, <3>1, <3>2 DEF LiveAt
  <2> QED
    BY <2>1, <2>2
<1>3. FollowsAt(s)'
  BY <1>1 DEF StreamOK, FollowsAt
<1>4. NotMissedAt(s)'
  BY <1>1 DEF StreamOK, NotMissedAt
<1> QED
  BY <1>2, <1>3, <1>4 DEF StreamOK

\* A stream that has been sent nothing, with an up-to-date snapshot if bound.
LEMMA FreshStream ==
  ASSUME NEW s \in Stream, NEW h \in Handle, out'[h] \in Nat,
         wire'[s] = <<>>, sess'[s] = h,
         SnapAt(s)' \in Nat, SnapAt(s)' <= out'[h], ~InFlight(h, s)',
         pc'[s] \in Bound => SnapAt(s)' = out'[h]
  PROVE  StreamOK(s)'
<1>1. DataAt(s)' = {}
  BY DEF DataAt
<1>2. LiveAt(s)'
  BY <1>1, ConstAssumption DEF LiveAt
<1>3. FollowsAt(s)'
  BY <1>1 DEF FollowsAt
<1>4. NotMissedAt(s)'
  BY DEF NotMissedAt
<1> QED
  BY <1>2, <1>3, <1>4 DEF StreamOK

\* A step that changes nothing that StreamOK(s) reads, or only stops the stream
\* from being bound, keeps it.
LEMMA SameStream ==
  ASSUME NEW s \in Stream, StreamOK(s),
         wire'[s] = wire[s], replay'[s] = replay[s], sess'[s] = sess[s],
         sess[s] # NoHandle => out'[sess[s]] = out[sess[s]],
         sess[s] # NoHandle => (InFlight(sess[s], s)' <=> InFlight(sess[s], s)),
         pc'[s] \in Bound /\ sess[s] # NoHandle /\ peer'[s] # "gone"
           => pc[s] \in Bound /\ peer[s] # "gone"
  PROVE  StreamOK(s)'
<1>1. DataAt(s)' = DataAt(s) /\ \A i \in DataAt(s) : ChunkAt(s, i)' = ChunkAt(s, i)
  BY DEF DataAt, ChunkAt
<1> QED
  BY <1>1, KeepStream

\* A step that adds a frame that is not live data, and changes nothing else
\* that StreamOK(s) reads, keeps it.
LEMMA OtherFrame ==
  ASSUME TypeOK, NEW s \in Stream, StreamOK(s), NEW f \in Frame, f.kind # "data",
         wire'[s] = Written(s, f), UNCHANGED <<bindVars, out, pumpVars, peer>>,
         pc'[s] \in Bound => pc[s] \in Bound
  PROVE  StreamOK(s)'
<1>1. wire[s] \in Seq(Frame)
  BY DEF TypeOK
<1>2. DataAt(s)' = DataAt(s) /\ \A i \in DOMAIN wire[s] : wire'[s][i] = wire[s][i]
  <2>1. CASE wire'[s] = wire[s]
    BY <2>1 DEF DataAt
  <2>2. CASE wire'[s] = Append(wire[s], f)
    BY <1>1, <2>2, AppendOther DEF DataAt
  <2> QED
    BY <2>1, <2>2 DEF Written
<1>3. \A i \in DataAt(s) : ChunkAt(s, i)' = ChunkAt(s, i)
  BY <1>2 DEF DataAt, ChunkAt
<1> QED
  BY <1>2, <1>3, KeepStream DEF bindVars, pumpVars, InFlight

\* The sinks Pump has yet to reach belong to streams bound to its session.
LEMMA InFlightBound ==
  ASSUME BindInv, NEW h \in Handle, NEW s \in Stream, InFlight(h, s)
  PROVE  sess[s] = h /\ pc[s] \in Bound \cup {"closed"}
<1>1. s \in SinkStreams(h)
  BY DEF BindInv, FanOK, InFlight, SinkMuFree
<1> QED
  BY <1>1 DEF BindInv, SinkTableOK, SinkStreams

\* An input writes nothing to the stream and unbinds nothing.
LEMMA InputStepStream ==
  ASSUME TypeOK, NEW s \in Stream, InputStep(s), NEW u \in Stream, StreamOK(u)
  PROVE  StreamOK(u)'
<1>1. PICK next \in {"ack", "loop", "input", "write", "detach"} :
        pc' = [pc EXCEPT ![s] = next]
  BY InputSteps
<1>2. /\ UNCHANGED <<out, pump, fan, writing, sess, replay, wire, peer>>
      /\ pc[s] \in {"resize", "loop", "input", "write"}
  BY InputSteps DEF outVars, pumpVars, sessVars, bindVars
<1>3. pc'[u] \in Bound => pc[u] \in Bound
  BY <1>1, <1>2 DEF TypeOK, Bound
<1> QED
  BY <1>2, <1>3, SameStream DEF InFlight

\* A step of a client keeps StreamOK of every stream.
LEMMA ClientStepStream ==
  ASSUME TypeOK, BindInv, NEW s \in Stream, ClientStep(s), NEW u \in Stream, StreamOK(u)
  PROVE  StreamOK(u)'
<1> USE DEF mgrVars, sinkVars, outVars, pumpVars, procVars, sessVars, bindVars, streamVars
<1>1. ASSUME u # s, UNCHANGED <<outVars, pumpVars>>, wire'[u] = wire[u],
             replay'[u] = replay[u], sess'[u] = sess[u], pc'[u] = pc[u], peer'[u] = peer[u]
      PROVE  StreamOK(u)'
  BY <1>1, SameStream DEF InFlight
<1>2. CASE OpenFails(s)
  <2>1. CASE u = s
    BY <1>2, <2>1, OtherFrame, FrameTypes DEF OpenFails, ExitFrame, Bound, TypeOK
  <2>2. CASE u # s
    BY <1>1, <1>2, <2>2 DEF OpenFails, TypeOK
  <2> QED
    BY <2>1, <2>2
<1>3. ASSUME NEW h \in Handle, AttachReject(s, h) PROVE StreamOK(u)'
  <2>1. CASE u = s
    BY <1>3, <2>1, OtherFrame, FrameTypes DEF AttachReject, RejectFrame, Bound, TypeOK
  <2>2. CASE u # s
    BY <1>1, <1>3, <2>2 DEF AttachReject, TypeOK
  <2> QED
    BY <2>1, <2>2
<1>4. ASSUME NEW h \in Handle, RegisterInsert(s, h) \/ AttachLookup(s, h) PROVE StreamOK(u)'
  <2>0. /\ pc[s] = "idle" /\ sess' = [sess EXCEPT ![s] = h] /\ UNCHANGED <<outVars, pumpVars>>
        /\ UNCHANGED <<token, replay, wire, peer>>
        /\ pc' = [pc EXCEPT ![s] = "regSink"] \/ pc' = [pc EXCEPT ![s] = "attSink"]
    BY <1>4 DEF RegisterInsert, AttachLookup
  <2>1. CASE u = s
    <3>1. wire[s] = <<>> /\ replay[s] = <<>> /\ sess[s] = NoHandle
      BY <2>0 DEF BindInv, BoundOK
    <3>2. ~InFlight(h, s)
      BY <3>1, InFlightBound, ConstAssumption
    <3>3. SnapAt(s)' = 0 /\ ~InFlight(h, s)' /\ out'[h] \in Nat /\ sess'[s] = h
      BY <2>0, <3>1, <3>2 DEF SnapAt, InFlight, TypeOK
    <3>4. pc'[s] \notin Bound
      BY <2>0 DEF TypeOK, Bound
    <3> QED
      BY <2>0, <2>1, <3>1, <3>3, <3>4, FreshStream
  <2>2. CASE u # s
    BY <1>1, <2>0, <2>2 DEF TypeOK
  <2> QED
    BY <2>1, <2>2
<1>5. ASSUME NEW h \in Handle, RegisterClosed(s, h) PROVE StreamOK(u)'
  <2>1. CASE u = s
    <3>1. sess[s] = NoHandle
      BY <1>5 DEF RegisterClosed, BindInv, BoundOK
    <3> QED
      BY <1>5, <2>1, <3>1, SameStream DEF RegisterClosed, InFlight
  <2>2. CASE u # s
    BY <1>1, <1>5, <2>2 DEF RegisterClosed, TypeOK
  <2> QED
    BY <2>1, <2>2
<1>6. CASE PeerStep(s)
  <2>1. peer'[u] = "gone" \/ peer[u] # "gone"
    BY <1>6 DEF PeerStep, TypeOK
  <2> QED
    BY <1>6, <2>1, SameStream DEF PeerStep, InFlight
<1>7. CASE InputStep(s)
  BY <1>7, InputStepStream
<1> QED
  BY <1>2, <1>3, <1>4, <1>5, <1>6, <1>7 DEF ClientStep, InputStep

\* A step of a stream handler keeps StreamOK of every stream; the one that
\* matters is AttachSink, where the snapshot is level with the output.
LEMMA HandlerStepStream ==
  ASSUME TypeOK, BindInv, RingOK, RingIsTail, NEW s \in Stream, HandlerStep(s),
         NEW u \in Stream, StreamOK(u)
  PROVE  StreamOK(u)'
<1> USE DEF mgrVars, sinkVars, outVars, pumpVars, procVars, sessVars, bindVars, streamVars
<1>0. pc[s] \in HoldsSession => sess[s] \in Handle /\ sess[s] # NoHandle
  BY ConstAssumption DEF TypeOK
<1>1. ASSUME u # s, UNCHANGED <<outVars, pumpVars>>, wire'[u] = wire[u],
             replay'[u] = replay[u], sess'[u] = sess[u], pc'[u] = pc[u], peer'[u] = peer[u]
      PROVE  StreamOK(u)'
  BY <1>1, SameStream DEF InFlight
<1>2. CASE RegisterSink(s)
  <2>0. sess[s] \in Handle
    BY <1>0, <1>2 DEF RegisterSink, HoldsSession, Registering
  <2>1. CASE u = s
    <3>1. wire[s] = <<>> /\ replay[s] = <<>>
      BY <1>2 DEF RegisterSink, BindInv, BoundOK
    <3>2. pump[sess[s]] = "none" /\ out[sess[s]] = 0
      BY <1>2, <2>0 DEF RegisterSink, BindInv, OpenOK, Registering
    <3>3. /\ SnapAt(s)' = 0 /\ ~InFlight(sess[s], s)' /\ out'[sess[s]] = 0
          /\ sess'[s] = sess[s] /\ wire'[s] = <<>>
      BY <1>2, <3>1, <3>2 DEF RegisterSink, SnapAt, InFlight
    <3> QED
      BY <2>0, <2>1, <3>3, FreshStream
  <2>2. CASE u # s
    BY <1>1, <1>2, <2>2 DEF RegisterSink, TypeOK
  <2> QED
    BY <2>1, <2>2
<1>3. CASE AttachSink(s)
  <2> DEFINE h == sess[s]
  <2>0. h \in Handle
    BY <1>0, <1>3 DEF AttachSink, HoldsSession
  <2>1. CASE u = s
    <3>1. wire[s] = <<>>
      BY <1>3 DEF AttachSink, BindInv, BoundOK
    <3> DEFINE r == Snapshot(ring[h])
    <3>2. /\ replay'[s] = r /\ wire'[s] = <<>> /\ sess'[s] = h /\ out' = out
          /\ ~InFlight(h, s)' /\ out[h] \in Nat
      BY <1>3, <2>0, <3>1 DEF AttachSink, TypeOK, InFlight, SinkMuFree
    <3>3. (IF r = <<>> THEN 0 ELSE r[Len(r)]) = out[h]
      <4>0. r \in Seq(Nat)
        BY <2>0, SnapshotType DEF TypeOK, RingOK
      <4>1. /\ Len(r) = IF out[h] < RingCap THEN out[h] ELSE RingCap
            /\ \A i \in DOMAIN r : r[i] = out[h] - Len(r) + i
        BY <2>0 DEF RingIsTail
      <4> HIDE DEF r
      <4>2. CASE r = <<>>
        <5>1. Len(r) = 0
          BY <4>2
        <5> QED
          BY <3>2, <4>1, <4>2, <5>1, ConstAssumption
      <4>3. CASE r # <<>>
        <5>1. Len(r) \in DOMAIN r /\ Len(r) \in Nat
          BY <4>0, <4>3
        <5>2. r[Len(r)] = out[h] - Len(r) + Len(r)
          BY <4>1, <5>1
        <5> QED
          BY <3>2, <4>3, <5>1, <5>2
      <4> QED
        BY <4>2, <4>3
    <3>4. SnapAt(s)' = out[h]
      BY <3>2, <3>3 DEF SnapAt
    <3> QED
      BY <2>0, <2>1, <3>2, <3>4, FreshStream
  <2>2. CASE u # s
    BY <1>1, <1>3, <2>2 DEF AttachSink, TypeOK
  <2> QED
    BY <2>1, <2>2
<1>4. CASE RegisterCount(s)
  <2>1. sess[s] \in Handle /\ pump[sess[s]] = "none" /\ pc'[s] = "ack" /\ pc[s] = "regCount"
    BY <1>0, <1>4 DEF RegisterCount, HoldsSession, Registering, BindInv, OpenOK, TypeOK
  <2>2. ASSUME NEW g \in Handle PROVE InFlight(g, u)' <=> InFlight(g, u)
    BY <1>4, <2>1 DEF RegisterCount, InFlight, TypeOK
  <2>3. pc'[u] \in Bound => pc[u] \in Bound
    BY <1>4, <2>1 DEF RegisterCount, Bound, TypeOK
  <2>4. sess[u] # NoHandle => sess[u] \in Handle
    BY DEF TypeOK
  <2> QED
    BY <1>4, <2>2, <2>3, <2>4, SameStream DEF RegisterCount
<1>5. CASE AckReplay(s)
  <2>1. CASE u = s
    <3> DEFINE w == Written(s, AckFrame)
               f == ReplayFrame(replay[s])
    <3>1. wire[s] \in Seq(Frame) /\ w \in Seq(Frame) /\ f \in Frame /\ f.kind # "data"
      BY WrittenType, FrameTypes DEF TypeOK, ReplayFrame
    <3>2. /\ {i \in DOMAIN w : w[i].kind = "data"} = DataAt(s)
          /\ \A i \in DataAt(s) : w[i] = wire[s][i]
      <4>1. AckFrame \in Frame /\ AckFrame.kind # "data"
        BY FrameTypes DEF AckFrame
      <4>2. CASE w = wire[s]
        BY <4>2 DEF DataAt
      <4>3. CASE w = Append(wire[s], AckFrame)
        BY <3>1, <4>1, <4>3, AppendOther DEF DataAt
      <4> QED
        BY <4>2, <4>3 DEF Written
    <3>3. wire'[s] = w \/ wire'[s] = Append(w, f)
      BY <1>5 DEF AckReplay, TypeOK
    <3> HIDE DEF w, f
    <3>4. DataAt(s)' = DataAt(s) /\ \A i \in DataAt(s) : wire'[s][i] = wire[s][i]
      <4>1. CASE wire'[s] = w
        BY <3>2, <4>1 DEF DataAt
      <4>2. CASE wire'[s] = Append(w, f)
        <5>1. /\ {i \in DOMAIN Append(w, f) : Append(w, f)[i].kind = "data"}
                    = {i \in DOMAIN w : w[i].kind = "data"}
              /\ \A i \in DOMAIN w : Append(w, f)[i] = w[i]
          BY <3>1, AppendOther
        <5> QED
          BY <3>2, <4>2, <5>1 DEF DataAt
      <4> QED
        BY <3>3, <4>1, <4>2
    <3>5. \A i \in DataAt(s) : ChunkAt(s, i)' = ChunkAt(s, i)
      BY <3>4 DEF ChunkAt
    <3>6. pc[s] \in Bound
      BY <1>5 DEF AckReplay, Bound
    <3> QED
      BY <1>5, <2>1, <3>4, <3>5, <3>6, KeepStream DEF AckReplay, InFlight
  <2>2. CASE u # s
    BY <1>1, <1>5, <2>2 DEF AckReplay, TypeOK
  <2> QED
    BY <2>1, <2>2
<1>6. ASSUME UNCHANGED <<outVars, pumpVars, sess, replay, wire, peer>>,
             pc'[u] \in Bound => pc[u] \in Bound
      PROVE  StreamOK(u)'
  BY <1>6, SameStream DEF InFlight
<1>7. CASE AttachCount(s)
  BY <1>6, <1>7 DEF AttachCount, Bound, TypeOK
<1>8. CASE ReadEnds(s)
  BY <1>6, <1>8 DEF ReadEnds, Bound, TypeOK
<1>9. CASE DetachLookup(s)
  BY <1>6, <1>9 DEF DetachLookup, Bound, TypeOK
<1>10. CASE DetachSink(s)
  BY <1>6, <1>10 DEF DetachSink, Bound, TypeOK
<1>11. CASE DetachCount(s)
  BY <1>6, <1>11 DEF DetachCount, Bound, TypeOK
<1>12. CASE InputStep(s)
  BY <1>12, InputStepStream
<1> QED
  BY <1>2, <1>3, <1>4, <1>5, <1>7, <1>8, <1>9, <1>10, <1>11, <1>12 DEF HandlerStep, InputStep

\* dispatchData: the new chunk is in flight to every bound stream at once.
LEMMA PumpDataStream ==
  ASSUME TypeOK, BindInv, NEW h \in Handle, PumpData(h), NEW u \in Stream, StreamOK(u)
  PROVE  StreamOK(u)'
<1> USE DEF mgrVars, sinkVars, outVars, pumpVars, procVars, sessVars, bindVars, streamVars
<1>0. /\ pump[h] = "read" /\ UNCHANGED streamVars /\ out[h] \in Nat
      /\ \A g \in Handle : out'[g] = IF g = h THEN out[h] + 1 ELSE out[g]
  BY DEF PumpData, TypeOK
<1>1. ASSUME NEW g \in Handle, g # h PROVE InFlight(g, u)' <=> InFlight(g, u)
  BY <1>1 DEF PumpData, FanOut, InFlight, TypeOK
<1>2. CASE sess[u] # h
  <2>1. sess[u] # NoHandle => sess[u] \in Handle
    BY DEF TypeOK
  <2> QED
    BY <1>0, <1>1, <1>2, <2>1, SameStream
<1>3. CASE sess[u] = h
  <2>0. h # NoHandle /\ ~InFlight(h, u)
    BY <1>0, ConstAssumption DEF InFlight
  <2>1. pc[u] \in Bound => InFlight(h, u)'
    <3>1. pc[u] \in Bound => u \in SinkStreams(h)
      <4>1. pc[u] \in Bound => <<token[u], u>> \in sinks[h]
        BY <1>3, <2>0 DEF BindInv, BoundOK
      <4> QED
        <5>1. <<token[u], u>>[2] = u
          OBVIOUS
        <5> QED
          BY <4>1, <5>1 DEF SinkStreams
    <3>2. u \in SinkStreams(h) => InFlight(h, u)'
      BY DEF PumpData, FanOut, InFlight, TypeOK
    <3> QED
      BY <3>1, <3>2
  <2>2. /\ DataAt(u)' = DataAt(u) /\ SnapAt(u)' = SnapAt(u)
        /\ \A i \in DataAt(u) : ChunkAt(u, i)' = ChunkAt(u, i)
    BY <1>0 DEF DataAt, SnapAt, ChunkAt
  <2>3. SnapAt(u) \in Nat
    BY DEF SnapAt, TypeOK
  <2>4. /\ \A i \in DataAt(u) : ChunkAt(u, i) \in Nat /\ ChunkAt(u, i) <= out[h]
        /\ SnapAt(u) <= out[h]
    BY <1>3, <2>0 DEF StreamOK, LiveAt
  <2>5. out'[h] = out[h] + 1 /\ sess'[u] = h
    BY <1>0, <1>3
  <2>6. \A m \in Nat : m <= out[h] => m <= out'[h] /\ m < out'[h]
    BY <1>0, <2>5
  <2>7. LiveAt(u)'
    BY <2>0, <2>2, <2>3, <2>4, <2>5, <2>6 DEF LiveAt
  <2>8. FollowsAt(u)'
    BY <2>2 DEF StreamOK, FollowsAt
  <2>9. NotMissedAt(u)'
    <3> SUFFICES ASSUME pc[u] \in Bound, peer[u] # "gone",
                        NEW n \in SnapAt(u) + 1 .. out[h] + 1
                 PROVE  \/ \E i \in DataAt(u) : ChunkAt(u, i) = n
                        \/ n = out[h] + 1 /\ InFlight(h, u)'
      BY <1>0, <2>2, <2>5 DEF NotMissedAt
    <3>1. CASE n = out[h] + 1
      BY <2>1, <3>1
    <3>2. CASE n # out[h] + 1
      <4>1. n \in SnapAt(u) + 1 .. out[h]
        BY <1>0, <2>3, <3>2
      <4> QED
        BY <1>3, <2>0, <4>1 DEF StreamOK, NotMissedAt
    <3> QED
      BY <3>1, <3>2
  <2> QED
    BY <2>7, <2>8, <2>9 DEF StreamOK
<1> QED
  BY <1>2, <1>3

\* The sink closure: the chunk in flight reaches the stream, after all others.
LEMMA SinkWriteStream ==
  ASSUME TypeOK, BindInv, NEW h \in Handle, SinkWrite(h), NEW u \in Stream, StreamOK(u)
  PROVE  StreamOK(u)'
<1> USE DEF mgrVars, sinkVars, outVars, pumpVars, procVars, sessVars, bindVars, streamVars
<1> DEFINE w == writing[h]
           o == out[h]
<1>0. /\ w \in Stream /\ w # NoStream /\ UNCHANGED <<outVars, pc, bindVars, peer>>
      /\ o \in Nat /\ wire[u] \in Seq(Frame)
  BY ConstAssumption DEF SinkWrite, TypeOK
<1>1. /\ pump[h] \in {"data", "exit"} /\ w \notin fan[h] /\ sess[w] = h /\ h # NoHandle
      /\ fan[h] \in SUBSET Stream
  BY <1>0, ConstAssumption DEF BindInv, FanOK, SinkMuFree, SinkTableOK, SinkStreams, TypeOK
<1>2. ASSUME NEW g \in Handle, g # h PROVE InFlight(g, u)' <=> InFlight(g, u)
  BY <1>2, SMTT(30) DEF SinkWrite, FanOut, InFlight, TypeOK
<1>3. InFlight(h, u)' <=> pump[h] = "data" /\ u \in fan[h]
  <2>1. CASE fan[h] = {}
    BY <1>0, <1>1, <2>1 DEF SinkWrite, FanOut, InFlight, TypeOK
  <2>2. ASSUME NEW s \in fan[h], writing' = [writing EXCEPT ![h] = s],
               fan' = [fan EXCEPT ![h] = fan[h] \ {s}], pump' = [pump EXCEPT ![h] = pump[h]]
        PROVE  InFlight(h, u)' <=> pump[h] = "data" /\ u \in fan[h]
    BY <2>2 DEF InFlight, TypeOK
  <2> QED
    BY <2>1, <2>2 DEF SinkWrite, FanOut
<1>4. InFlight(h, u) <=> pump[h] = "data" /\ (u \in fan[h] \/ u = w)
  BY DEF InFlight
<1>5. sess[u] # NoHandle => sess[u] \in Handle
  BY DEF TypeOK
<1>6. CASE u # w
  <2>1. wire'[u] = wire[u]
    BY <1>0, <1>6 DEF SinkWrite, TypeOK
  <2>2. InFlight(h, u)' <=> InFlight(h, u)
    BY <1>3, <1>4, <1>6
  <2> HIDE DEF w, o
  <2> QED
    BY <1>0, <1>2, <1>5, <2>1, <2>2, SameStream
<1>7. CASE u = w /\ pump[h] = "exit"
  <2>1. wire'[u] = Written(u, ExitFrame)
    BY <1>0, <1>7 DEF SinkWrite, TypeOK
  <2>2. ExitFrame \in Frame /\ ExitFrame.kind # "data"
    BY FrameTypes DEF ExitFrame
  <2>3. DataAt(u)' = DataAt(u) /\ \A i \in DOMAIN wire[u] : wire'[u][i] = wire[u][i]
    <3>1. CASE wire'[u] = wire[u]
      BY <3>1 DEF DataAt
    <3>2. CASE wire'[u] = Append(wire[u], ExitFrame)
      BY <1>0, <2>2, <3>2, AppendOther DEF DataAt
    <3> QED
      BY <2>1, <3>1, <3>2 DEF Written
  <2>4. \A i \in DataAt(u) : ChunkAt(u, i)' = ChunkAt(u, i)
    BY <2>3 DEF DataAt, ChunkAt
  <2>5. sess[u] = h /\ (InFlight(h, u)' <=> InFlight(h, u))
    BY <1>1, <1>3, <1>4, <1>7
  <2> HIDE DEF w, o
  <2> QED
    BY <1>0, <2>3, <2>4, <2>5, KeepStream
<1>8. CASE u = w /\ pump[h] = "data"
  <2>1. sess[u] = h /\ sess'[u] = h /\ out'[h] = o /\ InFlight(h, u) /\ ~InFlight(h, u)'
    BY <1>0, <1>1, <1>3, <1>4, <1>8
  <2>2. /\ \A i \in DataAt(u) : ChunkAt(u, i) \in Nat /\ ChunkAt(u, i) < o
        /\ \A i \in DataAt(u) : ChunkAt(u, i) <= o
        /\ SnapAt(u) < o /\ SnapAt(u) <= o /\ FollowsAt(u) /\ NotMissedAt(u)
    BY <1>1, <2>1 DEF StreamOK, LiveAt
  <2>3. SnapAt(u)' = SnapAt(u) /\ SnapAt(u) \in Nat
    BY <1>0 DEF SnapAt, TypeOK
  <2>4. wire'[u] = Written(u, DataFrame(o))
    BY <1>0, <1>8 DEF SinkWrite, TypeOK
  <2>5. CASE peer[u] = "gone" \/ pc[u] = "closed"
    <3>1. wire'[u] = wire[u]
      BY <2>4, <2>5 DEF Written
    <3>2. DataAt(u)' = DataAt(u) /\ \A i \in DataAt(u) : ChunkAt(u, i)' = ChunkAt(u, i)
      BY <3>1 DEF DataAt, ChunkAt
    <3>3. LiveAt(u)'
      BY <1>1, <2>1, <2>2, <2>3, <3>2 DEF LiveAt
    <3>4. FollowsAt(u)'
      BY <2>2, <2>3, <3>2 DEF FollowsAt
    <3>5. NotMissedAt(u)'
      BY <1>0, <2>5 DEF NotMissedAt, Bound
    <3> QED
      BY <3>3, <3>4, <3>5 DEF StreamOK
  <2>6. CASE ~(peer[u] = "gone" \/ pc[u] = "closed")
    <3>0. PICK k \in Nat : k = Len(wire[u]) + 1
      BY <1>0
    <3>1. wire'[u] = Append(wire[u], DataFrame(o)) /\ DataFrame(o) \in Frame
      BY <1>0, <2>4, <2>6, FrameTypes DEF Written
    <3>2. /\ DOMAIN wire'[u] = DOMAIN wire[u] \cup {k} /\ k \in Nat
          /\ \A i \in DOMAIN wire[u] : wire'[u][i] = wire[u][i] /\ i \in Nat /\ i < k
          /\ wire'[u][k] = DataFrame(o)
      BY <1>0, <3>0, <3>1
    <3>3. /\ DataAt(u)' = DataAt(u) \cup {k}
          /\ \A i \in DataAt(u) : ChunkAt(u, i)' = ChunkAt(u, i) /\ i \in Nat /\ i < k
          /\ ChunkAt(u, k)' = o
      BY <3>2 DEF DataAt, ChunkAt, DataFrame
    <3> HIDE DEF w, o
    <3>4. LiveAt(u)'
      <4>1. o <= o
        BY <1>0
      <4> QED
        BY <1>0, <1>1, <2>1, <2>2, <2>3, <3>3, <4>1 DEF LiveAt
    <3>5. FollowsAt(u)'
      <4> SUFFICES ASSUME NEW i \in DataAt(u) \cup {k}
                   PROVE  /\ ChunkAt(u, i)' > SnapAt(u)
                          /\ \A j \in DataAt(u) \cup {k} : i < j => ChunkAt(u, i)' < ChunkAt(u, j)'
        BY <2>3, <3>3 DEF FollowsAt
      <4>1. CASE i = k
        BY <1>0, <2>2, <2>3, <3>2, <3>3, <4>1
      <4>2. CASE i \in DataAt(u)
        BY <2>2, <3>3, <4>2 DEF FollowsAt
      <4> QED
        BY <4>1, <4>2
    <3>6. NotMissedAt(u)'
      <4> SUFFICES ASSUME pc[u] \in Bound, peer[u] # "gone", NEW n \in SnapAt(u) + 1 .. o
                   PROVE  \E i \in DataAt(u) \cup {k} : ChunkAt(u, i)' = n
        BY <1>0, <2>1, <2>3, <3>3 DEF NotMissedAt
      <4>1. CASE n = o
        BY <3>3, <4>1
      <4>2. CASE n # o
        <5>1. out[h] = o
          BY DEF o
        <5>2. \E i \in DataAt(u) : ChunkAt(u, i) = n
          BY <1>1, <2>1, <2>2, <4>2, <5>1 DEF NotMissedAt
        <5> QED
          BY <3>3, <5>2
      <4> QED
        BY <4>1, <4>2
    <3> QED
      BY <3>4, <3>5, <3>6 DEF StreamOK
  <2> QED
    BY <2>5, <2>6
<1> QED
  BY <1>1, <1>6, <1>7, <1>8

\* A step of Next keeps StreamOK of every stream.
LEMMA NextStream ==
  ASSUME TypeOK, BindInv, RingOK, RingIsTail, \A s \in Stream : StreamOK(s), Next
  PROVE  \A s \in Stream : StreamOK(s)'
<1> USE DEF mgrVars, sinkVars, outVars, pumpVars, procVars, sessVars, bindVars, streamVars
<1> SUFFICES ASSUME NEW u \in Stream PROVE StreamOK(u)'
  OBVIOUS
<1>0. StreamOK(u)
  OBVIOUS
<1>1. ASSUME UNCHANGED <<out, streamVars>>,
             \A g \in Handle : InFlight(g, u)' <=> InFlight(g, u)
      PROVE  StreamOK(u)'
  <2>1. sess[u] # NoHandle => sess[u] \in Handle
    BY DEF TypeOK
  <2> QED
    BY <1>0, <1>1, <2>1, SameStream
<1>2. ASSUME UNCHANGED <<out, streamVars, pumpVars>> PROVE StreamOK(u)'
  BY <1>1, <1>2 DEF InFlight
<1>3. ASSUME NEW h \in Handle, PumpExit(h) PROVE StreamOK(u)'
  <2>1. \A g \in Handle : InFlight(g, u)' <=> InFlight(g, u)
    <3>1. pump[h] = "read" /\ pump'[h] # "data"
      BY <1>3 DEF PumpExit, FanOut, TypeOK
    <3>2. ASSUME NEW g \in Handle, g # h
          PROVE  pump'[g] = pump[g] /\ fan'[g] = fan[g] /\ writing'[g] = writing[g]
      BY <1>3, <3>2 DEF PumpExit, FanOut, TypeOK
    <3> QED
      BY <3>1, <3>2 DEF InFlight
  <2> QED
    BY <1>1, <1>3, <2>1 DEF PumpExit
<1>4. ASSUME NEW h \in Handle, PumpRemove(h) PROVE StreamOK(u)'
  <2>1. \A g \in Handle : InFlight(g, u)' <=> InFlight(g, u)
    BY <1>4 DEF PumpRemove, InFlight, TypeOK
  <2> QED
    BY <1>1, <1>4, <2>1 DEF PumpRemove
<1>5. ASSUME NEW h \in Handle, ChildWatcher(h) \/ ChildExit(h) \/ Drop(h) \/ CloseSession(h)
      PROVE  StreamOK(u)'
  BY <1>2, <1>5 DEF ChildWatcher, ChildExit, Drop, CloseSession
<1>6. CASE Sweep \/ ManagerClose \/ Tick
  BY <1>2, <1>6 DEF Sweep, ManagerClose, Tick
<1>7. CASE \E s \in Stream : ClientStep(s) \/ HandlerStep(s)
  BY <1>0, <1>7, ClientStepStream, HandlerStepStream
<1>8. CASE \E h \in Handle : PumpData(h) \/ SinkWrite(h)
  BY <1>0, <1>8, PumpDataStream, SinkWriteStream
<1> QED
  BY <1>3, <1>4, <1>5, <1>6, <1>7, <1>8 DEF Next, PumpStep

\* StreamInv holds initially.
LEMMA InitStream == Init => StreamInv
<1> SUFFICES ASSUME Init PROVE StreamInv
  OBVIOUS
<1>1. TypeOK /\ BindInv
  BY InitType, InitBind
<1>2. RingOK /\ RingIsTail
  BY ConstAssumption DEF Init, RingOK, RingShape, RingIsTail, Snapshot, newRingBuffer
<1>3. ASSUME NEW s \in Stream PROVE StreamOK(s)
  BY DEF Init, StreamOK, LiveAt, FollowsAt, NotMissedAt, DataAt
<1> QED
  BY <1>1, <1>2, <1>3, PerStream DEF StreamInv

\* StreamInv is inductive.
LEMMA NextInv == StreamInv /\ [Next]_vars => StreamInv'
<1> SUFFICES ASSUME StreamInv, [Next]_vars PROVE StreamInv'
  OBVIOUS
<1>1. TypeOK' /\ BindInv' /\ RingOK' /\ RingIsTail'
  BY NextType, NextBind, NextShape, NextRing DEF StreamInv
<1>2. (LiveOK /\ LiveFollowsSnapshot /\ NoChunkMissed)'
  <2>1. CASE Next
    BY <2>1, NextStream, PerStream, PerStreamNext DEF StreamInv
  <2>2. CASE UNCHANGED vars
    BY <2>2 DEF StreamInv, LiveOK, LiveFollowsSnapshot, NoChunkMissed, DataAt, ChunkAt,
       SnapAt, InFlight, vars, mgrVars, sinkVars, outVars, pumpVars, procVars, sessVars,
       bindVars, streamVars
  <2> QED
    BY <2>1, <2>2
<1> QED
  BY <1>1, <1>2 DEF StreamInv

\* The inductive invariant holds in every reachable state.
THEOREM StreamCorrect == Spec => []StreamInv
BY InitStream, NextInv, PTL DEF Spec

\* "Never both": what a stream is sent live is strictly increasing and all later
\* than its replayed snapshot, so no chunk reaches it twice, for any number of
\* concurrent attaches and detaches (dispatchData, AddSinkWithSnapshot).
THEOREM NeverTwice == Spec => []LiveFollowsSnapshot
<1>1. StreamInv => LiveFollowsSnapshot
  BY DEF StreamInv
<1> QED
  BY <1>1, StreamCorrect, PTL

\* "Never neither": a bound stream with a live connection has every chunk after
\* its snapshot, save the one being dispatched (dispatchData).
THEOREM NeverNeither == Spec => []NoChunkMissed
<1>1. StreamInv => NoChunkMissed
  BY DEF StreamInv
<1> QED
  BY <1>1, StreamCorrect, PTL

-----------------------------------------------------------------------------
(* attachCount counts, so Sweep spares the attached.                        *)

\* The streams counted into session h.
CountedIn(h) == {s \in Stream : sess[s] = h /\ pc[s] \in Counted}

\* AttachCountExact made inductive: an unopened session has count zero.
CountInv ==
  /\ AttachCountExact
  /\ \A h \in Handle : child[h] = "none" => attachCount[h] = 0

\* The set of counted streams is finite, with a natural number of elements.
LEMMA CountedFinite ==
  ASSUME NEW h
  PROVE  IsFiniteSet(CountedIn(h)) /\ Cardinality(CountedIn(h)) \in Nat
BY ConstAssumption, FS_Subset, FS_CardinalityType DEF CountedIn

\* One more, or one less, counted stream.
LEMMA CountedStep ==
  ASSUME NEW h
  PROVE  /\ \A s : s \notin CountedIn(h) /\ CountedIn(h)' = CountedIn(h) \cup {s}
              => Cardinality(CountedIn(h)') = Cardinality(CountedIn(h)) + 1
         /\ \A s : s \in CountedIn(h) /\ CountedIn(h)' = CountedIn(h) \ {s}
              => /\ Cardinality(CountedIn(h)') = Cardinality(CountedIn(h)) - 1
                 /\ Cardinality(CountedIn(h)) > 0
<1> DEFINE C == CountedIn(h)
<1>1. IsFiniteSet(C) /\ Cardinality(C) \in Nat
  BY CountedFinite
<1> HIDE DEF C
<1>2. \A s : s \notin C => Cardinality(C \cup {s}) = Cardinality(C) + 1
  BY <1>1, FS_AddElement
<1>3. \A s : s \in C => Cardinality(C \ {s}) = Cardinality(C) - 1
  BY <1>1, FS_RemoveElement
<1>4. \A s : s \in C => Cardinality(C) # 0
  BY <1>1, FS_EmptySet
<1> QED
  BY <1>1, <1>2, <1>3, <1>4 DEF C

\* A step that neither counts nor uncounts a stream of a live entry, and opens
\* nothing, keeps CountInv.
LEMMA KeepCount ==
  ASSUME CountInv, entries' \subseteq entries, entries \subseteq Handle,
         UNCHANGED attachCount,
         \A h \in entries' : CountedIn(h)' = CountedIn(h),
         \A h \in Handle : child'[h] = "none" => child[h] = "none"
  PROVE  CountInv'
BY DEF CountInv, AttachCountExact, CountedIn

\* An input counts nobody in or out.
LEMMA InputStepCount ==
  ASSUME TypeOK, CountInv, NEW s \in Stream, InputStep(s)
  PROVE  CountInv'
<1>1. PICK next \in {"ack", "loop", "input", "write", "detach"} :
        pc' = [pc EXCEPT ![s] = next]
  BY InputSteps
<1>2. /\ UNCHANGED <<entries, attachCount, child, sess>>
      /\ pc[s] \in {"resize", "loop", "input", "write"}
  BY InputSteps DEF mgrVars, procVars, sessVars, bindVars
<1>3. \A h \in entries : CountedIn(h)' = CountedIn(h)
  BY <1>1, <1>2 DEF TypeOK, CountedIn, Counted
<1> QED
  BY <1>2, <1>3, KeepCount DEF TypeOK

\* A step of a client keeps the counts.
LEMMA ClientStepCount ==
  ASSUME TypeOK, BindInv, CountInv, NEW s \in Stream, ClientStep(s)
  PROVE  CountInv'
<1> USE DEF mgrVars, sinkVars, outVars, pumpVars, procVars, sessVars, bindVars, streamVars
<1>0. entries \subseteq Handle
  BY DEF TypeOK
<1>1. CASE OpenFails(s)
  <2>1. \A h \in entries : CountedIn(h)' = CountedIn(h)
    BY <1>1 DEF OpenFails, CountedIn, Counted, TypeOK
  <2> QED
    BY <1>0, <1>1, <2>1, KeepCount DEF OpenFails
<1>2. ASSUME NEW g \in Handle, AttachReject(s, g) PROVE CountInv'
  <2>1. \A h \in entries : CountedIn(h)' = CountedIn(h)
    BY <1>2 DEF AttachReject, CountedIn, Counted, TypeOK
  <2> QED
    BY <1>0, <1>2, <2>1, KeepCount DEF AttachReject
<1>3. ASSUME NEW g \in Handle, AttachLookup(s, g) PROVE CountInv'
  <2>1. \A h \in entries : CountedIn(h)' = CountedIn(h)
    BY <1>3 DEF AttachLookup, CountedIn, Counted, TypeOK
  <2> QED
    BY <1>0, <1>3, <2>1, KeepCount DEF AttachLookup
<1>4. ASSUME NEW g \in Handle, RegisterClosed(s, g) PROVE CountInv'
  <2>1. sess[s] = NoHandle
    BY <1>4 DEF RegisterClosed, BindInv, BoundOK
  <2>2. \A h \in entries : CountedIn(h)' = CountedIn(h)
    BY <1>0, <1>4, <2>1, ConstAssumption DEF RegisterClosed, CountedIn, TypeOK
  <2>3. \A h \in Handle : child'[h] = "none" => child[h] = "none"
    BY <1>4 DEF RegisterClosed, TypeOK
  <2> QED
    BY <1>0, <1>4, <2>2, <2>3, KeepCount DEF RegisterClosed
<1>5. CASE PeerStep(s)
  BY <1>0, <1>5, KeepCount DEF PeerStep, CountedIn
<1>6. ASSUME NEW g \in Handle, RegisterInsert(s, g) PROVE CountInv'
  <2>1. \A u \in Stream : sess[u] # g
    BY <1>6 DEF RegisterInsert, BindInv, OpenOK
  <2>2. CountedIn(g)' = {}
    BY <1>6, <2>1 DEF RegisterInsert, CountedIn, Counted, TypeOK
  <2>3. attachCount'[g] = 0
    BY <1>6 DEF RegisterInsert, CountInv
  <2>4. ASSUME NEW h \in entries, h # g PROVE CountedIn(h)' = CountedIn(h)
    BY <1>6, <2>4 DEF RegisterInsert, CountedIn, Counted, TypeOK
  <2>5. Cardinality(CountedIn(g)') = 0
    BY <2>2, FS_EmptySet
  <2>6. \A h \in entries' : attachCount'[h] = Cardinality(CountedIn(h)')
    BY <1>6, <2>3, <2>4, <2>5 DEF RegisterInsert, CountInv, AttachCountExact, CountedIn
  <2>7. \A h \in Handle : child'[h] = "none" => attachCount'[h] = 0
    BY <1>6 DEF RegisterInsert, CountInv, TypeOK
  <2> QED
    BY <2>6, <2>7 DEF CountInv, AttachCountExact, CountedIn
<1>7. CASE InputStep(s)
  BY <1>7, InputStepCount
<1> QED
  BY <1>1, <1>2, <1>3, <1>4, <1>5, <1>6, <1>7 DEF ClientStep, InputStep

\* A step of a stream handler counts its stream in, or out, at most once.
LEMMA HandlerStepCount ==
  ASSUME TypeOK, BindInv, CountInv, NEW s \in Stream, HandlerStep(s)
  PROVE  CountInv'
<1> USE DEF mgrVars, sinkVars, outVars, pumpVars, procVars, sessVars, bindVars, streamVars
<1>0. entries \subseteq Handle /\ (pc[s] \in HoldsSession => sess[s] \in Handle)
  BY DEF TypeOK
<1>1. ASSUME UNCHANGED <<entries, attachCount, child, sess>>,
             \A u \in Stream : pc'[u] \in Counted <=> pc[u] \in Counted
      PROVE  CountInv'
  <2>1. \A h \in entries : CountedIn(h)' = CountedIn(h)
    BY <1>1 DEF CountedIn
  <2> QED
    BY <1>0, <1>1, <2>1, KeepCount
<1>2. ASSUME pc[s] \in {"regCount", "attCount"},
             NEW next \in {"ack", "resize"}, pc' = [pc EXCEPT ![s] = next],
             attachCount' = [attachCount EXCEPT ![sess[s]] = @ + 1],
             UNCHANGED <<entries, child, sess>>
      PROVE  CountInv'
  <2>0. PICK g \in Handle : g = sess[s]
    BY <1>0, <1>2 DEF HoldsSession, Registering
  <2>1. s \notin CountedIn(g) /\ CountedIn(g)' = CountedIn(g) \cup {s}
    BY <1>2, <2>0 DEF CountedIn, Counted, TypeOK
  <2>2. Cardinality(CountedIn(g)') = Cardinality(CountedIn(g)) + 1
    BY <2>1, CountedStep
  <2>3. \A h \in entries : h # g => CountedIn(h)' = CountedIn(h)
    BY <1>2, <2>0 DEF CountedIn, Counted, TypeOK
  <2>4. /\ attachCount'[g] = attachCount[g] + 1
        /\ \A h \in Handle : h # g => attachCount'[h] = attachCount[h]
    BY <1>2, <2>0 DEF TypeOK
  <2>5. \A h \in entries : attachCount'[h] = Cardinality(CountedIn(h)')
    <3>1. \A h \in entries : attachCount[h] = Cardinality(CountedIn(h))
      BY DEF CountInv, AttachCountExact, CountedIn
    <3>2. ASSUME NEW h \in entries PROVE attachCount'[h] = Cardinality(CountedIn(h)')
      <4>1. CASE h = g
        BY <2>2, <2>4, <3>1, <4>1
      <4>2. CASE h # g
        BY <1>0, <2>3, <2>4, <3>1, <4>2
      <4> QED
        BY <4>1, <4>2
    <3> QED
      BY <3>2
  <2>6. child[g] # "none"
    BY <2>0 DEF BindInv, OpenOK
  <2>7. \A h \in Handle : child'[h] = "none" => attachCount'[h] = 0
    BY <1>2, <2>4, <2>6 DEF CountInv
  <2> QED
    BY <1>2, <2>5, <2>7 DEF CountInv, AttachCountExact, CountedIn
<1>3. CASE RegisterSink(s)
  BY <1>1, <1>3 DEF RegisterSink, Counted, TypeOK
<1>4. CASE RegisterCount(s)
  BY <1>2, <1>4 DEF RegisterCount
<1>5. CASE AttachSink(s)
  BY <1>1, <1>5 DEF AttachSink, Counted, TypeOK
<1>6. CASE AttachCount(s)
  BY <1>2, <1>6 DEF AttachCount
<1>7. CASE AckReplay(s)
  BY <1>1, <1>7 DEF AckReplay, Counted, TypeOK
<1>8. CASE ReadEnds(s)
  BY <1>1, <1>8 DEF ReadEnds, Counted, TypeOK
<1>9. CASE DetachLookup(s)
  <2>1. \A h \in entries : CountedIn(h)' = CountedIn(h)
    BY <1>9 DEF DetachLookup, CountedIn, Counted, TypeOK
  <2> QED
    BY <1>0, <1>9, <2>1, KeepCount DEF DetachLookup
<1>10. CASE DetachSink(s)
  BY <1>1, <1>10 DEF DetachSink, Counted, TypeOK
<1>11. CASE DetachCount(s)
  <2>0. PICK g \in Handle : g = sess[s] /\ attachCount[g] \in Nat
    BY <1>0, <1>11 DEF DetachCount, HoldsSession, TypeOK
  <2>1. s \in CountedIn(g) /\ CountedIn(g)' = CountedIn(g) \ {s}
    BY <1>11, <2>0 DEF DetachCount, CountedIn, Counted, TypeOK
  <2>2. /\ Cardinality(CountedIn(g)') = Cardinality(CountedIn(g)) - 1
        /\ Cardinality(CountedIn(g)) > 0
    BY <2>1, CountedStep
  <2>3. \A h \in entries : h # g => CountedIn(h)' = CountedIn(h)
    BY <1>11, <2>0 DEF DetachCount, CountedIn, Counted, TypeOK
  <2>4. /\ attachCount'[g] = IF attachCount[g] > 0 THEN attachCount[g] - 1 ELSE 0
        /\ \A h \in Handle : h # g => attachCount'[h] = attachCount[h]
    BY <1>11, <2>0 DEF DetachCount, TypeOK
  <2>5. \A h \in entries : attachCount'[h] = Cardinality(CountedIn(h)')
    <3>1. \A h \in entries : attachCount[h] = Cardinality(CountedIn(h))
      BY DEF CountInv, AttachCountExact, CountedIn
    <3>2. ASSUME NEW h \in entries PROVE attachCount'[h] = Cardinality(CountedIn(h)')
      <4>1. CASE h = g
        BY <2>2, <2>4, <3>1, <4>1
      <4>2. CASE h # g
        BY <1>0, <2>3, <2>4, <3>1, <4>2
      <4> QED
        BY <4>1, <4>2
    <3> QED
      BY <3>2
  <2>6. \A h \in Handle : child'[h] = "none" => attachCount'[h] = 0
    BY <1>11, <2>0, <2>4 DEF DetachCount, CountInv
  <2> QED
    BY <1>11, <2>5, <2>6 DEF DetachCount, CountInv, AttachCountExact, CountedIn
<1>12. CASE InputStep(s)
  BY <1>12, InputStepCount
<1> QED
  BY <1>3, <1>4, <1>5, <1>6, <1>7, <1>8, <1>9, <1>10, <1>11, <1>12 DEF HandlerStep, InputStep

\* A step of Next, or a stuttering step, keeps the counts.
LEMMA NextCount == TypeOK /\ BindInv /\ CountInv /\ [Next]_vars => CountInv'
<1> SUFFICES ASSUME TypeOK, BindInv, CountInv, [Next]_vars PROVE CountInv'
  OBVIOUS
<1> USE DEF mgrVars, sinkVars, outVars, pumpVars, procVars, sessVars, bindVars, streamVars
<1>0. entries \subseteq Handle
  BY DEF TypeOK
<1>1. ASSUME entries' \subseteq entries, UNCHANGED <<attachCount, streamVars>>,
             \A h \in Handle : child'[h] = "none" => child[h] = "none"
      PROVE  CountInv'
  BY <1>0, <1>1, KeepCount DEF CountedIn
<1>2. ASSUME NEW h \in Handle, PumpData(h) \/ ChildExit(h) \/ Drop(h) \/ CloseSession(h)
      PROVE  CountInv'
  BY <1>1, <1>2 DEF PumpData, ChildExit, Drop, CloseSession, TypeOK
<1>3. ASSUME NEW h \in Handle, ChildWatcher(h) \/ PumpExit(h) \/ PumpRemove(h)
      PROVE  CountInv'
  BY <1>1, <1>3 DEF ChildWatcher, PumpExit, PumpRemove
<1>4. ASSUME NEW h \in Handle, SinkWrite(h) PROVE CountInv'
  <2>1. UNCHANGED <<entries, attachCount, child, sess, pc>>
    BY <1>4 DEF SinkWrite
  <2> QED
    BY <1>0, <2>1, KeepCount DEF CountedIn
<1>5. CASE Sweep \/ ManagerClose \/ Tick
  BY <1>1, <1>5 DEF Sweep, ManagerClose, Tick
<1>6. CASE UNCHANGED vars
  BY <1>1, <1>6 DEF vars
<1>7. CASE \E s \in Stream : ClientStep(s) \/ HandlerStep(s)
  BY <1>7, ClientStepCount, HandlerStepCount
<1> QED
  BY <1>2, <1>3, <1>4, <1>5, <1>6, <1>7 DEF Next, PumpStep

\* CountInv holds in every reachable state.
THEOREM CountInvariant == Spec => []CountInv
<1>1. Init => CountInv
  BY DEF Init, CountInv, AttachCountExact
<1> QED
  BY <1>1, NextCount, TypeCorrect, BindCorrect, PTL DEF Spec

\* attachCount of a live entry is the number of streams counted in, for any
\* number of streams and any interleaving of Register, Attach and Detach.
THEOREM CountCorrect == Spec => []AttachCountExact
<1>1. CountInv => AttachCountExact
  BY DEF CountInv
<1> QED
  BY <1>1, CountInvariant, PTL

\* Sweep never evicts a session that a stream is counted into (Sweep).
THEOREM SweepSpares == Spec => SweepSparesAttached
<1> DEFINE A == Sweep => \A s \in Stream : pc[s] \in Counted => sess[s] \notin Expired
<1>1. ASSUME TypeOK, CountInv PROVE A
  <2>1. ASSUME NEW s \in Stream, pc[s] \in Counted, sess[s] \in Expired PROVE FALSE
    <3>1. sess[s] \in entries /\ attachCount[sess[s]] = 0
      BY <2>1 DEF Expired
    <3>2. Cardinality(CountedIn(sess[s])) = 0
      BY <1>1, <3>1 DEF CountInv, AttachCountExact, CountedIn
    <3>3. CountedIn(sess[s]) = {}
      BY <3>2, CountedFinite, FS_EmptySet
    <3>4. s \in CountedIn(sess[s])
      BY <2>1 DEF CountedIn
    <3> QED
      BY <3>3, <3>4
  <2> QED
    BY <2>1
<1> HIDE DEF A
<1>2. Spec => [][A]_vars
  BY <1>1, TypeCorrect, CountInvariant, PTL DEF Spec
<1> QED
  BY <1>2 DEF SweepSparesAttached, A

-----------------------------------------------------------------------------
(* After the exit frame.                                                    *)

\* Pump has begun to announce the end of session h and is past stream s.
Quiet(h, s) ==
  /\ pump[h] \in {"exit", "remove", "done"}
  /\ pump[h] = "exit" => s \notin fan[h] /\ writing[h] # s

\* An exit frame is followed by no data and no other exit frame, and Pump will
\* not write to the stream again.
ExitedAt(s) ==
  \A i \in DOMAIN wire[s] : wire[s][i].kind = "exit" =>
    /\ \A j \in DOMAIN wire[s] : i < j => wire[s][j].kind \notin {"data", "exit"}
    /\ sess[s] # NoHandle => Quiet(sess[s], s)

ExitInv == \A s \in Stream : ExitedAt(s)

\* Frames that are neither data nor exit may follow.
LEMMA ExtendExit ==
  ASSUME NEW s, ExitedAt(s), sess'[s] = sess[s],
         sess[s] # NoHandle /\ Quiet(sess[s], s) => Quiet(sess[s], s)',
         \A i \in DOMAIN wire'[s] :
           \/ i \in DOMAIN wire[s] /\ wire'[s][i] = wire[s][i]
           \/ wire'[s][i].kind \notin {"data", "exit"}
  PROVE  ExitedAt(s)'
<1> SUFFICES ASSUME NEW i \in DOMAIN wire'[s], wire'[s][i].kind = "exit"
             PROVE  /\ \A j \in DOMAIN wire'[s] :
                         i < j => wire'[s][j].kind \notin {"data", "exit"}
                    /\ (sess[s] # NoHandle => Quiet(sess[s], s))'
  BY DEF ExitedAt
<1>1. i \in DOMAIN wire[s] /\ wire[s][i].kind = "exit"
  OBVIOUS
<1>2. /\ \A j \in DOMAIN wire[s] : i < j => wire[s][j].kind \notin {"data", "exit"}
      /\ sess[s] # NoHandle => Quiet(sess[s], s)
  BY <1>1 DEF ExitedAt
<1>3. \A j \in DOMAIN wire'[s] : i < j => wire'[s][j].kind \notin {"data", "exit"}
  BY <1>2
<1>4. (sess[s] # NoHandle => Quiet(sess[s], s))'
  BY <1>2
<1> QED
  BY <1>3, <1>4

\* One more frame on the wire.
LEMMA OneFrame ==
  ASSUME NEW w \in Seq(Frame), NEW f
  PROVE  /\ DOMAIN Append(w, f) = DOMAIN w \cup {Len(w) + 1}
         /\ \A i \in DOMAIN w : Append(w, f)[i] = w[i] /\ i < Len(w) + 1
         /\ Append(w, f)[Len(w) + 1] = f
<1> DEFINE a == Append(w, f)
<1>1. /\ DOMAIN w = 1 .. Len(w) /\ Len(w) \in Nat /\ DOMAIN a = 1 .. Len(w) + 1
      /\ \A i \in 1 .. Len(w) : a[i] = w[i]
      /\ a[Len(w) + 1] = f
  OBVIOUS
<1> HIDE DEF a
<1>2. DOMAIN a = DOMAIN w \cup {Len(w) + 1}
  BY <1>1
<1>3. \A i \in DOMAIN w : a[i] = w[i] /\ i < Len(w) + 1
  BY <1>1
<1> QED
  BY <1>1, <1>2, <1>3 DEF a

\* Nothing is written, and Pump stays past the stream.
LEMMA KeepExit ==
  ASSUME NEW s, ExitedAt(s), sess'[s] = sess[s], wire'[s] = wire[s],
         sess[s] # NoHandle /\ Quiet(sess[s], s) => Quiet(sess[s], s)'
  PROVE  ExitedAt(s)'
BY ExtendExit

\* A handler, or a client, writes what is neither data nor exit.
LEMMA StreamStepExit ==
  ASSUME TypeOK, BindInv, NEW s \in Stream, ClientStep(s) \/ HandlerStep(s),
         NEW u \in Stream, ExitedAt(u)
  PROVE  ExitedAt(u)'
<1> USE DEF mgrVars, sinkVars, outVars, pumpVars, procVars, sessVars, bindVars, streamVars
<1>1. ASSUME wire'[u] = wire[u], sess'[u] = sess[u], UNCHANGED pumpVars PROVE ExitedAt(u)'
  BY <1>1, KeepExit DEF Quiet
<1>2. ASSUME u = s, pc[s] = "idle", UNCHANGED wire PROVE ExitedAt(u)'
  <2>1. wire'[u] = <<>>
    BY <1>2 DEF BindInv, BoundOK
  <2> QED
    BY <2>1 DEF ExitedAt
<1>3. ASSUME u = s, pc[s] = "idle", UNCHANGED bindVars,
             NEW f \in Frame, wire'[s] = Written(s, f)
      PROVE  ExitedAt(u)'
  <2>1. wire[s] = <<>> /\ sess'[s] = NoHandle
    BY <1>3 DEF BindInv, BoundOK
  <2>2. \A i, j \in DOMAIN wire'[s] : ~(i < j)
    BY <1>3, <2>1 DEF Written
  <2> QED
    BY <1>3, <2>1, <2>2 DEF ExitedAt
<1>4. CASE OpenFails(s)
  BY <1>1, <1>3, <1>4, FrameTypes DEF OpenFails, TypeOK
<1>5. ASSUME NEW h \in Handle, RegisterInsert(s, h) \/ RegisterClosed(s, h) \/ AttachLookup(s, h)
      PROVE  ExitedAt(u)'
  BY <1>1, <1>2, <1>5 DEF RegisterInsert, RegisterClosed, AttachLookup, TypeOK
<1>6. ASSUME NEW h \in Handle, AttachReject(s, h) PROVE ExitedAt(u)'
  BY <1>1, <1>3, <1>6, FrameTypes DEF AttachReject, TypeOK
<1>7. CASE RegisterCount(s)
  <2> PICK h : h = sess[s]
    OBVIOUS
  <2>1. pump[h] = "none" /\ h \in Handle
    BY <1>7 DEF RegisterCount, BindInv, OpenOK, Registering, TypeOK, HoldsSession
  <2>2. UNCHANGED <<wire, sess, fan, writing>> /\ pump' = [pump EXCEPT ![h] = "read"]
    BY <1>7 DEF RegisterCount
  <2>3. sess[u] \in Handle /\ Quiet(sess[u], u) => Quiet(sess[u], u)'
    BY <2>1, <2>2 DEF Quiet, TypeOK
  <2> QED
    BY <2>2, <2>3, KeepExit DEF TypeOK
<1>8. CASE AckReplay(s)
  <2>1. UNCHANGED <<sess, pumpVars>> /\ wire[s] \in Seq(Frame)
    BY <1>8 DEF AckReplay, TypeOK
  <2>2. CASE u # s
    BY <1>1, <1>8, <2>2 DEF AckReplay, TypeOK
  <2>3. CASE u = s
    <3> DEFINE a == AckFrame
               r == ReplayFrame(replay[s])
               w == Append(wire[s], a)
    <3>1. /\ a.kind = "ack" /\ r.kind = "replay" /\ a \in Frame
          /\ w \in Seq(Frame)
      BY <2>1, FrameTypes DEF AckFrame, ReplayFrame
    <3>2. Written(s, a) \in {wire[s], w}
      BY DEF Written
    <3>3. wire'[s] \in {wire[s], w, Append(wire[s], r), Append(w, r)}
      BY <1>8, <3>2 DEF AckReplay, TypeOK
    <3> HIDE DEF a, r, w
    <3>4. /\ DOMAIN w = DOMAIN wire[s] \cup {Len(wire[s]) + 1}
          /\ \A i \in DOMAIN wire[s] : w[i] = wire[s][i]
          /\ w[Len(wire[s]) + 1] = a
      BY <2>1, OneFrame DEF w
    <3>5. /\ DOMAIN Append(w, r) = DOMAIN w \cup {Len(w) + 1}
          /\ \A i \in DOMAIN w : Append(w, r)[i] = w[i]
          /\ Append(w, r)[Len(w) + 1] = r
      BY <3>1, OneFrame
    <3>6. /\ DOMAIN Append(wire[s], r) = DOMAIN wire[s] \cup {Len(wire[s]) + 1}
          /\ \A i \in DOMAIN wire[s] : Append(wire[s], r)[i] = wire[s][i]
          /\ Append(wire[s], r)[Len(wire[s]) + 1] = r
      BY <2>1, OneFrame
    <3>7. \A i \in DOMAIN wire'[s] :
            \/ i \in DOMAIN wire[s] /\ wire'[s][i] = wire[s][i]
            \/ wire'[s][i].kind \notin {"data", "exit"}
      <4>1. CASE wire'[s] = wire[s]
        BY <4>1
      <4>2. CASE wire'[s] = w
        BY <3>1, <3>4, <4>2
      <4>3. CASE wire'[s] = Append(wire[s], r)
        BY <3>1, <3>6, <4>3
      <4>4. CASE wire'[s] = Append(w, r)
        BY <3>1, <3>4, <3>5, <4>4
      <4> QED
        BY <3>3, <4>1, <4>2, <4>3, <4>4
    <3> QED
      BY <2>1, <2>3, <3>7, ExtendExit DEF Quiet
  <2> QED
    BY <2>2, <2>3
<1>9. CASE \/ PeerStep(s) \/ RegisterSink(s) \/ AttachSink(s) \/ AttachCount(s)
           \/ ReadEnds(s) \/ DetachLookup(s) \/ DetachSink(s) \/ DetachCount(s)
  BY <1>1, <1>9 DEF PeerStep, RegisterSink, AttachSink, AttachCount, ReadEnds, DetachLookup,
     DetachSink, DetachCount
<1>10. CASE InputStep(s)
  BY <1>1, <1>10, InputSteps
<1> QED
  BY <1>4, <1>5, <1>6, <1>7, <1>8, <1>9, <1>10 DEF ClientStep, HandlerStep, InputStep

\* Pump writes each stream its exit frame once, after the last data.
LEMMA SinkWriteExit ==
  ASSUME TypeOK, BindInv, NEW h \in Handle, SinkWrite(h), NEW u \in Stream, ExitedAt(u)
  PROVE  ExitedAt(u)'
<1> USE DEF mgrVars, sinkVars, outVars, pumpVars, procVars, sessVars, bindVars, streamVars
<1> PICK w : w = writing[h]
  OBVIOUS
<1>1. /\ w \in Stream /\ UNCHANGED sess
      /\ pump[h] \in {"data", "exit"} /\ w \notin fan[h] /\ sess[w] = h /\ h # NoHandle
  BY ConstAssumption
     DEF SinkWrite, BindInv, FanOK, SinkMuFree, SinkTableOK, SinkStreams, TypeOK
<1> PICK f : f = IF pump[h] = "data" THEN DataFrame(out[h]) ELSE ExitFrame
  OBVIOUS
<1>2. wire' = [wire EXCEPT ![w] = Written(w, f)]
  BY DEF SinkWrite
<1>3. ASSUME NEW g \in Handle, g # h
      PROVE  pump'[g] = pump[g] /\ fan'[g] = fan[g] /\ writing'[g] = writing[g]
  BY <1>3 DEF SinkWrite, FanOut, TypeOK
<1>4. /\ pump'[h] \in {"data", "read", "exit", "remove"}
      /\ pump[h] = "exit" =>
           /\ pump'[h] \in {"exit", "remove"}
           /\ fan'[h] \subseteq fan[h]
           /\ pump'[h] = "exit" => writing'[h] \in fan[h]
  <2>1. CASE fan[h] = {}
    BY <1>1, <2>1 DEF SinkWrite, FanOut, TypeOK
  <2>2. ASSUME NEW s \in fan[h], writing' = [writing EXCEPT ![h] = s],
               fan' = [fan EXCEPT ![h] = fan[h] \ {s}], pump' = [pump EXCEPT ![h] = pump[h]]
        PROVE  <1>4!1 /\ <1>4!2
    BY <1>1, <2>2 DEF TypeOK
  <2> QED
    BY <2>1, <2>2 DEF SinkWrite, FanOut
<1>5. ASSUME sess[u] = h, u \notin fan[h] PROVE Quiet(h, u) \/ pump[h] = "exit" => Quiet(h, u)'
  <2>1. CASE pump[h] = "exit"
    BY <1>4, <1>5, <2>1 DEF Quiet
  <2> QED
    BY <1>1, <2>1 DEF Quiet
<1>6. CASE u # w
  <2>1. Quiet(h, u) => u \notin fan[h]
    BY <1>1 DEF Quiet
  <2>2. sess[u] # NoHandle /\ Quiet(sess[u], u) => Quiet(sess[u], u)'
    BY <1>1, <1>3, <1>5, <2>1 DEF Quiet, TypeOK
  <2> QED
    BY <1>1, <1>2, <1>6, <2>2, KeepExit DEF TypeOK
<1>7. CASE u = w
  <2>1. \A i \in DOMAIN wire[u] : wire[u][i].kind # "exit"
    BY <1>1, <1>7 DEF ExitedAt, Quiet
  <2>2. CASE wire'[u] = wire[u]
    BY <2>1, <2>2 DEF ExitedAt
  <2>3. CASE wire'[u] = Append(wire[u], f)
    <3> PICK n : n = Len(wire[u]) + 1
      OBVIOUS
    <3>1. /\ DOMAIN wire'[u] = DOMAIN wire[u] \cup {n}
          /\ \A i \in DOMAIN wire[u] : wire'[u][i] = wire[u][i] /\ i < n
          /\ wire'[u][n] = f /\ n \in Nat /\ wire[u] \in Seq(Frame)
      BY <2>3, OneFrame DEF TypeOK
    <3>2. ASSUME NEW i \in DOMAIN wire'[u], wire'[u][i].kind = "exit"
          PROVE  i = n /\ pump[h] = "exit"
      <4>1. i = n /\ f.kind = "exit"
        BY <2>1, <3>1, <3>2
      <4>2. pump[h] # "data"
        BY <4>1 DEF DataFrame
      <4> QED
        BY <1>1, <4>1, <4>2
    <3>3. \A j \in DOMAIN wire'[u] : ~(n < j)
      BY <3>1
    <3> QED
      BY <1>1, <1>5, <1>7, <3>2, <3>3 DEF ExitedAt
  <2> QED
    BY <1>2, <1>7, <2>2, <2>3 DEF Written, TypeOK
<1> QED
  BY <1>6, <1>7

\* A step of Next keeps ExitInv.
LEMMA NextExit ==
  ASSUME TypeOK, BindInv, ExitInv, [Next]_vars
  PROVE  ExitInv'
<1> USE DEF mgrVars, sinkVars, outVars, pumpVars, procVars, sessVars, bindVars, streamVars
<1> SUFFICES ASSUME NEW u \in Stream PROVE ExitedAt(u)'
  BY DEF ExitInv
<1>0. ExitedAt(u) /\ (sess[u] # NoHandle => sess[u] \in Handle)
  BY DEF ExitInv, TypeOK
<1>1. ASSUME UNCHANGED <<wire, sess, pumpVars>> PROVE ExitedAt(u)'
  BY <1>0, <1>1, KeepExit DEF Quiet
<1>2. ASSUME NEW h \in Handle, pump[h] = "read", UNCHANGED <<wire, sess>>,
             NEW during, NEW after, FanOut(h, SinkStreams(h), during, after)
      PROVE  ExitedAt(u)'
  <2>1. \A g \in Handle : Quiet(g, u) => Quiet(g, u)'
    BY <1>2 DEF FanOut, Quiet, TypeOK
  <2> QED
    BY <1>0, <1>2, <2>1, KeepExit
<1>3. ASSUME NEW h \in Handle, PumpData(h) \/ PumpExit(h) PROVE ExitedAt(u)'
  BY <1>2, <1>3 DEF PumpData, PumpExit
<1>4. ASSUME NEW h \in Handle, PumpRemove(h) PROVE ExitedAt(u)'
  <2>1. \A g \in Handle : Quiet(g, u) => Quiet(g, u)'
    BY <1>4 DEF PumpRemove, Quiet, TypeOK
  <2> QED
    BY <1>0, <1>4, <2>1, KeepExit DEF PumpRemove
<1>5. ASSUME NEW h \in Handle, ChildWatcher(h) \/ ChildExit(h) \/ Drop(h) \/ CloseSession(h)
      PROVE  ExitedAt(u)'
  BY <1>1, <1>5 DEF ChildWatcher, ChildExit, Drop, CloseSession
<1>6. CASE Sweep \/ ManagerClose \/ Tick
  BY <1>1, <1>6 DEF Sweep, ManagerClose, Tick
<1>7. CASE \E s \in Stream : ClientStep(s) \/ HandlerStep(s)
  BY <1>0, <1>7, StreamStepExit
<1>8. CASE \E h \in Handle : SinkWrite(h)
  BY <1>0, <1>8, SinkWriteExit
<1>9. CASE UNCHANGED vars
  BY <1>1, <1>9 DEF vars
<1> QED
  BY <1>3, <1>4, <1>5, <1>6, <1>7, <1>8, <1>9 DEF Next, PumpStep

\* ExitInv holds in every reachable state.
THEOREM ExitInvariant == Spec => []ExitInv
<1>1. Init => ExitInv
  BY DEF Init, ExitInv, ExitedAt
<1> QED
  BY <1>1, NextExit, TypeCorrect, BindCorrect, PTL DEF Spec

\* Pump sends a stream no data and no second exit frame after its exit frame,
\* also to one that attaches or detaches while the session ends; the ack and the
\* replay of the stream's own handler may still follow it (dispatchExit).
THEOREM NoLiveLate == Spec => []NoLiveAfterExit
<1>1. ExitInv => NoLiveAfterExit
  BY DEF ExitInv, ExitedAt, NoLiveAfterExit
<1> QED
  BY <1>1, ExitInvariant, PTL
=============================================================================
