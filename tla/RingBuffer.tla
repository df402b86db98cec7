------------------------------ MODULE RingBuffer ------------------------------
(***************************************************************************)
(* ringBuffer of windows/ptyhost/manager.go: the scrollback of a persisted *)
(* session, as operators on its four fields.  buf grows until it holds cap *)
(* units; from then on it is overwritten at head, wrapping around.  head   *)
(* counts from 0, as in the code; sequences count from 1.                  *)
(***************************************************************************)
EXTENDS Naturals, Sequences

newRingBuffer(cap) == [cap |-> cap, buf |-> <<>>, head |-> 0, full |-> FALSE]

\* copy(b[at:], p): as much of p as fits behind position at of b.
Copy(b, at, p) ==
  [i \in 1 .. Len(b) |-> IF at < i /\ i <= at + Len(p) THEN p[i - at] ELSE b[i]]

\* Room is left for the whole of p: it is appended.
Extend(r, p) ==
  LET n == Len(r.buf) + Len(p) IN
  [r EXCEPT !.buf = @ \o p, !.head = n, !.full = n = r.cap]

\* Mutation of Overwrite: the part of p that wraps is taken from its start.
OverwriteRestarts(r, p) ==
  LET tail == r.cap - r.head
      n == Len(p)
  IN  IF n >= r.cap
      THEN [r EXCEPT !.buf = Copy(@, 0, SubSeq(p, n - r.cap + 1, n)), !.head = 0]
      ELSE IF n <= tail
      THEN [r EXCEPT !.buf = Copy(@, r.head, p), !.head = IF @ + n = r.cap THEN 0 ELSE @ + n]
      ELSE [r EXCEPT !.buf = Copy(Copy(@, r.head, SubSeq(p, 1, tail)), 0, SubSeq(p, 1, n - tail)),
                     !.head = n - tail]

\* buf holds cap units: p is written across head.  Of a p that is longer than the
\* buffer only the tail survives.
Overwrite(r, p) ==
  LET tail == r.cap - r.head
      n == Len(p)
  IN  IF n >= r.cap
      THEN [r EXCEPT !.buf = Copy(@, 0, SubSeq(p, n - r.cap + 1, n)), !.head = 0]
      ELSE IF n <= tail
      THEN [r EXCEPT !.buf = Copy(@, r.head, p), !.head = IF @ + n = r.cap THEN 0 ELSE @ + n]
      ELSE [r EXCEPT !.buf = Copy(Copy(@, r.head, SubSeq(p, 1, tail)), 0, SubSeq(p, tail + 1, n)),
                     !.head = n - tail]

\* write.  The first write that does not fit fills buf to cap and overwrites with
\* what is left (need <= Len(p), so the branch for a shorter p is never taken).
RingWrite(r, p) ==
  IF ~r.full /\ Len(r.buf) + Len(p) <= r.cap THEN Extend(r, p)
  ELSE IF r.full THEN Overwrite(r, p)
  ELSE LET need == r.cap - Len(r.buf) IN
       Overwrite([r EXCEPT !.buf = @ \o SubSeq(p, 1, need), !.head = 0, !.full = TRUE],
                 SubSeq(p, need + 1, Len(p)))

\* snapshot: the contents, oldest first.
Snapshot(r) ==
  IF ~r.full THEN r.buf
  ELSE SubSeq(r.buf, r.head + 1, r.cap) \o SubSeq(r.buf, 1, r.head)

-----------------------------------------------------------------------------
\* The last k elements of a sequence, or all of it.
LastOf(q, k) == IF Len(q) <= k THEN q ELSE SubSeq(q, Len(q) - k + 1, Len(q))

\* What write leaves true of the fields.
RingShape(r) ==
  /\ ~r.full => Len(r.buf) < r.cap /\ r.head = Len(r.buf)
  /\ r.full  => Len(r.buf) = r.cap /\ r.head <= r.cap
=============================================================================
