---------------------------- MODULE MCRingBuffer ----------------------------
(***************************************************************************)
(* Model checking of RingBuffer: a session prints chunks of every size,    *)
(* empty ones and ones longer than the buffer among them, into buffers of  *)
(* several capacities.  The n-th unit of output is the number n.           *)
(***************************************************************************)
EXTENDS RingBuffer

CONSTANTS
  MaxCap,   \* bound: capacity of the buffer
  MaxChunk, \* bound: units in one chunk
  MaxOut    \* bound: units printed in all

VARIABLES
  ring,     \* the ringBuffer
  out       \* units written so far

Units(from, to) == [i \in 1 .. to - from |-> from + i]

Init == /\ \E cap \in 1 .. MaxCap : ring = newRingBuffer(cap)
        /\ out = 0

WriteChunk(n) ==
  /\ out + n <= MaxOut
  /\ ring' = RingWrite(ring, Units(out, out + n))
  /\ out' = out + n

Next == \E n \in 0 .. MaxChunk : WriteChunk(n)

Spec == Init /\ [][Next]_<<ring, out>>

\* However the output is cut into chunks, a snapshot is its most recent part, as
\* long as the capacity, in order and without a gap (ringBuffer.write, snapshot).
RingKeepsTail ==
  /\ Snapshot(ring) = LastOf(Units(0, out), ring.cap)
  /\ RingShape(ring)
=============================================================================
