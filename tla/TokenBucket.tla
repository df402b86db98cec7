----------------------------- MODULE TokenBucket -----------------------------
(***************************************************************************)
(* What server/ratelimit promises: every key has a bucket of Capacity      *)
(* tokens, refilled continuously; a request is admitted if and only if it  *)
(* finds a whole token.  One token is Refill units, and a bucket gains one *)
(* unit at every tick of the clock.  There is no table of entries here,    *)
(* and nothing is ever dropped.                                            *)
(***************************************************************************)
EXTENDS Naturals

CONSTANTS
  Key,       \* addresses, users or devices
  Capacity,  \* burst size, in tokens
  Refill     \* ticks in which a bucket gains one token

Full == Capacity * Refill

VARIABLES
  level,     \* key -> units in its bucket
  verdict    \* the last answer: <<key, admitted>>, or <<>>

vars == <<level, verdict>>

Init == level = [k \in Key |-> Full] /\ verdict = <<>>

Request(k) ==
  /\ verdict' = <<k, level[k] >= Refill>>
  /\ level' = [level EXCEPT ![k] = IF @ >= Refill THEN @ - Refill ELSE @]

Tick ==
  /\ level' = [k \in Key |-> IF level[k] < Full THEN level[k] + 1 ELSE Full]
  /\ verdict' = <<>>

Forgive ==
  /\ level' = [k \in Key |-> Full]
  /\ verdict' = <<>>

Next == Tick \/ Forgive \/ \E k \in Key : Request(k)

Spec == Init /\ [][Next]_vars
=============================================================================
