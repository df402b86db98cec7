----------------------------- MODULE RateLimit ------------------------------
(***************************************************************************)
(* server/ratelimit: the limits on upgrades per address, on registrations  *)
(* per user and on Connects per device.  A bucket is refilled only when it *)
(* is used, and forgotten by any later call once it has been idle for long *)
(* enough.  Time is relative: idle is the number of ticks since entry.last,*)
(* saturating just past IdleTTL.  One token is Refill units, and a bucket  *)
(* gains one unit per tick.                                                *)
(***************************************************************************)
EXTENDS Naturals

CONSTANTS
  Key,       \* addresses, users or devices
  Capacity,  \* burst size, in tokens
  Refill,    \* ticks in which a bucket gains one token
  IdleTTL,   \* entries idle for longer are dropped (10 minutes)
  MaxWatch   \* bound: ticks of an observation

\* New does not relate its arguments to the 10 minutes; the defaults and the
\* sample configurations satisfy the last line.
ASSUME LimitAssumption ==
  /\ Capacity \in Nat \ {0} /\ Refill \in Nat \ {0}
  /\ IdleTTL \in Nat /\ MaxWatch \in Nat
  /\ IdleTTL + 1 >= Capacity * Refill

Full == Capacity * Refill

VARIABLES
  entries,   \* Bucket.entries; its domain is the set of keys that have one
  verdict,   \* the last answer: <<key, admitted>>, or <<>>
  admitted,  \* history: requests of a key admitted since the observation began
  elapsed    \* history: ticks since the observation began

limitVars == <<entries, verdict, admitted, elapsed>>

Entry == [tokens : 0 .. Full, idle : 0 .. IdleTTL + 1]

NoEntries == [k \in {} |-> [tokens |-> Full, idle |-> 0]]

LimitInit ==
  /\ entries = NoEntries /\ verdict = <<>>
  /\ admitted = [k \in Key |-> 0] /\ elapsed = 0

Capped(n) == IF n > Full THEN Full ELSE n

\* What Allow finds in the bucket of key after the refill.
Level(key) ==
  IF key \in DOMAIN entries
  THEN Capped(entries[key].tokens + entries[key].idle)
  ELSE Full

\* Mutation: entries are dropped a tick early.
StaleEarly == {k \in DOMAIN entries : entries[k].idle >= IdleTTL}

\* The entries that the lazy prune drops.
Stale == {k \in DOMAIN entries : entries[k].idle > IdleTTL}

\* Mutation: a refused request does not stamp its entry.
AllowKeepsStamp(key) ==
  LET ok == Level(key) >= Refill
  IN  /\ verdict' = <<key, ok>>
      /\ entries' = [k \in (DOMAIN entries \ Stale) \cup {key} |->
           IF k = key
           THEN [tokens |-> IF ok THEN Level(key) - Refill ELSE Level(key),
                 idle   |-> IF ok THEN 0 ELSE entries[key].idle]
           ELSE entries[k]]
      /\ admitted' = [admitted EXCEPT ![key] = IF ok THEN @ + 1 ELSE @]
      /\ UNCHANGED elapsed

\* Allow: the refill, the prune, which spares the entry just stamped, and the
\* token, if there is one.
Allow(key) ==
  LET ok == Level(key) >= Refill
  IN  /\ verdict' = <<key, ok>>
      /\ entries' = [k \in (DOMAIN entries \ Stale) \cup {key} |->
           IF k = key
           THEN [tokens |-> IF ok THEN Level(key) - Refill ELSE Level(key), idle |-> 0]
           ELSE entries[k]]
      /\ admitted' = [admitted EXCEPT ![key] = IF ok THEN @ + 1 ELSE @]
      /\ UNCHANGED elapsed

\* Reset, which also ends an observation.
Reset ==
  /\ entries' = NoEntries /\ verdict' = <<>>
  /\ admitted' = [k \in Key |-> 0] /\ elapsed' = 0

LimitTick ==
  /\ elapsed < MaxWatch
  /\ entries' = [k \in DOMAIN entries |->
                   [entries[k] EXCEPT !.idle = IF @ > IdleTTL THEN @ ELSE @ + 1]]
  /\ verdict' = <<>> /\ elapsed' = elapsed + 1
  /\ UNCHANGED admitted

\* An observation may begin at any time.
Watch ==
  /\ admitted' = [k \in Key |-> 0] /\ elapsed' = 0
  /\ UNCHANGED <<entries, verdict>>

LimitNext == LimitTick \/ Reset \/ Watch \/ \E key \in Key : Allow(key)

LimitSpec == LimitInit /\ [][LimitNext]_limitVars

-----------------------------------------------------------------------------
(* Properties.                                                             *)

\* The types of the variables.
LimitTypeOK ==
  /\ DOMAIN entries \subseteq Key
  /\ \A k \in DOMAIN entries : entries[k] \in Entry
  /\ verdict = <<>> \/ verdict \in Key \X BOOLEAN
  /\ admitted \in [Key -> Nat] /\ elapsed \in Nat

\* Allow: over any interval, begun at any time and whatever was pruned in it, a
\* key is admitted at most the burst and what the rate yields in that time.
RateBound == \A k \in Key : admitted[k] * Refill <= Full + elapsed

\* Allow answers exactly as a limiter does that refills all buckets all the
\* time and never drops one: neither the lazy refill nor the prune gives a key
\* a token or costs it one.
Abstract == INSTANCE TokenBucket WITH level <- [k \in Key |-> Level(k)]
Implements == Abstract!Spec
=============================================================================
