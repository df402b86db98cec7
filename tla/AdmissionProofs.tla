--------------------------- MODULE AdmissionProofs ---------------------------
(***************************************************************************)
(* Proofs about the two guards of the signaling server's door, PskAuth and *)
(* RateLimit, which share no state:                                        *)
(*   - no Register is accepted twice, for every skew, window, tick length  *)
(*     and number of concurrent calls that PskAssumption allows;           *)
(*   - no key is admitted more than burst and rate allow over any interval,*)
(*     and the limiter, which refills lazily and forgets idle keys,        *)
(*     implements TokenBucket, which does neither.                         *)
(***************************************************************************)
EXTENDS PskAuth, RateLimit, TLAPS

-----------------------------------------------------------------------------
(* PskAuth.                                                                *)

\* What truncating the clock to seconds loses is less than one second.
LEMMA UnixBounds ==
  ASSUME NEW t \in Nat
  PROVE  Unix(t) \in Int /\ Unix(t) * Sub <= t /\ t <= Unix(t) * Sub + Sub - 1
BY PskAssumption DEF Unix

\* Two readings within the skew of the same signed_at are close (Authenticate).
LEMMA SkewBound ==
  ASSUME NEW t \in Nat, NEW u \in Nat, NEW s \in Nat, Within(t, s), Within(u, s)
  PROVE  t - u <= SkewSpan
<1> DEFINE x == Unix(t)
           y == Unix(u)
           d == x - y
<1>1. x \in Int /\ y \in Int /\ t <= x * Sub + Sub - 1 /\ y * Sub <= u
  BY UnixBounds
<1>2. d \in Int /\ d <= 2 * ClockSkew
  BY <1>1, PskAssumption DEF Within
<1> HIDE DEF x, y
<1>3. x * Sub - y * Sub = d * Sub
  BY <1>1, PskAssumption
<1>4. d * Sub <= (2 * ClockSkew) * Sub
  <2> HIDE DEF d
  <2>1. \A a, b \in Int : \A m \in Nat : a <= b => a * m <= b * m
    OBVIOUS
  <2> QED
    BY <1>2, <2>1, PskAssumption
<1>5. x * Sub \in Int /\ y * Sub \in Int /\ (2 * ClockSkew) * Sub \in Int /\ Sub \in Int
  BY <1>1, PskAssumption
<1>6. t - u <= (2 * ClockSkew) * Sub + Sub - 1
  BY <1>1, <1>3, <1>4, <1>5
<1> QED
  BY <1>6 DEF SkewSpan

\* PskInv holds initially.
LEMMA InitInv == Init => PskInv
<1> SUFFICES ASSUME Init PROVE PskInv
  OBVIOUS
<1>1. \A r \in Req : accepted[r] = <<>> /\ Len(accepted[r]) <= 1
  <2>1. \A r \in Req : accepted[r] = <<>>
    BY DEF Init
  <2>2. Len(<<>>) <= 1
    OBVIOUS
  <2>3. ASSUME NEW r \in Req PROVE Len(accepted[r]) <= 1
    <3>1. accepted[r] = <<>>
      BY <2>1
    <3> QED
      BY ONLY <2>2, <3>1
  <2> QED
    BY <2>1, <2>3
<1>2. 0 .. Unix(MaxTime) \subseteq Nat
  <2>1. Unix(MaxTime) \in Int
    BY UnixBounds, PskAssumption
  <2> QED
    BY <2>1
<1>3. accepted \in [Req -> Seq(Nat)]
  <2>1. <<>> \in Seq(Nat)
    OBVIOUS
  <2> QED
    BY <2>1 DEF Init
<1>4. TypeOK
  BY <1>2, <1>3 DEF Init, TypeOK
<1>5. CallOK /\ AcceptedOK /\ NoReplay
  BY <1>1 DEF Init, CallOK, AcceptedOK, NoReplay, Idle
<1> QED
  BY <1>4, <1>5 DEF PskInv

\* A call that reaches the cache is refused if its request was accepted before.
LEMMA AcceptedIsCached ==
  ASSUME PskInv, NEW k \in Call, call[k].st = "lookup", call[k].genuine,
         accepted[call[k].req] # <<>>
  PROVE  \E p \in Kept(call[k].now) : p[1] = call[k].req
<1> DEFINE c == call[k]
           r == c.req
           a == accepted[r][1]
<1>1. /\ c \in [st: {"lookup"}, req: Req, genuine: BOOLEAN, now: Nat]
      /\ r \in Req /\ c.now \in Nat /\ clock \in Nat /\ signedAt[r] \in Nat
      /\ accepted[r] \in Seq(Nat)
  BY DEF PskInv, TypeOK, Idle
<1>2. a \in Nat
  BY <1>1
<1>3. /\ c.now <= clock /\ clock <= c.now + MaxLag /\ Within(c.now, signedAt[r])
      /\ Within(a, signedAt[r]) /\ (<<r, a>> \in seen \/ clock > a + Window)
  BY <1>1 DEF PskInv, CallOK, AcceptedOK
<1> HIDE DEF c, r, a
<1>4. c.now - a <= SkewSpan
  BY <1>1, <1>2, <1>3, SkewBound
<1>5. SkewSpan \in Int
  BY PskAssumption DEF SkewSpan
<1>6. c.now - a <= Window /\ ~(clock > a + Window)
  BY <1>1, <1>2, <1>3, <1>4, <1>5, PskAssumption
<1>7. <<r, a>> \in Kept(c.now)
  BY <1>3, <1>6 DEF Kept
<1> QED
  BY <1>7 DEF r, c

\* Add keeps the invariant: it accepts a request at most once.
LEMMA AddNonceInv ==
  ASSUME PskInv, NEW k \in Call, AddNonce(k)
  PROVE  PskInv'
<1> DEFINE c == call[k]
           r == c.req
           reused == \E p \in Kept(c.now) : p[1] = r
           wins == ~reused /\ c.genuine
<1>1. /\ c.st = "lookup" /\ UNCHANGED <<clock, signedAt>>
      /\ seen' = Kept(c.now) \cup IF reused THEN {} ELSE {<<r, c.now>>}
      /\ accepted' = [accepted EXCEPT ![r] = IF wins THEN Append(@, c.now) ELSE @]
      /\ call' = [call EXCEPT ![k] = Idle]
  BY DEF AddNonce
<1>2. /\ c \in [st: {"lookup"}, req: Req, genuine: BOOLEAN, now: Nat]
      /\ r \in Req /\ c.now \in Nat /\ clock \in Nat /\ signedAt \in [Req -> Nat]
      /\ accepted \in [Req -> Seq(Nat)] /\ seen \subseteq Req \X Nat
  BY <1>1 DEF PskInv, TypeOK, Idle
<1>3. wins => accepted[r] = <<>>
  BY <1>1, AcceptedIsCached
<1>4. c.now <= clock /\ (c.genuine => Within(c.now, signedAt[r]))
  BY <1>1 DEF PskInv, CallOK
<1>5. Kept(c.now) \subseteq seen
  BY DEF Kept
<1>6. TypeOK'
  <2>1. seen' \subseteq Req \X Nat
    BY <1>1, <1>2, <1>5
  <2>2. accepted' \in [Req -> Seq(Nat)]
    <3>1. Append(accepted[r], c.now) \in Seq(Nat)
      BY <1>2
    <3> QED
      BY <1>1, <1>2, <3>1
  <2>3. call' \in [Call -> {Idle} \cup [st: {"lookup"}, req: Req, genuine: BOOLEAN, now: Nat]]
    BY <1>1 DEF PskInv, TypeOK
  <2> QED
    BY <1>1, <1>2, <2>1, <2>2, <2>3 DEF TypeOK
<1>7. CallOK'
  BY <1>1 DEF PskInv, TypeOK, CallOK, Idle
<1> HIDE DEF c, reused, wins, r
<1>8. ASSUME NEW q \in Req, accepted'[q] # <<>>
      PROVE  /\ Within(accepted'[q][1], signedAt[q])
             /\ <<q, accepted'[q][1]>> \in seen' \/ clock > accepted'[q][1] + Window
  <2>1. CASE q = r /\ wins
    <3>1. accepted'[q] = Append(<<>>, c.now)
      BY <1>1, <1>2, <1>3, <2>1
    <3>2. accepted'[q][1] = c.now
      BY <1>2, <3>1
    <3>3. <<r, c.now>> \in seen' /\ c.genuine
      BY <1>1, <2>1 DEF wins
    <3> QED
      BY <1>4, <2>1, <3>2, <3>3
  <2>2. CASE ~(q = r /\ wins)
    <3>1. accepted'[q] = accepted[q]
      BY <1>1, <1>2, <2>2
    <3>2. PICK a \in Nat : a = accepted[q][1]
      BY <1>2, <1>8, <3>1
    <3>3. Within(a, signedAt[q]) /\ (<<q, a>> \in seen \/ clock > a + Window)
      BY <1>8, <3>1, <3>2 DEF PskInv, AcceptedOK
    <3>4. <<q, a>> \in seen => <<q, a>> \in Kept(c.now) \/ clock > a + Window
      <4>1. <<q, a>> \in seen => <<q, a>> \in Kept(c.now) \/ c.now - a > Window
        BY <1>2, PskAssumption DEF Kept
      <4> QED
        BY <1>2, <1>4, <4>1, PskAssumption
    <3>5. Kept(c.now) \subseteq seen'
      BY <1>1
    <3>6. accepted'[q][1] = a
      BY <3>1, <3>2
    <3>7. <<q, a>> \in seen' \/ clock > a + Window
      BY <3>3, <3>4, <3>5
    <3> QED
      BY <3>3, <3>6, <3>7
  <2> QED
    BY <2>1, <2>2
<1>9. AcceptedOK'
  BY <1>1, <1>8 DEF AcceptedOK, Within, Unix
<1>10. NoReplay'
  <2>1. ASSUME NEW q \in Req PROVE Len(accepted'[q]) <= 1
    <3>1. CASE q = r /\ wins
      <4>1. accepted'[q] = Append(<<>>, c.now)
        BY <1>1, <1>2, <1>3, <3>1
      <4> QED
        BY <1>2, <4>1
    <3>2. CASE ~(q = r /\ wins)
      <4>1. accepted'[q] = accepted[q]
        BY <1>1, <1>2, <3>2
      <4> QED
        BY <4>1 DEF PskInv, NoReplay
    <3> QED
      BY <3>1, <3>2
  <2> QED
    BY <2>1 DEF NoReplay
<1> QED
  BY <1>6, <1>7, <1>9, <1>10 DEF PskInv

\* Every step keeps the invariant.
LEMMA NextInv == PskInv /\ [Next]_vars => PskInv'
<1> SUFFICES ASSUME PskInv, [Next]_vars PROVE PskInv'
  OBVIOUS
<1>0. TypeOK /\ CallOK /\ AcceptedOK /\ NoReplay
  BY DEF PskInv
<1>1. ASSUME NEW k \in Call, NEW r \in Req, NEW genuine \in BOOLEAN, Start(k, r, genuine)
      PROVE  PskInv'
  <2>1. Looking(r, genuine) \in [st: {"lookup"}, req: Req, genuine: BOOLEAN, now: Nat]
    BY <1>0 DEF Looking, TypeOK
  <2>2. TypeOK'
    BY <1>0, <1>1, <2>1 DEF Start, TypeOK
  <2>3. CallOK'
    BY <1>0, <1>1, PskAssumption DEF Start, TypeOK, CallOK, Looking, Within, Unix
  <2>4. AcceptedOK' /\ NoReplay'
    BY <1>0, <1>1 DEF Start, AcceptedOK, NoReplay, Within, Unix
  <2> QED
    BY <2>2, <2>3, <2>4 DEF PskInv
<1>2. ASSUME NEW k \in Call, LookupFails(k) PROVE PskInv'
  <2>1. TypeOK' /\ CallOK'
    BY <1>0, <1>2 DEF LookupFails, TypeOK, CallOK, Idle, Within, Unix
  <2>2. AcceptedOK' /\ NoReplay'
    BY <1>0, <1>2 DEF LookupFails, AcceptedOK, NoReplay, Within, Unix
  <2> QED
    BY <2>1, <2>2 DEF PskInv
<1>3. CASE Tick
  <2>1. TypeOK'
    BY <1>0, <1>3 DEF Tick, TypeOK
  <2>2. CallOK'
    <3>1. ASSUME NEW k \in Call, call[k].st = "lookup"
          PROVE  call[k].now <= clock + 1 /\ clock + 1 <= call[k].now + MaxLag
      <4>1. call[k].now \in Nat /\ clock \in Nat
        BY <1>0, <3>1 DEF TypeOK, Idle
      <4> QED
        BY <1>0, <1>3, <3>1, <4>1, PskAssumption DEF Tick, CallOK
    <3> QED
      BY <1>0, <1>3, <3>1 DEF Tick, CallOK, Within, Unix
  <2>3. AcceptedOK'
    <3>1. ASSUME NEW r \in Req, accepted[r] # <<>>, clock > accepted[r][1] + Window
          PROVE  clock + 1 > accepted[r][1] + Window
      <4>1. accepted[r][1] \in Nat /\ clock \in Nat
        BY <1>0, <3>1 DEF TypeOK
      <4> QED
        BY <3>1, <4>1, PskAssumption
    <3> QED
      BY <1>0, <1>3, <3>1 DEF Tick, AcceptedOK, Within, Unix
  <2>4. NoReplay'
    BY <1>0, <1>3 DEF Tick, NoReplay
  <2> QED
    BY <2>1, <2>2, <2>3, <2>4 DEF PskInv
<1>4. CASE Restart
  <2>1. \A r \in Req : accepted'[r] = <<>> /\ Len(accepted'[r]) <= 1
    BY <1>4 DEF Restart
  <2>2. accepted' \in [Req -> Seq(Nat)]
    <3>1. <<>> \in Seq(Nat)
      OBVIOUS
    <3> QED
      BY <1>4, <3>1 DEF Restart
  <2>3. TypeOK'
    BY <1>0, <1>4, <2>2 DEF Restart, TypeOK
  <2>4. CallOK' /\ AcceptedOK' /\ NoReplay'
    BY <1>4, <2>1 DEF Restart, CallOK, AcceptedOK, NoReplay, Idle
  <2> QED
    BY <2>3, <2>4 DEF PskInv
<1>5. CASE UNCHANGED vars
  BY <1>0, <1>5 DEF vars, PskInv, TypeOK, CallOK, AcceptedOK, NoReplay, Within, Unix
<1> QED
  BY <1>1, <1>2, <1>3, <1>4, <1>5, AddNonceInv DEF Next

\* The inductive invariant holds in every reachable state.
THEOREM PskCorrect == Spec => []PskInv
BY InitInv, NextInv, PTL DEF Spec

\* In the life of one server no Register is accepted twice, whatever the calls
\* of Authenticate interleave, as long as the nonce window covers twice the
\* skew, one truncated second and the lag (Authenticate, MemoryNonceCache.Add).
THEOREM NeverReplayed == Spec => []NoReplay
<1>1. PskInv => NoReplay
  BY DEF PskInv
<1> QED
  BY <1>1, PskCorrect, PTL

-----------------------------------------------------------------------------
(* RateLimit: the buckets.                                                 *)

\* What the proofs need of the product Capacity * Refill.
LEMMA FullFacts ==
  /\ Refill \in Nat \ {0} /\ Full \in Nat /\ Refill <= Full
  /\ IdleTTL \in Nat /\ IdleTTL + 1 >= Full /\ MaxWatch \in Nat
<1>1. Capacity \in Nat \ {0} /\ Refill \in Nat \ {0} /\ IdleTTL \in Nat /\ MaxWatch \in Nat
  BY LimitAssumption
<1>2. Capacity * Refill \in Nat /\ Refill <= Capacity * Refill
  <2>1. PICK c \in Nat : Capacity = c + 1
    <3>1. Capacity - 1 \in Nat /\ Capacity = (Capacity - 1) + 1
      BY <1>1
    <3> QED
      BY <3>1
  <2>2. (c + 1) * Refill = c * Refill + Refill /\ c * Refill \in Nat
    BY <1>1, <2>1
  <2> QED
    BY <1>1, <2>1, <2>2
<1> QED
  BY <1>1, <1>2, LimitAssumption DEF Full

\* Bucket.Allow never finds a negative level, or one above the capacity.
LEMMA LevelBounds ==
  ASSUME LimitTypeOK, NEW k \in Key
  PROVE  Level(k) \in Nat /\ Level(k) <= Full
BY FullFacts DEF LimitTypeOK, Level, Capped, Entry

\* Bucket.Allow's prune: a bucket that is dropped would have been full.
LEMMA StaleIsFull ==
  ASSUME LimitTypeOK, NEW k \in Stale
  PROVE  Level(k) = Full
BY FullFacts DEF LimitTypeOK, Level, Capped, Entry, Stale

-----------------------------------------------------------------------------
(* What each operation does to the level of a bucket: this is all that the *)
(* bound and the refinement need to know of the table of entries.          *)

\* Bucket.Allow takes a token from the bucket of its key, if there is a whole
\* one, and leaves the level of every other bucket as it is, pruned or not.
LEMMA AllowLevel ==
  ASSUME LimitTypeOK, NEW key \in Key, Allow(key), NEW k \in Key
  PROVE  Level(k)' = IF k = key /\ Level(key) >= Refill THEN Level(key) - Refill
                     ELSE Level(k)
<1> DEFINE dom == (DOMAIN entries \ Stale) \cup {key}
<1>1. DOMAIN entries' = dom
  BY DEF Allow
<1>2. CASE k = key
  <2>1. /\ k \in DOMAIN entries' /\ entries'[k].idle = 0
        /\ entries'[k].tokens = IF Level(key) >= Refill THEN Level(key) - Refill ELSE Level(key)
    BY <1>2 DEF Allow
  <2>2. Level(key) \in Nat /\ Level(key) <= Full
    BY LevelBounds
  <2> QED
    BY <1>2, <2>1, <2>2, FullFacts DEF Level, Capped
<1>3. CASE k # key /\ k \in DOMAIN entries \ Stale
  <2>1. k \in DOMAIN entries' /\ entries'[k] = entries[k]
    BY <1>3 DEF Allow
  <2> QED
    BY <1>3, <2>1 DEF Level, Capped
<1>4. CASE k # key /\ k \notin DOMAIN entries \ Stale
  <2>1. k \notin DOMAIN entries'
    BY <1>1, <1>4
  <2>2. Level(k) = Full
    BY <1>4, StaleIsFull DEF Level
  <2> QED
    BY <1>4, <2>1, <2>2 DEF Level
<1> QED
  BY <1>2, <1>3, <1>4

\* A tick of the clock adds one unit to every bucket that is not full, whether
\* it has an entry or not.
LEMMA TickLevel ==
  ASSUME LimitTypeOK, LimitTick, NEW k \in Key
  PROVE  Level(k)' = IF Level(k) < Full THEN Level(k) + 1 ELSE Full
<1>1. DOMAIN entries' = DOMAIN entries
  BY DEF LimitTick
<1>2. CASE k \in DOMAIN entries
  <2>1. /\ entries'[k].tokens = entries[k].tokens
        /\ entries'[k].idle = IF entries[k].idle > IdleTTL THEN entries[k].idle
                              ELSE entries[k].idle + 1
    BY <1>2 DEF LimitTick, LimitTypeOK, Entry
  <2>2. entries[k].tokens \in 0 .. Full /\ entries[k].idle \in 0 .. IdleTTL + 1
    BY <1>2 DEF LimitTypeOK, Entry
  <2> QED
    BY <1>1, <1>2, <2>1, <2>2, FullFacts DEF Level, Capped
<1>3. CASE k \notin DOMAIN entries
  BY <1>1, <1>3, FullFacts DEF Level
<1> QED
  BY <1>2, <1>3

-----------------------------------------------------------------------------
(* Type correctness.                                                       *)

\* Allow, Reset, the clock and an observation keep the types.
LEMMA LimitStepType ==
  ASSUME LimitTypeOK, [LimitNext]_limitVars
  PROVE  LimitTypeOK'
<1>1. ASSUME NEW key \in Key, Allow(key) PROVE LimitTypeOK'
  <2>1. Level(key) \in Nat /\ Level(key) <= Full
    BY LevelBounds
  <2>2. ASSUME NEW k \in DOMAIN entries' PROVE entries'[k] \in Entry
    <3>1. CASE k = key
      <4>1. entries'[k] = [tokens |-> IF Level(key) >= Refill THEN Level(key) - Refill
                                      ELSE Level(key), idle |-> 0]
        BY <1>1, <3>1 DEF Allow
      <4> QED
        BY <2>1, <4>1, FullFacts DEF Entry
    <3>2. CASE k # key
      <4>1. k \in DOMAIN entries /\ entries'[k] = entries[k]
        BY <1>1, <3>2 DEF Allow
      <4> QED
        BY <4>1 DEF LimitTypeOK
    <3> QED
      BY <3>1, <3>2
  <2>3. DOMAIN entries' \subseteq Key
    BY <1>1 DEF Allow, LimitTypeOK
  <2>4. verdict' \in Key \X BOOLEAN
    <3>1. (Level(key) >= Refill) \in BOOLEAN
      BY <2>1, FullFacts
    <3>2. verdict' = <<key, Level(key) >= Refill>>
      BY <1>1 DEF Allow
    <3> HIDE DEF Level
    <3> QED
      BY <3>1, <3>2, Zenon
  <2>5. admitted' \in [Key -> Nat] /\ elapsed' \in Nat
    BY <1>1 DEF Allow, LimitTypeOK
  <2> QED
    BY <2>2, <2>3, <2>4, <2>5 DEF LimitTypeOK
<1>2. CASE Reset
  BY <1>2, FullFacts DEF Reset, LimitTypeOK, NoEntries
<1>3. CASE LimitTick
  <2>1. ASSUME NEW k \in DOMAIN entries' PROVE k \in Key /\ entries'[k] \in Entry
    <3>1. k \in DOMAIN entries
      BY <1>3 DEF LimitTick
    <3>2. entries'[k] = [entries[k] EXCEPT !.idle = IF @ > IdleTTL THEN @ ELSE @ + 1]
      BY <1>3, <3>1 DEF LimitTick
    <3>3. entries[k] \in Entry /\ k \in Key
      BY <3>1 DEF LimitTypeOK
    <3>4. (IF entries[k].idle > IdleTTL THEN entries[k].idle ELSE entries[k].idle + 1)
            \in 0 .. IdleTTL + 1
      BY <3>3, FullFacts DEF Entry
    <3> QED
      BY <3>2, <3>3, <3>4 DEF Entry
  <2> QED
    BY <1>3, <2>1 DEF LimitTick, LimitTypeOK
<1>4. CASE Watch
  BY <1>4 DEF Watch, LimitTypeOK
<1>5. CASE UNCHANGED limitVars
  BY <1>5 DEF limitVars, LimitTypeOK
<1> QED
  BY <1>1, <1>2, <1>3, <1>4, <1>5 DEF LimitNext

\* server/ratelimit: every variable keeps its type; in particular no bucket
\* holds fewer than none or more than Capacity tokens, for any number of keys.
THEOREM LimitTypeCorrect == LimitSpec => []LimitTypeOK
<1>1. LimitInit => LimitTypeOK
  BY FullFacts DEF LimitInit, LimitTypeOK, NoEntries
<1> QED
  BY <1>1, LimitStepType, PTL DEF LimitSpec

-----------------------------------------------------------------------------
(* The bound on admissions.                                                *)

\* RateBound says nothing of what is left in the bucket, and so is not
\* inductive: what a key has been admitted and what it may still spend at once
\* never exceed the burst and what the time since has yielded.
Budget == \A k \in Key : admitted[k] * Refill + Level(k) <= Full + elapsed

\* One more admission costs Refill units more.
LEMMA OneMore ==
  ASSUME NEW a \in Nat
  PROVE  (a + 1) * Refill = a * Refill + Refill /\ a * Refill \in Nat
BY FullFacts

\* No operation lets a key exceed its budget (Bucket.Allow, Bucket.Reset).
LEMMA StepBudget ==
  ASSUME LimitTypeOK, Budget, [LimitNext]_limitVars
  PROVE  Budget'
<1> SUFFICES ASSUME NEW k \in Key
             PROVE  admitted'[k] * Refill + Level(k)' <= Full + elapsed'
  BY DEF Budget, Full
<1>1. /\ admitted[k] * Refill + Level(k) <= Full + elapsed
      /\ admitted[k] \in Nat /\ admitted[k] * Refill \in Nat /\ elapsed \in Nat
      /\ Level(k) \in Nat /\ Level(k) <= Full
  BY LevelBounds, OneMore DEF Budget, LimitTypeOK
<1>2. ASSUME NEW key \in Key, Allow(key)
      PROVE  admitted'[k] * Refill + Level(k)' <= Full + elapsed'
  <2>1. elapsed' = elapsed
    BY <1>2 DEF Allow
  <2>2. CASE k = key /\ Level(key) >= Refill
    <3>1. admitted'[k] = admitted[k] + 1
      BY <1>2, <2>2 DEF Allow, LimitTypeOK
    <3>2. Level(k)' = Level(k) - Refill
      BY <1>2, <2>2, AllowLevel
    <3>3. admitted'[k] * Refill = admitted[k] * Refill + Refill
      BY <1>1, <3>1, OneMore
    <3> QED
      BY <1>1, <2>1, <3>2, <3>3, FullFacts
  <2>3. CASE ~(k = key /\ Level(key) >= Refill)
    <3>1. admitted'[k] = admitted[k]
      BY <1>2, <2>3 DEF Allow, LimitTypeOK
    <3>2. Level(k)' = Level(k)
      BY <1>2, <2>3, AllowLevel
    <3> QED
      BY <1>1, <2>1, <3>1, <3>2
  <2> QED
    BY <2>2, <2>3
<1>3. CASE Reset
  <2>1. admitted'[k] = 0 /\ elapsed' = 0 /\ Level(k)' = Full
    BY <1>3 DEF Reset, Level, NoEntries
  <2> QED
    BY <2>1, FullFacts
<1>4. CASE LimitTick
  <2>1. admitted'[k] = admitted[k] /\ elapsed' = elapsed + 1
    BY <1>4 DEF LimitTick
  <2>2. Level(k)' <= Level(k) + 1 /\ Level(k)' \in Nat
    BY <1>1, <1>4, TickLevel, FullFacts
  <2> QED
    BY <1>1, <2>1, <2>2, FullFacts
<1>5. CASE Watch
  <2>1. admitted'[k] = 0 /\ elapsed' = 0
    BY <1>5 DEF Watch
  <2>2. Level(k)' = Level(k)
    BY <1>5 DEF Watch, Level, Capped
  <2> QED
    BY <1>1, <2>1, <2>2, FullFacts
<1>6. CASE UNCHANGED limitVars
  <2>1. admitted'[k] = admitted[k] /\ elapsed' = elapsed /\ Level(k)' = Level(k)
    BY <1>6 DEF limitVars, Level, Capped
  <2> QED
    BY <1>1, <2>1
<1> QED
  BY <1>2, <1>3, <1>4, <1>5, <1>6 DEF LimitNext

\* server/ratelimit: over any interval, however long, a key is admitted at
\* most the burst and what the rate yields, although its bucket may have been
\* refilled late, dropped and made anew in it.
THEOREM NeverOver == LimitSpec => []RateBound
<1>1. LimitInit => Budget
  <2> SUFFICES ASSUME LimitInit, NEW k \in Key PROVE admitted[k] * Refill + Level(k) <= Full + elapsed
    BY DEF Budget
  <2>1. admitted[k] = 0 /\ elapsed = 0 /\ Level(k) = Full
    BY DEF LimitInit, Level, NoEntries
  <2> QED
    BY <2>1, FullFacts
<1>2. LimitTypeOK /\ Budget => RateBound
  <2> SUFFICES ASSUME LimitTypeOK, Budget, NEW k \in Key
               PROVE  admitted[k] * Refill <= Full + elapsed
    BY DEF RateBound
  <2>1. admitted[k] * Refill \in Nat /\ Level(k) \in Nat /\ elapsed \in Nat
    BY LevelBounds, OneMore DEF LimitTypeOK
  <2> QED
    BY <2>1, FullFacts DEF Budget
<1> QED
  BY <1>1, <1>2, LimitTypeCorrect, StepBudget, PTL DEF LimitSpec

-----------------------------------------------------------------------------
(* The refinement of TokenBucket.                                          *)

\* Every step of the limiter is a step of the abstract one: Allow a request,
\* whatever it prunes, Reset an amnesty; an observation changes nothing.
LEMMA StepRefines ==
  ASSUME LimitTypeOK, [LimitNext]_limitVars
  PROVE  [Abstract!Next]_(Abstract!vars)
<1> DEFINE level == [k \in Key |-> Level(k)]
<1>1. ASSUME NEW key \in Key, Allow(key) PROVE Abstract!Request(key)
  <2>1. level' = [level EXCEPT ![key] = IF @ >= Refill THEN @ - Refill ELSE @]
    BY <1>1, AllowLevel
  <2>2. verdict' = <<key, level[key] >= Refill>>
    BY <1>1 DEF Allow
  <2> QED
    BY <2>1, <2>2 DEF Abstract!Request
<1>2. CASE Reset
  <2>1. level' = [k \in Key |-> Full]
    BY <1>2 DEF Reset, Level, NoEntries
  <2> QED
    BY <1>2, <2>1 DEF Reset, Abstract!Next, Abstract!Forgive, Abstract!Full, Full
<1>3. CASE LimitTick
  <2>1. level' = [k \in Key |-> IF level[k] < Full THEN level[k] + 1 ELSE Full]
    BY <1>3, TickLevel
  <2> QED
    BY <1>3, <2>1 DEF LimitTick, Abstract!Next, Abstract!Tick, Abstract!Full, Full
<1>4. CASE Watch \/ UNCHANGED limitVars
  <2>1. entries' = entries /\ verdict' = verdict
    BY <1>4 DEF Watch, limitVars
  <2>2. level' = level
    BY <2>1 DEF Level, Capped
  <2> QED
    BY <2>1, <2>2 DEF Abstract!vars
<1> QED
  BY <1>1, <1>2, <1>3, <1>4 DEF LimitNext, Abstract!Next

\* server/ratelimit implements TokenBucket: the limiter that refills a bucket
\* when it is used and forgets it when it has been idle gives every request the
\* answer of one that refills all the time and forgets nothing.
THEOREM LimiterImplements == LimitSpec => Implements
<1>1. LimitInit => Abstract!Init
  BY DEF LimitInit, Abstract!Init, Abstract!Full, Level, NoEntries, Full
<1> QED
  BY <1>1, LimitTypeCorrect, StepRefines, PTL DEF LimitSpec, Implements, Abstract!Spec
=============================================================================
