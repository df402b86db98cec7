------------------------------- MODULE PskAuth -------------------------------
(***************************************************************************)
(* psk.Provider.Authenticate and MemoryNonceCache: how the signaling       *)
(* server refuses a Register that it has already accepted.                 *)
(*                                                                         *)
(* Authenticate reads the clock once, compares the whole seconds of that   *)
(* reading with signed_at_unix, looks the user up in the store, and only   *)
(* then takes the cache's lock with the old reading; calls for several     *)
(* connections interleave at those points.  A request is the signed bytes, *)
(* with its own (user_id, nonce); copies of it arrive any number of times, *)
(* altered copies, which fail the HMAC, too.                               *)
(***************************************************************************)
EXTENDS Integers, Sequences

CONSTANTS
  Req,        \* signed Register messages, each with its own (user_id, nonce)
  Call,       \* concurrent calls of Authenticate
  Sub,        \* ticks of the clock in one second
  ClockSkew,  \* Provider.ClockSkew, in seconds
  Window,     \* MemoryNonceCache.Window, in ticks
  MaxLag,     \* ticks from a call's clock reading to its turn at the cache; the
              \* store lookup between them ends with the handshake's deadline
  MaxTime     \* bound: the last tick

\* The clock runs in ticks, signed_at_unix counts seconds: two readings that are
\* both within the skew of one signed_at are at most this many ticks apart.
SkewSpan == 2 * ClockSkew * Sub + Sub - 1

\* New: 60 s of skew and a window of 5 minutes; handshake: 10 s.
ASSUME PskAssumption ==
  /\ Sub \in Nat \ {0} /\ ClockSkew \in Nat /\ MaxLag \in Nat /\ MaxTime \in Nat
  /\ Window \in Nat
  /\ Window >= SkewSpan + MaxLag

VARIABLES
  clock,      \* the server's clock
  signedAt,   \* signed_at_unix of a request, by the client's clock
  seen,       \* MemoryNonceCache.seen, as pairs <<request, time>>
  call,       \* the calls of Authenticate under way
  accepted    \* history: the clock readings with which a request was accepted
              \* since the server started

vars == <<clock, signedAt, seen, call, accepted>>

Unix(t) == t \div Sub

\* |now.Unix() - signed_at_unix| does not exceed the skew.
Within(t, s) == Unix(t) - s <= ClockSkew /\ s - Unix(t) <= ClockSkew

Idle == [st |-> "idle"]
Looking(r, genuine) == [st |-> "lookup", req |-> r, genuine |-> genuine, now |-> clock]

Init ==
  /\ clock = 0
  /\ signedAt \in [Req -> 0 .. Unix(MaxTime)]
  /\ seen = {}
  /\ call = [k \in Call |-> Idle]
  /\ accepted = [r \in Req |-> <<>>]

\* The nonce has the right length and the skew check passes.  An altered copy
\* carries any signed_at it likes.  (A refusal here changes nothing.)
Start(k, r, genuine) ==
  /\ call[k] = Idle
  /\ genuine => Within(clock, signedAt[r])
  /\ call' = [call EXCEPT ![k] = Looking(r, genuine)]
  /\ UNCHANGED <<clock, signedAt, seen, accepted>>

\* ErrUnknownUser, ErrRevoked, a store error or the handshake's deadline.
LookupFails(k) ==
  /\ call[k].st = "lookup"
  /\ call' = [call EXCEPT ![k] = Idle]
  /\ UNCHANGED <<clock, signedAt, seen, accepted>>

\* Mutation of Kept: an entry goes one tick early.
KeptTooFew(now) == {p \in seen : now - p[2] < Window}

\* The lazy cleanup of MemoryNonceCache.Add.
Kept(now) == {p \in seen : now - p[2] <= Window}

\* MemoryNonceCache.Add under its lock, then the HMAC comparison, which touches
\* nothing shared.
AddNonce(k) ==
  LET c == call[k]
      reused == \E p \in Kept(c.now) : p[1] = c.req
  IN
  /\ c.st = "lookup"
  /\ seen' = Kept(c.now) \cup IF reused THEN {} ELSE {<<c.req, c.now>>}
  /\ accepted' = [accepted EXCEPT ![c.req] =
                    IF ~reused /\ c.genuine THEN Append(@, c.now) ELSE @]
  /\ call' = [call EXCEPT ![k] = Idle]
  /\ UNCHANGED <<clock, signedAt>>

\* Time passes; no call stays longer than MaxLag before the cache.
Tick ==
  /\ clock < MaxTime
  /\ \A k \in Call : call[k].st = "lookup" => clock < call[k].now + MaxLag
  /\ clock' = clock + 1
  /\ UNCHANGED <<signedAt, seen, call, accepted>>

\* The server restarts: the cache is process-local and is lost.
Restart ==
  /\ seen' = {}
  /\ call' = [k \in Call |-> Idle]
  /\ accepted' = [r \in Req |-> <<>>]
  /\ UNCHANGED <<clock, signedAt>>

Next ==
  \/ \E k \in Call : \/ \E r \in Req, genuine \in BOOLEAN : Start(k, r, genuine)
                     \/ LookupFails(k)
                     \/ AddNonce(k)
  \/ Tick
  \/ Restart

Spec == Init /\ [][Next]_vars

-----------------------------------------------------------------------------
\* "signed_at_unix and nonce defend against replay": in the life of one server,
\* no request is accepted twice, although cached nonces are dropped, calls
\* overtake each other between their clock reading and the cache, and seconds
\* are truncated (Authenticate, MemoryNonceCache.Add).
NoReplay == \A r \in Req : Len(accepted[r]) <= 1

-----------------------------------------------------------------------------
(* The inductive invariant behind NoReplay.                                 *)

TypeOK ==
  /\ clock \in Nat
  /\ signedAt \in [Req -> Nat]
  /\ seen \subseteq Req \X Nat
  /\ call \in [Call -> {Idle} \cup
                 [st: {"lookup"}, req: Req, genuine: BOOLEAN, now: Nat]]
  /\ accepted \in [Req -> Seq(Nat)]

\* A call's clock reading is recent, and was within the skew.
CallOK ==
  \A k \in Call : call[k].st = "lookup" =>
    /\ call[k].now <= clock /\ clock <= call[k].now + MaxLag
    /\ call[k].genuine => Within(call[k].now, signedAt[call[k].req])

\* An accepted request is still cached, or no reading that could let it pass
\* again is younger than its acceptance by less than the window.
AcceptedOK ==
  \A r \in Req : accepted[r] # <<>> =>
    LET a == accepted[r][1] IN
    /\ Within(a, signedAt[r])
    /\ <<r, a>> \in seen \/ clock > a + Window

PskInv == TypeOK /\ CallOK /\ AcceptedOK /\ NoReplay
=============================================================================
