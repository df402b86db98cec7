--------------------------- MODULE RendezvousProofs ---------------------------
(***************************************************************************)
(* Proofs about Rendezvous, for every number of clients, sessions and      *)
(* attempts, every capacity of the channel and every TTL: a Connect lets   *)
(* in one connection, and the host deletes a wake request only after it    *)
(* has been registered for it.                                             *)
(***************************************************************************)
EXTENDS Rendezvous, TLAPS

\* A request that has been written by a session that has begun: no client
\* writes it again.
Written(r) == r \in Req => r \notin unsent /\ r[2] <= sess[r[1]]

\* A request is written once.  What is in the database, in the event stream,
\* in the channel or in the hands of the pump has been written, and what is
\* still to be written belongs to a session that has begun.
WrittenOnce ==
  /\ \A r \in unsent : r[2] <= sess[r[1]]
  /\ \A r \in wakes \cup todo \cup {first} : Written(r)
  /\ \A i \in 1 .. Len(frames) : \A r \in frames[i] : Written(r)
  /\ \A i \in 1 .. Len(out) : Written(out[i])

\* While the pump has a window, the request that it was opened for is one that
\* the host was registered for, or is not in the database.
Served == pump \in {"window", "punch", "delete"} => first \in opened \/ first \notin wakes

\* negotiateConnectWithRetry: only a client in its last pause has no attempt left.
Attempts == \A c \in Client : cl[c] # "backoff" => tries[c] < MaxAttempts

IInv == TypeOK /\ Attempts /\ WrittenOnce /\ Served /\ OneGrantOneConn

-----------------------------------------------------------------------------
(* Type correctness.                                                       *)

\* What the proofs use of the constants.
LEMMA ConstantFacts ==
  /\ NoClient \notin Client /\ NoReq \notin Req
  /\ Cap \in Nat \ {0} /\ MaxAttempts \in Nat \ {0}
  /\ TTL \in Nat /\ ShortTTL \in Nat /\ DrainTTL \in Nat /\ IdleTimeout \in Nat
  /\ MaxSessions \in Nat /\ MaxInbox \in Nat /\ MaxDials \in Nat
BY RendezvousAssumption DEF Req

\* windows/peerauth: a map of grants of clients, each with its age.
PendingOK(f) == DOMAIN f \subseteq Client /\ \A c \in DOMAIN f : f[c] \in 0 .. TTL + 1

\* Allow and Check keep it so; Allow adds one device, and Check removes one.
LEMMA GrantFacts ==
  ASSUME NEW f, PendingOK(f), NEW c \in Client
  PROVE  /\ PendingOK(Authz!Grant(f, c)) /\ DOMAIN Authz!Grant(f, c) = DOMAIN f \cup {c}
         /\ PendingOK(Authz!Consume(f, c)) /\ DOMAIN Authz!Consume(f, c) = DOMAIN f \ {c}
BY ConstantFacts DEF PendingOK, Authz!Grant, Authz!Consume, Authz!Without

\* So do Sweep, the clock and a restart, which add none.
LEMMA ClockFacts ==
  ASSUME NEW f, PendingOK(f)
  PROVE  /\ PendingOK(Authz!Swept(f)) /\ DOMAIN Authz!Swept(f) \subseteq DOMAIN f
         /\ PendingOK(Authz!Older(f)) /\ DOMAIN Authz!Older(f) = DOMAIN f
         /\ PendingOK(Authz!NoGrants) /\ DOMAIN Authz!NoGrants = {}
BY ConstantFacts DEF PendingOK, Authz!Swept, Authz!Older, Authz!Without, Authz!Expired,
                     Authz!NoGrants

\* A queue loses its head.
LEMMA TailFacts ==
  ASSUME NEW S, NEW q \in Seq(S), q # <<>>
  PROVE  /\ Head(q) \in S /\ Head(q) = q[1] /\ 1 \in 1 .. Len(q)
         /\ Tail(q) \in Seq(S) /\ Len(Tail(q)) = Len(q) - 1 /\ Len(q) \in Nat
         /\ \A i \in 1 .. Len(Tail(q)) : i + 1 \in 1 .. Len(q) /\ Tail(q)[i] = q[i + 1]
OBVIOUS

\* The states of a client.
ClientState == {"idle", "dial", "wait", "backoff", "quic"}

\* The wake listener and the writes of wake requests keep the types.
LEMMA ListenerType ==
  ASSUME TypeOK,
         ListenerStep \/ StreamEnds \/ StreamExpires \/ \E r \in Req : FireWake(r)
  PROVE  TypeOK'
<1> USE DEF dbVars, lstVars, pumpVars, wsVars, clVars, histVars, ClientState
<1>1. CASE Listen
  <2>1. frames' \in Seq(SUBSET Req)
    <3>1. wakes \in SUBSET Req /\ frames' \in {frames, <<wakes>>} /\ frames \in Seq(SUBSET Req)
      BY <1>1 DEF Listen, TypeOK
    <3>2. <<wakes>> \in Seq(SUBSET Req)
      BY <3>1
    <3> QED
      BY <3>1, <3>2
  <2> QED
    BY <1>1, <2>1 DEF Listen, TypeOK
<1>2. CASE Frame
  BY <1>2, ConstantFacts DEF Frame, TypeOK
<1>3. CASE EmitDone
  BY <1>3, ConstantFacts DEF EmitDone, TypeOK
<1>4. CASE StreamEnds
  BY <1>4, ConstantFacts DEF StreamEnds, TypeOK
<1>5. CASE StreamExpires
  BY <1>5, ConstantFacts DEF StreamExpires, TypeOK
<1>6. CASE Relisten
  BY <1>6, ConstantFacts DEF Relisten, TypeOK
<1>7. ASSUME NEW r \in Req, Emit(r) PROVE TypeOK'
  BY <1>7, ConstantFacts DEF Emit, TypeOK
<1>8. ASSUME NEW r \in Req, FireWake(r) PROVE TypeOK'
  BY <1>8, ConstantFacts DEF FireWake, TypeOK
<1> QED
  BY <1>1, <1>2, <1>3, <1>4, <1>5, <1>6, <1>7, <1>8 DEF ListenerStep

\* The wake pump and the signaling loop keep the types.
LEMMA PumpType ==
  ASSUME TypeOK, PumpStep
  PROVE  TypeOK'
<1> USE DEF dbVars, lstVars, pumpVars, wsVars, clVars, histVars, ClientState
<1>1. CASE PumpTake
  BY <1>1, ConstantFacts DEF PumpTake, TypeOK
<1>2. CASE HostDial
  BY <1>2, ConstantFacts DEF HostDial, TypeOK
<1>3. CASE HostDialFails
  BY <1>3, ConstantFacts DEF HostDialFails, TypeOK, AfterError
<1>4. CASE HostRecv
  BY <1>4, ConstantFacts, GrantFacts, TailFacts DEF HostRecv, TypeOK, PendingOK
<1>5. CASE HostRecvFails
  BY <1>5, ConstantFacts DEF HostRecvFails, TypeOK, AfterError
<1>6. CASE HostReply
  BY <1>6, ConstantFacts DEF HostReply, TypeOK, Later
<1>7. CASE WindowExpires
  BY <1>7, ConstantFacts DEF WindowExpires, TypeOK
<1>8. CASE DeleteWake
  BY <1>8, ConstantFacts DEF DeleteWake, TypeOK
<1>9. CASE Drain
  <2>1. CASE out # <<>>
    <3>1. out \in Seq(Req) /\ Len(out) <= Cap /\ out' = Tail(out)
      BY <1>9, <2>1 DEF Drain, TypeOK
    <3>2. out' \in Seq(Req) /\ Len(out') <= Cap
      BY <2>1, <3>1, ConstantFacts, TailFacts
    <3> QED
      BY <1>9, <2>1, <3>2 DEF Drain, TypeOK
  <2>2. CASE out = <<>>
    BY <1>9, <2>2 DEF Drain, TypeOK
  <2> QED
    BY <2>1, <2>2
<1> QED
  BY <1>1, <1>2, <1>3, <1>4, <1>5, <1>6, <1>7, <1>8, <1>9 DEF PumpStep

\* So do the network, the server, the supervisor, the sweeper and the clock.
LEMMA OtherType ==
  ASSUME TypeOK, HostCut \/ ServerIdle \/ ServerUnregister \/ Restart \/ Sweep \/ Tick
  PROVE  TypeOK'
<1> USE DEF dbVars, lstVars, pumpVars, wsVars, clVars, histVars, ClientState
<1>1. CASE HostCut
  BY <1>1, ConstantFacts DEF HostCut, TypeOK
<1>2. CASE ServerIdle
  BY <1>2, ConstantFacts DEF ServerIdle, TypeOK
<1>3. CASE ServerUnregister
  BY <1>3, ConstantFacts DEF ServerUnregister, TypeOK
<1>4. CASE Restart
  <2>1. DOMAIN pending' = {}
    BY <1>4 DEF Restart, Authz!NoGrants
  <2>2. /\ lst' \in {"none", "connect"} /\ frames' = <<>> /\ todo' = {} /\ out' = <<>>
        /\ pump' \in {"idle", "dial"} /\ first' = NoReq /\ serving' = NoClient /\ left' = 0
        /\ ws' = "closed" /\ inbox' = <<>> /\ reg' \in {"none", "live", "zombie"}
    BY <1>4 DEF Restart, ListenerStart, PumpStart, TypeOK
  <2> QED
    BY <1>4, <2>1, <2>2, ConstantFacts DEF Restart, TypeOK
<1>5. CASE Sweep
  BY <1>5, ConstantFacts, ClockFacts DEF Sweep, TypeOK, PendingOK
<1>6. CASE Tick
  <2>1. PendingOK(pending')
    BY <1>6, ClockFacts DEF Tick, TypeOK, PendingOK
  <2>2. left' \in Nat
    BY <1>6 DEF Tick, TypeOK
  <2> QED
    BY <1>6, <2>1, <2>2 DEF Tick, TypeOK, PendingOK
<1> QED
  BY <1>1, <1>2, <1>3, <1>4, <1>5, <1>6

\* negotiateConnectWithRetry: a client goes on with n attempts made.
LEMMA NewAttempts ==
  ASSUME TypeOK, Attempts, NEW c \in Client, NEW n \in 0 .. MaxAttempts, NEW s,
         s = "backoff" \/ n < MaxAttempts,
         cl' = [cl EXCEPT ![c] = s], tries' = [tries EXCEPT ![c] = n]
  PROVE  tries' \in [Client -> 0 .. MaxAttempts] /\ Attempts'
<1>1. tries' \in [Client -> 0 .. MaxAttempts]
  BY DEF TypeOK
<1>2. ASSUME NEW d \in Client, cl'[d] # "backoff" PROVE tries'[d] < MaxAttempts
  BY <1>2 DEF TypeOK, Attempts
<1> QED
  BY <1>1, <1>2 DEF Attempts

\* So do the clients, of whom one that dials has an attempt left.
LEMMA ClientType ==
  ASSUME TypeOK, Attempts, NEW c \in Client, ClientStep(c)
  PROVE  TypeOK' /\ Attempts'
<1> USE DEF dbVars, lstVars, pumpVars, wsVars, clVars, histVars, ClientState
<1>1. CASE Begin(c)
  <2>1. cl' \in [Client -> ClientState]
    BY <1>1 DEF Begin, TypeOK
  <2>2. tries' \in [Client -> 0 .. MaxAttempts] /\ Attempts'
    BY <1>1, ConstantFacts DEF Begin, TypeOK, Attempts
  <2>3. sess' \in [Client -> 0 .. MaxSessions] /\ unsent' \subseteq Req
    <3>1. CASE mode = "wake" /\ sess[c] < MaxSessions
      <4>1. sess[c] \in 0 .. MaxSessions /\ sess[c] + 1 \in 1 .. MaxSessions
        BY <3>1, ConstantFacts DEF TypeOK
      <4>2. sess' = [sess EXCEPT ![c] = sess[c] + 1] /\ unsent' = unsent \cup {<<c, sess[c] + 1>>}
        BY <1>1, <3>1 DEF Begin
      <4> QED
        BY <4>1, <4>2, ConstantFacts DEF TypeOK, Req
    <3>2. CASE ~(mode = "wake" /\ sess[c] < MaxSessions)
      BY <1>1, <3>2 DEF Begin, TypeOK
    <3> QED
      BY <3>1, <3>2
  <2> QED
    BY <1>1, <2>1, <2>2, <2>3 DEF Begin, TypeOK
<1>2. CASE ClientConnect(c)
  <2>1. cl' \in [Client -> ClientState]
    BY <1>2 DEF ClientConnect, TypeOK
  <2>2. tries' \in [Client -> 0 .. MaxAttempts] /\ Attempts'
    <3>1. tries[c] \in 0 .. MaxAttempts /\ tries[c] < MaxAttempts
      BY <1>2 DEF ClientConnect, TypeOK, Attempts
    <3>2. \/ /\ cl' = [cl EXCEPT ![c] = "backoff"]
             /\ tries' = [tries EXCEPT ![c] = tries[c] + 1]
          \/ /\ cl' = [cl EXCEPT ![c] = "wait"] /\ tries' = [tries EXCEPT ![c] = 0]
      BY <1>2 DEF ClientConnect
    <3>3. 0 \in 0 .. MaxAttempts /\ 0 < MaxAttempts /\ tries[c] + 1 \in 0 .. MaxAttempts
      BY <3>1, ConstantFacts
    <3> QED
      BY <3>2, <3>3, NewAttempts, Zenon
  <2>3. inbox' \in Seq(Client)
    <3>1. inbox \in Seq(Client) /\ inbox' \in {inbox, Append(inbox, c)}
      BY <1>2 DEF ClientConnect, TypeOK
    <3> QED
      BY <3>1
  <2> QED
    BY <1>2, <2>1, <2>2, <2>3 DEF ClientConnect, TypeOK
<1>3. CASE ClientRetry(c)
  <2>1. cl' \in [Client -> ClientState]
    BY <1>3 DEF ClientRetry, TypeOK
  <2>2. tries' \in [Client -> 0 .. MaxAttempts] /\ Attempts'
    <3>1. \/ /\ tries[c] < MaxAttempts /\ tries' = tries
             /\ cl' = [cl EXCEPT ![c] = "dial"]
          \/ /\ cl' = [cl EXCEPT ![c] = "idle"] /\ tries' = [tries EXCEPT ![c] = 0]
      BY <1>3 DEF ClientRetry
    <3>2. /\ tries[c] \in 0 .. MaxAttempts /\ tries = [tries EXCEPT ![c] = tries[c]]
          /\ 0 \in 0 .. MaxAttempts /\ 0 < MaxAttempts
      BY ConstantFacts DEF TypeOK
    <3> QED
      BY <3>1, <3>2, NewAttempts, Zenon
  <2> QED
    BY <1>3, <2>1, <2>2 DEF ClientRetry, TypeOK
<1>4. CASE ClientFails(c)
  <2>1. /\ cl' = [cl EXCEPT ![c] = "idle"] /\ tries' = [tries EXCEPT ![c] = 0]
        /\ 0 \in 0 .. MaxAttempts /\ 0 < MaxAttempts
    BY <1>4, ConstantFacts DEF ClientFails
  <2>2. tries' \in [Client -> 0 .. MaxAttempts] /\ Attempts'
    BY <2>1, NewAttempts, Zenon
  <2>3. cl' \in [Client -> ClientState]
    BY <2>1 DEF TypeOK
  <2> QED
    BY <1>4, <2>2, <2>3 DEF ClientFails, TypeOK
<1>5. CASE QuicDial(c) \/ QuicLost(c)
  <2>1. dials' \in [Client -> 0 .. MaxDials]
    <3>1. dials \in [Client -> 0 .. MaxDials] /\ dials[c] \in 0 .. MaxDials
      BY DEF TypeOK
    <3>2. PICK n \in 0 .. MaxDials : dials' = [dials EXCEPT ![c] = n]
      <4>1. CASE QuicDial(c)
        <5>1. dials[c] + 1 \in 0 .. MaxDials
          BY <3>1, <4>1, ConstantFacts DEF QuicDial
        <5> QED
          BY <4>1, <5>1 DEF QuicDial
      <4>2. CASE QuicLost(c)
        <5>1. dials[c] - 1 \in 0 .. MaxDials
          BY <3>1, <4>2, ConstantFacts DEF QuicLost
        <5> QED
          BY <4>2, <5>1 DEF QuicLost
      <4> QED
        BY <1>5, <4>1, <4>2
    <3> QED
      BY <3>1, <3>2
  <2> QED
    BY <1>5, <2>1 DEF QuicDial, QuicLost, TypeOK, Attempts
<1>6. CASE QuicAccept(c)
  <2>1. PendingOK(pending')
    BY <1>6, GrantFacts DEF QuicAccept, TypeOK, PendingOK
  <2>2. cl' \in [Client -> ClientState] /\ owed' \subseteq Client
    BY <1>6 DEF QuicAccept, TypeOK
  <2>3. Attempts'
    BY <1>6 DEF QuicAccept, TypeOK, Attempts
  <2>4. dials' \in [Client -> 0 .. MaxDials]
    BY <1>6, ConstantFacts DEF QuicAccept, TypeOK
  <2> QED
    BY <1>6, <2>1, <2>2, <2>3, <2>4 DEF QuicAccept, TypeOK, PendingOK
<1> QED
  BY <1>1, <1>2, <1>3, <1>4, <1>5, <1>6 DEF ClientStep

\* The steps of the host and of the server do not touch a client's attempts.
LEMMA OtherAttempts ==
  ASSUME TypeOK, Attempts,
         \/ ListenerStep \/ StreamEnds \/ StreamExpires \/ (\E r \in Req : FireWake(r))
         \/ PumpStep \/ HostCut \/ ServerIdle \/ ServerUnregister \/ Restart \/ Sweep \/ Tick
         \/ UNCHANGED vars
  PROVE  Attempts'
<1>1. CASE HostReply
  BY <1>1 DEF HostReply, TypeOK, Attempts
<1>2. ASSUME ~HostReply PROVE cl' = cl /\ tries' = tries
  BY <1>2 DEF ListenerStep, StreamEnds, StreamExpires, FireWake, PumpStep, HostCut, ServerIdle,
              ServerUnregister, Restart, Sweep, Tick, Listen, Frame, Emit, EmitDone, Relisten,
              PumpTake, HostDial, HostDialFails, HostRecv, HostRecvFails, WindowExpires,
              DeleteWake, Drain, clVars, vars
<1> QED
  BY <1>1, <1>2 DEF Attempts

\* Every step keeps the types and the attempts.
LEMMA StepType ==
  ASSUME TypeOK, Attempts, [Next]_vars
  PROVE  TypeOK' /\ Attempts'
<1>1. CASE UNCHANGED vars
  <2>1. TypeOK'
    BY <1>1 DEF vars, TypeOK, dbVars, lstVars, pumpVars, wsVars, clVars, histVars
  <2> QED
    BY <1>1, <2>1, OtherAttempts
<1>2. CASE Next
  BY <1>2, ListenerType, PumpType, OtherType, ClientType, OtherAttempts DEF Next
<1> QED
  BY <1>1, <1>2

-----------------------------------------------------------------------------
(* Grants.                                                                 *)

\* A grant comes with the Connect that it is owed to, and goes with the
\* connection that it lets in.
LEMMA StepGrant ==
  ASSUME TypeOK, OneGrantOneConn, [Next]_vars
  PROVE  OneGrantOneConn'
<1>1. PendingOK(pending)
  BY DEF TypeOK, PendingOK
<1>2. CASE HostRecv
  <2>1. Head(inbox) \in Client
    BY <1>2, TailFacts DEF HostRecv, TypeOK
  <2> QED
    BY <1>1, <1>2, <2>1, GrantFacts DEF HostRecv, OneGrantOneConn
<1>3. ASSUME NEW c \in Client, QuicAccept(c) PROVE OneGrantOneConn'
  <2>1. DOMAIN pending' = DOMAIN pending \ {c}
    BY <1>1, <1>3, GrantFacts DEF QuicAccept
  <2>2. owed' = owed \/ owed' = owed \ {c}
    BY <1>3 DEF QuicAccept
  <2> QED
    BY <2>1, <2>2 DEF OneGrantOneConn
<1>4. CASE Restart \/ Sweep \/ Tick
  BY <1>1, <1>4, ClockFacts DEF Restart, Sweep, Tick, OneGrantOneConn, histVars
<1>5. ASSUME ~HostRecv, ~(Restart \/ Sweep \/ Tick), ~\E c \in Client : QuicAccept(c)
      PROVE  pending' = pending /\ owed' = owed
  BY <1>5 DEF Next, ListenerStep, StreamEnds, StreamExpires, FireWake, PumpStep, HostCut,
              ServerIdle, ServerUnregister, Listen, Frame, Emit, EmitDone, Relisten, PumpTake,
              HostDial, HostDialFails, HostRecvFails, HostReply, WindowExpires, DeleteWake,
              Drain, ClientStep, Begin, ClientConnect, ClientRetry, ClientFails, QuicDial,
              QuicLost, histVars, vars
<1> QED
  BY <1>2, <1>3, <1>4, <1>5 DEF OneGrantOneConn

-----------------------------------------------------------------------------
(* Wake requests.                                                          *)

\* The steps that move requests about; all others leave them where they are.
Moves == \/ Listen \/ Frame \/ StreamEnds \/ StreamExpires \/ PumpTake \/ DeleteWake \/ Drain
         \/ Restart \/ (\E r \in Req : FireWake(r) \/ Emit(r)) \/ (\E c \in Client : Begin(c))

LEMMA OtherStay ==
  ASSUME [Next]_vars, ~Moves
  PROVE  UNCHANGED <<wakes, unsent, frames, todo, out, first, sess>>
BY DEF Moves, Next, ListenerStep, PumpStep, ClientStep, HostCut, ServerIdle, ServerUnregister,
       Sweep, Tick, EmitDone, Relisten, HostDial, HostDialFails, HostRecv, HostRecvFails,
       HostReply, WindowExpires, ClientConnect, ClientRetry, ClientFails, QuicDial, QuicLost,
       QuicAccept,
       vars, dbVars, lstVars, pumpVars, wsVars, clVars, histVars

\* A request is written once, by a session that has begun, whatever the stream,
\* the channel and the pump do with it.
LEMMA StepWritten ==
  ASSUME TypeOK, WrittenOnce, [Next]_vars
  PROVE  WrittenOnce'
<1>1. CASE Listen
  BY <1>1 DEF Listen, WrittenOnce, Written, TypeOK, dbVars, pumpVars, clVars
<1>2. CASE Frame
  <2>1. /\ Head(frames) = frames[1] /\ 1 \in 1 .. Len(frames)
        /\ \A i \in 1 .. Len(frames') : i + 1 \in 1 .. Len(frames) /\ frames'[i] = frames[i + 1]
    BY <1>2, TailFacts DEF Frame, TypeOK
  <2>2. \A r \in todo' : Written(r)
    BY <1>2, <2>1 DEF Frame, WrittenOnce
  <2>3. \A i \in 1 .. Len(frames') : \A r \in frames'[i] : Written(r)
    BY <2>1 DEF WrittenOnce
  <2> QED
    BY <1>2, <2>2, <2>3 DEF Frame, WrittenOnce, Written, dbVars, pumpVars, clVars
<1>3. CASE StreamEnds \/ StreamExpires
  BY <1>3 DEF StreamEnds, StreamExpires, WrittenOnce, Written, dbVars, pumpVars, clVars
<1>4. CASE PumpTake \/ (Drain /\ out # <<>>)
  <2>1. /\ out # <<>> /\ out' = Tail(out) /\ first' \in {first, Head(out)}
        /\ UNCHANGED <<wakes, unsent, todo, frames, sess>>
    BY <1>4 DEF PumpTake, Drain, dbVars, lstVars, clVars
  <2>2. /\ Head(out) = out[1] /\ 1 \in 1 .. Len(out)
        /\ \A i \in 1 .. Len(out') : i + 1 \in 1 .. Len(out) /\ out'[i] = out[i + 1]
    BY <2>1, TailFacts DEF TypeOK
  <2>3. Written(first') /\ \A i \in 1 .. Len(out') : Written(out'[i])
    BY <2>1, <2>2 DEF WrittenOnce
  <2> QED
    BY <2>1, <2>3 DEF WrittenOnce, Written
<1>5. CASE Drain /\ out = <<>>
  BY <1>5, ConstantFacts DEF Drain, WrittenOnce, Written, dbVars, lstVars, clVars
<1>6. CASE DeleteWake
  BY <1>6 DEF DeleteWake, WrittenOnce, Written, lstVars, clVars
<1>7. CASE Restart
  BY <1>7, ConstantFacts DEF Restart, WrittenOnce, Written, dbVars, clVars
<1>8. ASSUME NEW r \in Req, FireWake(r) PROVE WrittenOnce'
  <2>1. /\ unsent' = unsent \ {r} /\ wakes' = wakes \cup {r} /\ r \in unsent
        /\ UNCHANGED <<todo, first, out, sess>>
        /\ frames' = frames \/ frames' = Append(frames, {r})
    BY <1>8 DEF FireWake, pumpVars, clVars
  <2>2. Written(r)' /\ \A q : Written(q) => Written(q)'
    BY <2>1 DEF Written, WrittenOnce
  <2>3. \A i \in 1 .. Len(frames') : \A q \in frames'[i] : Written(q)'
    <3>1. frames \in Seq(SUBSET Req)
      BY DEF TypeOK
    <3>2. ASSUME NEW i \in 1 .. Len(frames'), NEW q \in frames'[i]
          PROVE  q = r \/ (i \in 1 .. Len(frames) /\ q \in frames[i])
      BY <2>1, <3>1
    <3> QED
      BY <2>2, <3>2 DEF WrittenOnce
  <2> QED
    BY <2>1, <2>2, <2>3 DEF WrittenOnce
<1>9. ASSUME NEW r \in Req, Emit(r) PROVE WrittenOnce'
  <2>1. /\ r \in todo /\ out' = Append(out, r) /\ todo' = todo \ {r}
        /\ UNCHANGED <<wakes, unsent, frames, first, sess>>
    BY <1>9 DEF Emit, dbVars, pumpVars, clVars
  <2>2. \A i \in 1 .. Len(out') : out'[i] = r \/ (i \in 1 .. Len(out) /\ out'[i] = out[i])
    BY <2>1 DEF TypeOK
  <2>3. \A i \in 1 .. Len(out') : Written(out'[i])
    BY <2>1, <2>2 DEF WrittenOnce
  <2> QED
    BY <2>1, <2>3 DEF WrittenOnce, Written
<1>10. ASSUME NEW c \in Client, Begin(c) PROVE WrittenOnce'
  <2>1. /\ UNCHANGED <<wakes, todo, first, frames, out>>
        /\ \/ UNCHANGED <<sess, unsent>>
           \/ /\ sess' = [sess EXCEPT ![c] = sess[c] + 1]
              /\ unsent' = unsent \cup {<<c, sess[c] + 1>>}
    BY <1>10 DEF Begin, lstVars, pumpVars
  <2>2. \A q \in Req : q[1] \in Client /\ q[2] \in Int /\ sess[q[1]] \in Int
    BY DEF Req, TypeOK
  <2>3. \A q \in Req : q[2] <= sess[q[1]] => q[2] <= sess'[q[1]]
    <3>1. CASE UNCHANGED <<sess, unsent>>
      BY <3>1
    <3>2. CASE sess' = [sess EXCEPT ![c] = sess[c] + 1]
      BY <2>2, <3>2 DEF TypeOK
    <3> QED
      BY <2>1, <3>1, <3>2
  <2>4. \A q : Written(q) => Written(q)'
    BY <2>1, <2>2, <2>3 DEF Written
  <2>5. \A q \in unsent' : q[2] <= sess'[q[1]]
    BY <2>1, <2>2, <2>3 DEF WrittenOnce, TypeOK
  <2> QED
    BY <2>1, <2>4, <2>5 DEF WrittenOnce
<1>11. CASE ~Moves
  BY <1>11, OtherStay DEF WrittenOnce, Written
<1> QED
  BY <1>1, <1>2, <1>3, <1>4, <1>5, <1>6, <1>7, <1>8, <1>9, <1>10, <1>11 DEF Moves

\* handleWakeBatch: a window is opened by a registration, and the request it
\* was opened for cannot appear in the database anew.
LEMMA StepServed ==
  ASSUME TypeOK, WrittenOnce, Served, [Next]_vars
  PROVE  Served'
<1>1. CASE HostDial
  BY <1>1 DEF HostDial, Served, dbVars
<1>2. CASE PumpTake \/ Drain \/ DeleteWake \/ Restart \/ HostDialFails \/ HostRecvFails
  BY <1>2 DEF PumpTake, Drain, DeleteWake, Restart, HostDialFails, HostRecvFails, Served,
              AfterError, PumpStart, TypeOK
<1>3. CASE HostRecv \/ HostReply \/ WindowExpires
  BY <1>3 DEF HostRecv, HostReply, WindowExpires, Served, dbVars, histVars
<1>4. ASSUME NEW r \in Req, FireWake(r) PROVE Served'
  BY <1>4 DEF FireWake, Served, WrittenOnce, Written, pumpVars, histVars
<1>5. ASSUME ~(HostDial \/ PumpTake \/ Drain \/ DeleteWake \/ Restart \/ HostDialFails),
             ~(HostRecvFails \/ HostRecv \/ HostReply \/ WindowExpires),
             ~\E r \in Req : FireWake(r)
      PROVE  UNCHANGED <<wakes, pump, first, opened>>
  BY <1>5 DEF Next, ListenerStep, StreamEnds, StreamExpires, PumpStep, HostCut, ServerIdle,
              ServerUnregister, Sweep, Tick, Listen, Frame, Emit, EmitDone, Relisten,
              ClientStep, Begin, ClientConnect, ClientRetry, ClientFails, QuicDial, QuicLost,
              QuicAccept,
              vars, dbVars, pumpVars, histVars
<1> QED
  BY <1>1, <1>2, <1>3, <1>4, <1>5 DEF Served

-----------------------------------------------------------------------------
(* The theorems.                                                           *)

\* A started peershd and clients that have not begun.
LEMMA InitInv == Init => IInv
<1> SUFFICES ASSUME Init PROVE IInv
  OBVIOUS
<1>1. TypeOK
  BY ConstantFacts DEF Init, TypeOK, ListenerStart, PumpStart, Authz!NoGrants
<1>2. WrittenOnce /\ Served
  BY ConstantFacts DEF Init, WrittenOnce, Written, Served, PumpStart
<1>3. Attempts /\ OneGrantOneConn
  BY ConstantFacts DEF Init, Attempts, OneGrantOneConn, Authz!NoGrants
<1> QED
  BY <1>1, <1>2, <1>3 DEF IInv

\* Any step of any part.
LEMMA NextInv == IInv /\ [Next]_vars => IInv'
BY StepType, StepGrant, StepWritten, StepServed DEF IInv

\* The inductive invariant holds in every reachable state.
THEOREM RendezvousInv == Spec => []IInv
BY InitInv, NextInv, PTL DEF Spec

\* Rendezvous is type correct: in particular the channel never holds more than
\* its capacity, and no client makes more than its attempts.
THEOREM TypeCorrect == Spec => []TypeOK
<1>1. IInv => TypeOK
  BY DEF IInv
<1> QED
  BY <1>1, RendezvousInv, PTL

\* Authz.Allow and Authz.Check: with any number of clients, repeated Connects,
\* repeated dials, late handshakes, expired grants and restarts, an outstanding grant stands for a Connect
\* that has not let in a connection yet.
THEOREM GrantedOnce == Spec => []OneGrantOneConn
<1>1. IInv => OneGrantOneConn
  BY DEF IInv
<1> QED
  BY <1>1, RendezvousInv, PTL

\* Only DeleteWakeRequest removes a request, and only the one of its window.
LEMMA StepKept ==
  ASSUME IInv, [Next]_vars
  PROVE  \A r \in wakes : r \notin wakes' => r \in opened
<1>1. CASE DeleteWake
  BY <1>1 DEF DeleteWake, IInv, Served
<1>2. ASSUME ~DeleteWake PROVE wakes \subseteq wakes'
  <2>1. CASE Moves
    BY <1>2, <2>1 DEF Moves, Listen, Frame, StreamEnds, StreamExpires, PumpTake, Drain, Restart,
                      FireWake, Emit, Begin, dbVars
  <2>2. CASE ~Moves
    BY <2>2, OtherStay
  <2> QED
    BY <2>1, <2>2
<1> QED
  BY <1>1, <1>2

\* handleWakeBatch and drainWakeChannel: the host deletes a wake request only
\* after it was registered with the signaling server for it; failed dials,
\* full channels, drains, broken streams and restarts lose none.
THEOREM WakesKept == Spec => WakeKept
<1>1. IInv /\ [Next]_vars => [\A r \in wakes : r \notin wakes' => r \in opened]_vars
  BY StepKept
<1> QED
  BY <1>1, RendezvousInv, PTL DEF Spec, WakeKept
===============================================================================
