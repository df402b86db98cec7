----------------------------- MODULE Rendezvous -----------------------------
(***************************************************************************)
(* How a client reaches a host: the wake request in the Realtime Database, *)
(* the host's wake listener and wake pump (Firebase mode) or its signaling *)
(* loop (PSK mode), the client's negotiation with its retries, the limits  *)
(* of the signaling server, and the one-shot grants of the QUIC listener.  *)
(*                                                                         *)
(* The signaling server is what Signaling describes in detail, reduced to  *)
(* the registration of the host: "live" is a connection that the host      *)
(* reads, "zombie" one that is still registered although the host is gone  *)
(* from it.  A frame sent to the server is processed in the same step.     *)
(* A session of a client is one call of openSignalingInternal, or one run  *)
(* of the CLI; the request that it writes is <<client, session>>.  Timers  *)
(* count ticks.                                                            *)
(***************************************************************************)
EXTENDS Integers, Sequences

CONSTANTS
  Modes,                    \* "wake" (Firebase), "psk", or both
  Client,                   \* device ids
  NoClient, NoReq,
  TTL,                      \* peerauth
  ShortTTL, DrainTTL,       \* wakeShortTTL, wakeDrainTTL
  IdleTimeout,              \* the server's idle close
  NetFails,                 \* whether the host's signaling connection may break
  Cap,                      \* capacity of the channel of wake events (8)
  MaxAttempts,              \* attempts of negotiateConnectWithRetry (5)
  MaxSessions,              \* bound: wake requests that one client writes
  MaxInbox,                 \* bound: Connects on their way to the host
  MaxDials                  \* bound: QUIC handshakes of one client under way

ASSUME RendezvousAssumption ==
  /\ Modes \subseteq {"wake", "psk"} /\ NetFails \in BOOLEAN
  /\ NoClient \notin Client
  /\ NoReq \notin Client \X (1 .. MaxSessions)
  /\ {Cap, MaxAttempts} \subseteq Nat \ {0}
  /\ {TTL, ShortTTL, DrainTTL, IdleTimeout, MaxSessions, MaxInbox, MaxDials} \subseteq Nat

Req == Client \X (1 .. MaxSessions)

Authz == INSTANCE PeerAuth

VARIABLES
  mode,       \* how peershd was configured
  wakes,      \* wake_requests for this host in the Realtime Database
  unsent,     \* requests whose write has not been made
  \* WakeListener
  lst, frames, todo,
  \* the channel of wake events
  out,
  \* runWakePump and handleWakeBatch, or runSignaling
  pump, first, serving, left,
  ws, inbox,  \* the host's signaling client: its state, Connects to receive
  pending,    \* Authz.pending
  \* the signaling server
  reg,
  \* clients: a client is "idle" while no session of it is being set up
  cl, sess, tries,
  dials,      \* QUIC handshakes under way: dialled, and not yet seen by serveConn
  \* history, read by no action
  opened,     \* requests in the database for which a window has been opened
  owed        \* clients heard of since their last accepted QUIC connection

dbVars    == <<wakes, unsent>>
lstVars   == <<lst, frames, todo>>
pumpVars  == <<pump, first, serving, left>>
wsVars    == <<ws, inbox>>
clVars    == <<cl, sess, tries, dials>>
histVars  == <<opened, owed>>
vars == <<mode, dbVars, lstVars, out, pumpVars, wsVars, pending, reg, clVars,
          histVars>>

\* A started peershd.  In PSK mode there is no listener and one dial.
ListenerStart == IF mode = "wake" THEN "connect" ELSE "none"
PumpStart     == IF mode = "wake" THEN "idle" ELSE "dial"

Init ==
  /\ mode \in Modes
  /\ wakes = {} /\ unsent = {}
  /\ lst = ListenerStart /\ frames = <<>> /\ todo = {}
  /\ out = <<>>
  /\ pump = PumpStart /\ first = NoReq /\ serving = NoClient /\ left = 0
  /\ ws = "closed" /\ inbox = <<>>
  /\ pending = Authz!NoGrants
  /\ reg = "none"
  /\ cl = [c \in Client |-> "idle"]
  /\ sess = [c \in Client |-> 0]
  /\ tries = [c \in Client |-> 0]
  /\ dials = [c \in Client |-> 0]
  /\ opened = {} /\ owed = {}

-----------------------------------------------------------------------------
(* The Realtime Database and the wake listener.                            *)

\* fireWakeRequest, or the app's counterpart, in parallel with the dial.  The
\* database tells an open stream.
FireWake(r) ==
  /\ r \in unsent
  /\ unsent' = unsent \ {r} /\ wakes' = wakes \cup {r}
  /\ frames' = IF lst \in {"open", "dispatch"} THEN Append(frames, {r}) ELSE frames
  /\ UNCHANGED <<mode, lst, todo, out, pumpVars, wsVars, pending, reg, clVars,
                 histVars>>

\* Mutation: the first frame of a stream is skipped.
ListenNoSnapshot ==
  /\ lst = "connect"
  /\ \/ lst' \in {"backoff", "done"} /\ UNCHANGED frames
     \/ lst' = "open" /\ frames' = <<>>
  /\ UNCHANGED <<mode, dbVars, todo, out, pumpVars, wsVars, pending, reg, clVars,
                 histVars>>

\* consume: mint a token and open a stream, whose first frame is a snapshot.  A
\* request of either that times out fails with DeadlineExceeded, and run returns.
Listen ==
  /\ lst = "connect"
  /\ \/ lst' \in {"backoff", "done"} /\ UNCHANGED frames
     \/ lst' = "open" /\ frames' = <<wakes>>
  /\ UNCHANGED <<mode, dbVars, todo, out, pumpVars, wsVars, pending, reg, clVars,
                 histVars>>

\* consume: the next put or patch frame.
Frame ==
  /\ lst = "open" /\ frames # <<>>
  /\ lst' = "dispatch" /\ todo' = Head(frames) /\ frames' = Tail(frames)
  /\ UNCHANGED <<mode, dbVars, out, pumpVars, wsVars, pending, reg, clVars,
                 histVars>>

\* dispatch and maybeEmit: the children of a frame in the order of a Go map;
\* the listener blocks while the channel is full.
Emit(r) ==
  /\ lst = "dispatch" /\ r \in todo /\ Len(out) < Cap
  /\ out' = Append(out, r) /\ todo' = todo \ {r}
  /\ UNCHANGED <<mode, dbVars, lst, frames, pumpVars, wsVars, pending, reg, clVars,
                 histVars>>

EmitDone ==
  /\ lst = "dispatch" /\ todo = {}
  /\ lst' = "open"
  /\ UNCHANGED <<mode, dbVars, frames, todo, out, pumpVars, wsVars, pending, reg,
                 clVars, histVars>>

\* consume returns with an error: the stream broke, or the server cancelled it.
StreamEnds ==
  /\ lst = "open"
  /\ lst' = "backoff" /\ frames' = <<>>
  /\ UNCHANGED <<mode, dbVars, todo, out, pumpVars, wsVars, pending, reg, clVars,
                 histVars>>

\* The deadline of streamCtx passes.  It ends the context and, through the
\* body of the response, the stream; select takes either.  With the second,
\* consume returns DeadlineExceeded, and run returns.
StreamExpires ==
  /\ lst = "open"
  /\ lst' \in {"backoff", "done"} /\ frames' = <<>>
  /\ UNCHANGED <<mode, dbVars, todo, out, pumpVars, wsVars, pending, reg, clVars,
                 histVars>>

\* run: the backoff is over.  It is at least 200 ms, and drainWakeChannel never
\* blocks: a drain that was under way is over.
Relisten ==
  /\ lst = "backoff" /\ pump # "drain"
  /\ lst' = "connect"
  /\ UNCHANGED <<mode, dbVars, frames, todo, out, pumpVars, wsVars, pending, reg,
                 clVars, histVars>>

-----------------------------------------------------------------------------
(* The host's wake pump and signaling loop.                                *)

\* runWakePump takes an event.
PumpTake ==
  /\ pump = "idle" /\ out # <<>>
  /\ first' = Head(out) /\ out' = Tail(out) /\ pump' = "dial"
  /\ UNCHANGED <<mode, dbVars, lstVars, serving, left, wsVars, pending, reg, clVars,
                 histVars>>

\* Where an error of handleWakeBatch, or of runSignaling, leads.
AfterError == IF mode = "wake" THEN "drain" ELSE "gone"

\* signaling.Dial of the host.  A registration replaces the previous one.  In
\* PSK mode left is the time to the server's idle close.
HostDial ==
  /\ pump = "dial"
  /\ pump' = "window" /\ ws' = "open" /\ reg' = "live" /\ inbox' = <<>>
  /\ left' = IF mode = "wake" THEN ShortTTL ELSE IdleTimeout
  /\ opened' = (opened \cup {first}) \cap wakes
  /\ UNCHANGED <<mode, dbVars, lstVars, out, first, serving, pending, clVars,
                 owed>>

\* The token cannot be minted, or the dial fails, or one of the server's limits
\* (RateLimit) refuses it.
HostDialFails ==
  /\ pump = "dial"
  /\ pump' = AfterError
  /\ UNCHANGED <<mode, dbVars, lstVars, out, first, serving, left, wsVars, pending, reg,
                 clVars, histVars>>

\* Recv returns a Connect; its sender is granted before it is punched.
HostRecv ==
  /\ pump = "window" /\ inbox # <<>>
  /\ serving' = Head(inbox) /\ inbox' = Tail(inbox) /\ pump' = "punch"
  /\ pending' = Authz!Grant(pending, Head(inbox))
  /\ owed' = owed \cup {Head(inbox)}
  /\ UNCHANGED <<mode, dbVars, lstVars, out, first, left, ws, reg, clVars,
                 opened>>

\* Recv returns an error: the client's read pump has ended.
HostRecvFails ==
  /\ pump = "window" /\ ws = "broken"
  /\ pump' = AfterError /\ ws' = "closed" /\ inbox' = <<>> /\ left' = 0
  /\ UNCHANGED <<mode, dbVars, lstVars, out, first, serving, pending, reg,
                 clVars, histVars>>

Later(a, b) == IF a > b THEN a ELSE b

\* SendConnect of the reply.  A broken connection refuses it.  The server
\* closes the connection if the host is over its DeviceLimit, whose bucket is
\* not followed here.  It forwards the reply to a client that waits for it, and
\* answers with target_unknown otherwise, which ends the host's read pump and
\* leaves the connection registered.
HostReply ==
  /\ pump = "punch"
  /\ pump' = "window" /\ serving' = NoClient
  /\ IF ws = "broken"
     THEN UNCHANGED <<left, ws, reg, cl>>
     ELSE /\ left' = IF mode = "wake" THEN Later(left, DrainTTL) ELSE IdleTimeout
          /\ \/ ws' = "broken" /\ reg' = "none" /\ UNCHANGED cl
             \/ /\ cl[serving] = "wait"
                /\ cl' = [cl EXCEPT ![serving] = "quic"] /\ UNCHANGED <<ws, reg>>
             \/ /\ cl[serving] # "wait"
                /\ ws' = "broken" /\ reg' = "zombie" /\ UNCHANGED cl
  /\ UNCHANGED <<mode, dbVars, lstVars, out, first, inbox, pending, sess, tries,
                 dials, histVars>>

\* handleWakeBatch: the window is over.
WindowExpires ==
  /\ mode = "wake" /\ pump = "window" /\ left = 0
  /\ pump' = "delete"
  /\ UNCHANGED <<mode, dbVars, lstVars, out, first, serving, left, wsVars, pending, reg,
                 clVars, histVars>>

\* Mutation: all requests of the host are deleted.
DeleteWakeAll ==
  /\ pump = "delete"
  /\ wakes' \in {wakes, {}}
  /\ pump' = "drain" /\ ws' = "closed" /\ inbox' = <<>>
  /\ reg' = IF reg = "live" THEN "zombie" ELSE reg
  /\ opened' = opened \cap wakes'
  /\ UNCHANGED <<mode, unsent, lstVars, out, first, serving, left, pending, clVars, owed>>

\* DeleteWakeRequest of the request that opened the window, which may fail,
\* and the deferred Close.  The server notices the latter later.
DeleteWake ==
  /\ pump = "delete"
  /\ wakes' \in {wakes, wakes \ {first}}
  /\ pump' = "drain" /\ ws' = "closed" /\ inbox' = <<>>
  /\ reg' = IF reg = "live" THEN "zombie" ELSE reg
  /\ opened' = opened \cap wakes'
  /\ UNCHANGED <<mode, unsent, lstVars, out, first, serving, left, pending, clVars, owed>>

\* Mutation: the drain ranges over the channel.
DrainRange ==
  /\ pump = "drain" /\ out # <<>>
  /\ out' = Tail(out)
  /\ UNCHANGED <<mode, dbVars, lstVars, pumpVars, wsVars, pending, reg, clVars, histVars>>

\* drainWakeChannel
Drain ==
  /\ pump = "drain"
  /\ IF out # <<>> THEN out' = Tail(out) /\ UNCHANGED <<pump, first>>
     ELSE pump' = "idle" /\ first' = NoReq /\ UNCHANGED out
  /\ UNCHANGED <<mode, dbVars, lstVars, serving, left, wsVars, pending, reg, clVars,
                 histVars>>

\* The connection breaks without the server noticing.
HostCut ==
  /\ NetFails /\ ws = "open"
  /\ ws' = "broken" /\ reg' = "zombie"
  /\ UNCHANGED <<mode, dbVars, lstVars, out, pumpVars, inbox, pending, clVars,
                 histVars>>

\* The server closes a PSK host that has sent nothing for the idle timeout.
ServerIdle ==
  /\ mode = "psk" /\ ws = "open" /\ left = 0
  /\ ws' = "broken" /\ reg' = "none"
  /\ UNCHANGED <<mode, dbVars, lstVars, out, pumpVars, inbox, pending, clVars,
                 histVars>>

\* The server notices a connection that the host has left.
ServerUnregister ==
  /\ reg = "zombie"
  /\ reg' = "none"
  /\ UNCHANGED <<mode, dbVars, lstVars, out, pumpVars, wsVars, pending, clVars,
                 histVars>>

\* peershd ends, in any state, and is started again.
Restart ==
  /\ lst' = ListenerStart /\ frames' = <<>> /\ todo' = {} /\ out' = <<>>
  /\ pump' = PumpStart /\ first' = NoReq /\ serving' = NoClient /\ left' = 0
  /\ ws' = "closed" /\ inbox' = <<>> /\ pending' = Authz!NoGrants
  /\ reg' = IF reg = "live" THEN "zombie" ELSE reg
  /\ UNCHANGED <<mode, dbVars, clVars, histVars>>

-----------------------------------------------------------------------------
(* Clients: mobile-core and the CLI.                                       *)

\* A new session; in Firebase mode its wake request is to be written.  A session
\* past MaxSessions, of a client that asks again and again, fails to write it.
Begin(c) ==
  /\ cl[c] = "idle"
  /\ cl' = [cl EXCEPT ![c] = "dial"]
  /\ IF mode = "wake" /\ sess[c] < MaxSessions
     THEN /\ sess' = [sess EXCEPT ![c] = @ + 1]
          /\ unsent' = unsent \cup {<<c, sess[c] + 1>>}
     ELSE UNCHANGED <<sess, unsent>>
  /\ UNCHANGED <<mode, wakes, lstVars, out, pumpVars, wsVars, pending, reg, tries,
                 dials, histVars>>

\* negotiateConnect: signaling.Dial, SendConnect, and what the server makes of
\* it.  Only target_unknown is retried, after a pause; a refusal by the limits
\* of the server is final: ClientFails.
ClientConnect(c) ==
  /\ cl[c] = "dial"
  /\ IF reg = "none"
     THEN /\ cl' = [cl EXCEPT ![c] = "backoff"] /\ tries' = [tries EXCEPT ![c] = @ + 1]
          /\ UNCHANGED inbox
     ELSE /\ Len(inbox) < MaxInbox
          /\ cl' = [cl EXCEPT ![c] = "wait"] /\ tries' = [tries EXCEPT ![c] = 0]
          /\ inbox' = IF reg = "live" THEN Append(inbox, c) ELSE inbox
  /\ UNCHANGED <<mode, dbVars, lstVars, out, pumpVars, ws, pending, reg, sess, dials,
                 histVars>>

\* negotiateConnectWithRetry: the pause is over.
ClientRetry(c) ==
  /\ cl[c] = "backoff"
  /\ IF tries[c] < MaxAttempts
     THEN cl' = [cl EXCEPT ![c] = "dial"] /\ UNCHANGED tries
     ELSE cl' = [cl EXCEPT ![c] = "idle"] /\ tries' = [tries EXCEPT ![c] = 0]
  /\ UNCHANGED <<mode, dbVars, lstVars, out, pumpVars, wsVars, pending, reg, sess,
                 dials, histVars>>

\* The context of the session ends, or the network fails, or no candidate of
\* the host answers.
ClientFails(c) ==
  /\ cl[c] \in {"dial", "wait", "backoff", "quic"}
  /\ cl' = [cl EXCEPT ![c] = "idle"] /\ tries' = [tries EXCEPT ![c] = 0]
  /\ UNCHANGED <<mode, dbVars, lstVars, out, pumpVars, wsVars, pending, reg, sess,
                 dials, histVars>>

\* The sequential dials of the host's candidates: one that does not answer in
\* two seconds is left, and its handshake may yet complete.
QuicDial(c) ==
  /\ cl[c] = "quic" /\ dials[c] < MaxDials
  /\ dials' = [dials EXCEPT ![c] = @ + 1]
  /\ UNCHANGED <<mode, dbVars, lstVars, out, pumpVars, wsVars, pending, reg, cl, sess,
                 tries, histVars>>

\* A handshake fails.
QuicLost(c) ==
  /\ dials[c] > 0
  /\ dials' = [dials EXCEPT ![c] = @ - 1]
  /\ UNCHANGED <<mode, dbVars, lstVars, out, pumpVars, wsVars, pending, reg, cl, sess,
                 tries, histVars>>

\* A handshake completes, and serveConn checks the grant of its device.  It may
\* be the one the client waits for, an earlier one of the same reply, or one of
\* an earlier reply.
QuicAccept(c) ==
  LET ok == Authz!Granted(pending, c) IN
  /\ dials[c] > 0
  /\ dials' = [dials EXCEPT ![c] = @ - 1]
  /\ pending' = Authz!Consume(pending, c)
  /\ owed' = IF ok THEN owed \ {c} ELSE owed
  /\ \/ cl[c] = "quic" /\ cl' = [cl EXCEPT ![c] = "idle"]
     \/ UNCHANGED cl
  /\ UNCHANGED <<mode, dbVars, lstVars, out, pumpVars, wsVars, reg, sess, tries,
                 opened>>

-----------------------------------------------------------------------------
(* The clock.                                                              *)

\* Authz.RunSweeper
Sweep ==
  /\ Authz!Expired(pending) # {}
  /\ pending' = Authz!Swept(pending)
  /\ UNCHANGED <<mode, dbVars, lstVars, out, pumpVars, wsVars, reg, clVars, histVars>>

Tick ==
  /\ pending' = Authz!Older(pending)
  /\ left' = IF left > 0 THEN left - 1 ELSE 0
  /\ UNCHANGED <<mode, dbVars, lstVars, out, pump, first, serving, wsVars, reg, clVars,
                 histVars>>

InChannel(r) == \E i \in 1 .. Len(out) : out[i] = r

ListenerStep ==
  Listen \/ Frame \/ (\E r \in Req : Emit(r)) \/ EmitDone \/ Relisten

PumpStep ==
  \/ PumpTake \/ HostDial \/ HostDialFails \/ HostRecv \/ HostRecvFails \/ HostReply
  \/ WindowExpires \/ DeleteWake \/ Drain

ClientStep(c) ==
  \/ Begin(c) \/ ClientConnect(c) \/ ClientRetry(c) \/ ClientFails(c)
  \/ QuicDial(c) \/ QuicLost(c) \/ QuicAccept(c)

Next ==
  \/ \E r \in Req : FireWake(r)
  \/ ListenerStep \/ StreamEnds \/ StreamExpires
  \/ PumpStep \/ HostCut \/ ServerIdle \/ ServerUnregister \/ Restart
  \/ \E c \in Client : ClientStep(c)
  \/ Sweep \/ Tick

Spec == Init /\ [][Next]_vars

\* The goroutines of peershd run and its clock ticks, so that no stream outlives
\* its deadline; a stream that is opened again and again delivers its snapshot at
\* some time.  peershd is not restarted for ever.  Nothing is assumed of clients,
\* of the writes to the database, or of the server.
FairSpec ==
  /\ Spec
  /\ WF_vars(ListenerStep) /\ SF_vars(Frame) /\ SF_vars(Listen /\ lst' = "open")
  /\ WF_vars(StreamExpires) /\ WF_vars(PumpStep) /\ WF_vars(Tick)
  /\ <>[][~Restart]_vars

-----------------------------------------------------------------------------
(* Properties.                                                             *)

\* The types of the variables; the host has a connection in a window only.
TypeOK ==
  /\ mode \in Modes
  /\ wakes \subseteq Req /\ unsent \subseteq Req
  /\ lst \in {"none", "connect", "open", "dispatch", "backoff", "done"}
  /\ frames \in Seq(SUBSET Req) /\ todo \subseteq Req
  /\ out \in Seq(Req) /\ Len(out) <= Cap
  /\ pump \in {"idle", "dial", "window", "punch", "delete", "drain", "gone"}
  /\ first \in Req \cup {NoReq} /\ serving \in Client \cup {NoClient} /\ left \in Nat
  /\ ws \in {"closed", "open", "broken"} /\ inbox \in Seq(Client)
  /\ DOMAIN pending \subseteq Client
  /\ \A c \in DOMAIN pending : pending[c] \in 0 .. TTL + 1
  /\ reg \in {"none", "live", "zombie"}
  /\ cl \in [Client -> {"idle", "dial", "wait", "backoff", "quic"}]
  /\ sess \in [Client -> 0 .. MaxSessions] /\ tries \in [Client -> 0 .. MaxAttempts]
  /\ dials \in [Client -> 0 .. MaxDials]
  /\ opened \subseteq wakes /\ owed \subseteq Client
  /\ pump \in {"window", "punch", "delete"} <=> ws # "closed"
  /\ pump = "punch" <=> serving # NoClient

\* Check: a grant that is outstanding stands for a Connect that the host
\* received from that device since it last accepted a QUIC connection from it,
\* so that no Connect lets in two connections, however often it is repeated,
\* its reply dialled, and however late a handshake completes.
OneGrantOneConn == DOMAIN pending \subseteq owed

\* DeleteWakeRequest: the host removes a wake request from the database only
\* after it was registered with the signaling server on its behalf; a wake
\* whose dial failed, or that was drained, is kept for the next snapshot.
WakeKept ==
  [][\A r \in wakes : r \notin wakes' => r \in opened]_vars

\* The wake listener loses no request over breaks of its stream, a channel that
\* is full, drains and deletions that fail: one that stays in the database reaches
\* the channel, again and again, unless the listener has ended for good or
\* Connects keep the window of the pump open for ever, so that nobody takes from
\* the channel.
EveryWakeSurfaces ==
  \A r \in Req :
    []<>(r \in wakes => InChannel(r) \/ lst = "done" \/ pump = "punch")

\* runWakePump: the pump comes back for the next event, unless Connects keep its
\* window open for ever: each reply moves the deadline to wakeDrainTTL from then,
\* and the server lets a client ask more often than that.
PumpReturns ==
  []<>(mode = "wake" => pump \in {"idle", "punch"})

\* docs/design/architecture.md of the host's WebSocket: "In PSK mode the host
\* holds it open continuously".
HeldOpen == [][pump' = "gone" => pump \in {"dial", "gone"}]_vars
=============================================================================
