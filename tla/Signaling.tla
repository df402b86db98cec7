------------------------------ MODULE Signaling ------------------------------
(***************************************************************************)
(* The signaling server's frame loop (server/ws), its room registry        *)
(* (server/room) and the client library that talks to them                 *)
(* (core/signaling).                                                       *)
(*                                                                         *)
(* Every accepted WebSocket has a goroutine of its own, Connection.run:    *)
(* handshake, registration, the read loop, and on the way out Unregister   *)
(* and Close.  Forward and the notice to a replaced connection write to    *)
(* the socket of ANOTHER connection after the registry's lock is released. *)
(* A write blocks while the socket is full.  Authentication, rate limits   *)
(* and deadlines are choices: what decides them is modelled elsewhere.     *)
(***************************************************************************)
EXTENDS Naturals, Sequences, FiniteSets

CONSTANTS
  Conn,     \* WebSocket connections, each from one Dial
  User, Device,
  None,     \* no connection
  Cap,      \* frames a socket takes before Send blocks
  Buf,      \* capacity of Client.incoming (8)
  Claims,   \* the from_device_ids that clients write into a Connect
  Faulty,   \* connections under which the network may fail
  MaxSend   \* bound: Connects sent on one connection

ASSUME SignalingAssumption ==
  /\ None \notin Conn /\ Claims \subseteq Device
  /\ Cap \in Nat \ {0} /\ Buf \in Nat \ {0} /\ MaxSend \in Nat

VARIABLES
  ident,    \* the (user_id, device_id) a connection registers as
  pc,       \* place of the server's goroutine for the connection
  out,      \* the write that goroutine is in, when pc is "send"
  devices,  \* Registry.devices
  ends,     \* the ends of the WebSocket that are open
  cut,      \* the network has failed under the WebSocket
  up,       \* frames on their way to the server
  down,     \* frames on their way to the client
  cli,      \* place of Dial, then of readPump
  incoming, \* Client.incoming
  once,     \* Client.closeOnce is spent
  gone,     \* Client.Close has returned
  sent,     \* Connects sent so far
  replaced  \* history: Register returned the connection as replaced

srvVars == <<pc, out, devices, replaced>>
cliVars == <<cli, incoming, once, gone, sent>>
wsVars  == <<ends, cut, up, down>>
vars    == <<ident, srvVars, cliVars, wsVars>>

Identity == User \X Device
UserID(c)   == ident[c][1]
DeviceID(c) == ident[c][2]

Hello == [type |-> "hello"]
Reg   == [type |-> "register"]
Ack   == [type |-> "ack"]          \* RegisterAck, accepted
Nack  == [type |-> "nack"]         \* RegisterAck, refused
Err   == [type |-> "error"]        \* ServerError

\* by, a history field, is the connection that the server read the Connect from.
Connect(target, from, by) == [type |-> "connect", target |-> target, from |-> from, by |-> by]

Init ==
  /\ ident \in [Conn -> Identity]
  /\ pc = [c \in Conn |-> "none"]
  /\ out = [c \in Conn |-> <<>>]
  /\ devices = [i \in Identity |-> None]
  /\ ends = [c \in Conn |-> {}]
  /\ cut = [c \in Conn |-> FALSE]
  /\ up = [c \in Conn |-> <<>>]
  /\ down = [c \in Conn |-> <<>>]
  /\ cli = [c \in Conn |-> "idle"]
  /\ incoming = [c \in Conn |-> <<>>]
  /\ once = [c \in Conn |-> FALSE]
  /\ gone = [c \in Conn |-> FALSE]
  /\ sent = [c \in Conn |-> 0]
  /\ replaced = [c \in Conn |-> FALSE]

-----------------------------------------------------------------------------
(* The WebSocket.                                                           *)

Put(queue, c, f) == [queue EXCEPT ![c] = Append(@, f)]
Got(queue, c)    == [queue EXCEPT ![c] = Tail(@)]

\* A read returns what has arrived before it reports that the other end closed.
ReadFails(c, other, queue) == cut[c] \/ (other \notin ends[c] /\ queue[c] = <<>>)

\* The server's end accepts one more frame for c.
CanSend(c)   == "srv" \in ends[c] /\ Len(down[c]) < Cap
\* A write to c returns an error.
SendFails(c) == "srv" \notin ends[c] \/ cut[c] \/ "cli" \notin ends[c]

NetCut(c) ==
  /\ c \in Faulty /\ ends[c] # {} /\ ~cut[c]
  /\ cut' = [cut EXCEPT ![c] = TRUE]
  /\ UNCHANGED <<ident, srvVars, cliVars, ends, up, down>>

-----------------------------------------------------------------------------
(* The server: Connection.run, Registry.                                    *)

Goto(c, place) == pc' = [pc EXCEPT ![c] = place]

\* The goroutine of c goes on to write frame f to the socket of t.
Write(c, t, f, then) ==
  /\ pc' = [pc EXCEPT ![c] = "send"]
  /\ out' = [out EXCEPT ![c] = [to |-> t, frame |-> f, then |-> then]]

SrvHello(c) ==
  /\ pc[c] = "hello" /\ up[c] # <<>> /\ Head(up[c]) = Hello
  /\ CanSend(c)
  /\ down' = Put(down, c, Hello) /\ up' = Got(up, c)
  /\ Goto(c, "register")
  /\ UNCHANGED <<ident, out, devices, replaced, cliVars, ends, cut>>

\* An unexpected frame, a read or write error, a rate limit, a refusal by devid,
\* App Check or the auth provider; or the deadline of 10 s, under which every
\* frame of the handshake is read and written, RegisterAck included.  The reason
\* is sent if the socket still takes it.
HandshakeFails(c) ==
  /\ pc[c] \in {"hello", "register", "ack"}
  /\ \/ down' = down
     \/ CanSend(c) /\ down' = Put(down, c, Err)
     \/ pc[c] = "register" /\ CanSend(c) /\ down' = Put(Put(down, c, Nack), c, Err)
  /\ Goto(c, "close")
  /\ UNCHANGED <<ident, out, devices, replaced, cliVars, ends, cut, up>>

\* Mutation of Accept: the connection is placed in the registry by the handshake,
\* before RegisterAck.
AcceptRegisters(c) ==
  /\ pc[c] = "register" /\ up[c] # <<>> /\ Head(up[c]) = Reg
  /\ up' = Got(up, c)
  /\ devices' = [devices EXCEPT ![ident[c]] = c]
  /\ Goto(c, "ack")
  /\ UNCHANGED <<ident, out, replaced, cliVars, ends, cut, down>>

\* Register passes every check; the connection gets its user and device id.
Accept(c) ==
  /\ pc[c] = "register" /\ up[c] # <<>> /\ Head(up[c]) = Reg
  /\ up' = Got(up, c)
  /\ Goto(c, "ack")
  /\ UNCHANGED <<ident, out, devices, replaced, cliVars, ends, cut, down>>

\* The last frame of the handshake: a full socket is waited for, not past the
\* deadline (HandshakeFails).
SendAck(c) ==
  /\ pc[c] = "ack" /\ CanSend(c)
  /\ down' = Put(down, c, Ack) /\ Goto(c, "install")
  /\ UNCHANGED <<ident, out, devices, replaced, cliVars, ends, cut, up>>

\* Registry.Register; a connection it replaces is told so next.
Install(c) ==
  LET prev == devices[ident[c]] IN
  /\ pc[c] = "install"
  /\ devices' = [devices EXCEPT ![ident[c]] = c]
  /\ IF prev = None
     THEN Goto(c, "read") /\ UNCHANGED <<out, replaced>>
     ELSE Write(c, prev, Err, "read") /\ replaced' = [replaced EXCEPT ![prev] = TRUE]
  /\ UNCHANGED <<ident, cliVars, wsVars>>

\* Mutation of Forward: the copy keeps the from_device_id its sender wrote.
ForwardKeepsFrom(c, m) ==
  LET key == <<UserID(c), m.target>> IN
  IF m.target = DeviceID(c) \/ devices[key] = None
  THEN Write(c, c, Err, "read")
  ELSE Write(c, devices[key], Connect(m.target, m.from, c), "read")

\* Registry.Forward up to RUnlock; an error is reported to the sender, who stays.
Forward(c, m) ==
  LET key == <<UserID(c), m.target>> IN
  IF m.target = DeviceID(c) \/ devices[key] = None
  THEN Write(c, c, Err, "read")
  ELSE Write(c, devices[key], Connect(m.target, DeviceID(c), c), "read")

\* dispatch: a frame of the handshake, or the device rate limit, ends the
\* connection; a Connect is forwarded.
Dispatch(c) ==
  /\ pc[c] = "read" /\ up[c] # <<>>
  /\ up' = Got(up, c)
  /\ \/ Write(c, c, Err, "unreg")
     \/ Head(up[c]).type = "connect" /\ Forward(c, Head(up[c]))
  /\ UNCHANGED <<ident, devices, replaced, cliVars, ends, cut, down>>

\* The write returns.  One that failed to deliver a Connect is reported to its
\* sender; any other failure is ignored.
SendDone(c) ==
  /\ pc[c] = "send"
  /\ \/ /\ CanSend(out[c].to)
        /\ down' = Put(down, out[c].to, out[c].frame)
        /\ Goto(c, out[c].then) /\ out' = [out EXCEPT ![c] = <<>>]
     \/ /\ SendFails(out[c].to) /\ UNCHANGED down
        /\ IF out[c].frame.type = "connect"
           THEN Write(c, c, Err, "read")
           ELSE Goto(c, out[c].then) /\ out' = [out EXCEPT ![c] = <<>>]
  /\ UNCHANGED <<ident, devices, replaced, cliVars, ends, cut, up>>

\* Mutation of IdleTimeout: the timer never fires.
IdleTimeoutNever(c) ==
  /\ FALSE
  /\ UNCHANGED vars

\* Mutation of IdleTimeout: the handler leaves without running Unregister.
IdleTimeoutCloses(c) ==
  /\ pc[c] = "read"
  /\ Write(c, c, Err, "close")
  /\ UNCHANGED <<ident, devices, replaced, cliVars, wsVars>>

\* readFrameWithIdleTimeout: no frame came in time.
IdleTimeout(c) ==
  /\ pc[c] = "read"
  /\ Write(c, c, Err, "unreg")
  /\ UNCHANGED <<ident, devices, replaced, cliVars, wsVars>>

ReadError(c) ==
  /\ pc[c] = "read" /\ ReadFails(c, "cli", up)
  /\ Goto(c, "unreg")
  /\ UNCHANGED <<ident, out, devices, replaced, cliVars, wsVars>>

\* Mutation of Unregister: whatever the registry holds for the device goes.
UnregisterAny(c) ==
  /\ pc[c] = "unreg"
  /\ devices' = [devices EXCEPT ![ident[c]] = None]
  /\ Goto(c, "close")
  /\ UNCHANGED <<ident, out, replaced, cliVars, wsVars>>

\* Registry.Unregister, a no-op when another connection holds the entry.
Unregister(c) ==
  /\ pc[c] = "unreg"
  /\ devices' = [devices EXCEPT ![ident[c]] = IF @ = c THEN None ELSE @]
  /\ Goto(c, "close")
  /\ UNCHANGED <<ident, out, replaced, cliVars, wsVars>>

SrvClose(c) ==
  /\ pc[c] = "close"
  /\ ends' = [ends EXCEPT ![c] = @ \ {"srv"}]
  /\ Goto(c, "done")
  /\ UNCHANGED <<ident, out, devices, replaced, cliVars, cut, up, down>>

-----------------------------------------------------------------------------
(* The client: Dial, readPump, and its caller.                              *)

\* The upgrade and the ClientHello; the server's IP limit may refuse it.
Dial(c) ==
  /\ cli[c] = "idle"
  /\ \/ /\ cli' = [cli EXCEPT ![c] = "hello"] /\ Goto(c, "hello")
        /\ ends' = [ends EXCEPT ![c] = {"srv", "cli"}] /\ up' = Put(up, c, Hello)
     \/ cli' = [cli EXCEPT ![c] = "failed"] /\ Goto(c, "done") /\ UNCHANGED <<ends, up>>
  /\ UNCHANGED <<ident, out, devices, replaced, incoming, once, gone, sent, cut, down>>

DialHello(c) ==
  /\ cli[c] = "hello" /\ down[c] # <<>> /\ Head(down[c]) = Hello
  /\ down' = Got(down, c) /\ up' = Put(up, c, Reg)
  /\ cli' = [cli EXCEPT ![c] = "register"]
  /\ UNCHANGED <<ident, srvVars, incoming, once, gone, sent, ends, cut>>

DialAck(c) ==
  /\ cli[c] = "register" /\ down[c] # <<>> /\ Head(down[c]) = Ack
  /\ down' = Got(down, c)
  /\ cli' = [cli EXCEPT ![c] = "up"]
  /\ UNCHANGED <<ident, srvVars, incoming, once, gone, sent, ends, cut, up>>

\* Any other frame, an error, or the deadline: Dial closes the socket.
DialFails(c) ==
  /\ cli[c] \in {"hello", "register"}
  /\ cli' = [cli EXCEPT ![c] = "failed"]
  /\ ends' = [ends EXCEPT ![c] = @ \ {"cli"}]
  /\ UNCHANGED <<ident, srvVars, incoming, once, gone, sent, cut, up, down>>

\* The wire lets a client write any from_device_id.
SendConnect(c, target, from) ==
  /\ cli[c] \in {"up", "dead"} /\ ~gone[c] /\ "cli" \in ends[c]
  /\ sent[c] < MaxSend
  /\ sent' = [sent EXCEPT ![c] = @ + 1]
  /\ up' = Put(up, c, Connect(target, from, c))
  /\ UNCHANGED <<ident, srvVars, cli, incoming, once, gone, ends, cut, down>>

\* A Connect goes to the caller, who may be slow; a ServerError ends the pump.
PumpRead(c) ==
  /\ cli[c] = "up" /\ "cli" \in ends[c] /\ down[c] # <<>>
  /\ down' = Got(down, c)
  /\ IF Head(down[c]).type = "connect"
     THEN /\ Len(incoming[c]) < Buf
          /\ incoming' = Put(incoming, c, Head(down[c]))
          /\ UNCHANGED <<cli, once>>
     ELSE /\ cli' = [cli EXCEPT ![c] = "dead"] /\ once' = [once EXCEPT ![c] = TRUE]
          /\ UNCHANGED incoming
  /\ UNCHANGED <<ident, srvVars, gone, sent, ends, cut, up>>

\* A failed read leaves the socket closed; recordCloseErr.
PumpFails(c) ==
  /\ cli[c] = "up" /\ ("cli" \notin ends[c] \/ ReadFails(c, "srv", down))
  /\ cli' = [cli EXCEPT ![c] = "dead"]
  /\ once' = [once EXCEPT ![c] = TRUE]
  /\ ends' = [ends EXCEPT ![c] = @ \ {"cli"}]
  /\ UNCHANGED <<ident, srvVars, incoming, gone, sent, cut, up, down>>

Recv(c) ==
  /\ incoming[c] # <<>> /\ ~gone[c]
  /\ incoming' = Got(incoming, c)
  /\ UNCHANGED <<ident, srvVars, cli, once, gone, sent, wsVars>>

\* closeOnce: a second run of the body, here or after recordCloseErr, does nothing.
Close(c) ==
  /\ cli[c] \in {"up", "dead"} /\ ~gone[c]
  /\ gone' = [gone EXCEPT ![c] = TRUE]
  /\ once' = [once EXCEPT ![c] = TRUE]
  /\ ends' = [ends EXCEPT ![c] = IF once[c] THEN @ ELSE @ \ {"cli"}]
  /\ UNCHANGED <<ident, srvVars, cli, incoming, sent, cut, up, down>>

-----------------------------------------------------------------------------
SrvStep(c) ==
  \/ SrvHello(c) \/ HandshakeFails(c) \/ Accept(c) \/ SendAck(c) \/ Install(c)
  \/ Dispatch(c) \/ SendDone(c) \/ IdleTimeout(c) \/ ReadError(c)
  \/ Unregister(c) \/ SrvClose(c)

CliStep(c) ==
  \/ Dial(c) \/ DialHello(c) \/ DialAck(c) \/ DialFails(c)
  \/ PumpRead(c) \/ PumpFails(c) \/ Recv(c) \/ Close(c)
  \/ \E target \in Device, from \in Claims : SendConnect(c, target, from)

\* Every connection has run its course.
Finished ==
  /\ \A c \in Conn : pc[c] = "done" /\ (cli[c] = "failed" \/ (cli[c] = "dead" /\ gone[c]))
  /\ UNCHANGED vars

Next ==
  \/ \E c \in Conn : SrvStep(c) \/ CliStep(c) \/ NetCut(c)
  \/ Finished

Spec == Init /\ [][Next]_vars

\* Only the server is fair: a client may freeze at any point.
LiveSpec == Spec /\ \A c \in Conn : WF_vars(SrvStep(c))

-----------------------------------------------------------------------------
(* Safety.                                                                  *)

Frame == {Hello, Reg, Ack, Nack, Err} \cup
         [type: {"connect"}, target: Device, from: Device, by: Conn]

Place == {"none", "hello", "register", "ack", "install", "read", "send", "unreg",
          "close", "done"}

Pending == [to: Conn, frame: Frame, then: {"read", "unreg"}]

TypeOK ==
  /\ ident \in [Conn -> Identity]
  /\ pc \in [Conn -> Place]
  /\ out \in [Conn -> {<<>>} \cup Pending]
  /\ \A c \in Conn : pc[c] = "send" => out[c] \in Pending
  /\ devices \in [Identity -> Conn \cup {None}]
  /\ ends \in [Conn -> SUBSET {"srv", "cli"}]
  /\ cut \in [Conn -> BOOLEAN]
  /\ up \in [Conn -> Seq(Frame)] /\ down \in [Conn -> Seq(Frame)]
  /\ cli \in [Conn -> {"idle", "hello", "register", "up", "dead", "failed"}]
  /\ incoming \in [Conn -> Seq(Frame)]
  /\ once \in [Conn -> BOOLEAN] /\ gone \in [Conn -> BOOLEAN]
  /\ sent \in [Conn -> 0 .. MaxSend]
  /\ replaced \in [Conn -> BOOLEAN]

\* A goroutine between Registry.Register and Registry.Unregister.
Serving(c) == pc[c] \in {"read", "send", "unreg"}

\* The registry holds only connections that are being served, each under its own
\* (user_id, device_id): no path out of Connection.run leaves an entry behind,
\* and Forward never picks a connection that has ended (run, Unregister).
RegistryLive ==
  \A i \in Identity : devices[i] # None => ident[devices[i]] = i /\ Serving(devices[i])

\* A connection stays reachable while it is served, unless its device registered
\* again: the late exit of a replaced connection does not take its successor out
\* of the registry (Registry.Register, Registry.Unregister).
StaysReachable == \A c \in Conn : Serving(c) => devices[ident[c]] = c \/ replaced[c]

\* A Connect for the client of c comes from a device of the same user, which it
\* names truly, and is meant for c's device.
Routed(f, c) ==
  f.type = "connect" =>
    /\ ident[f.by] = <<UserID(c), f.from>>
    /\ DeviceID(c) = f.target
    /\ f.from # f.target

\* A Connect reaches only the device it names, of the user who sent it, and says
\* truly which device that was, whatever the sender wrote and although the target
\* is written to after the registry's lock is gone (Forward).
RoutedTruly ==
  \A c \in Conn :
    /\ pc[c] = "send" => Routed(out[c].frame, out[c].to)
    /\ \A n \in DOMAIN down[c] : Routed(down[c][n], c)
    /\ \A n \in DOMAIN incoming[c] : Routed(incoming[c][n], c)

WaitsForAck(c) == cli[c] \in {"idle", "hello", "register"}

\* No Connect overtakes the RegisterAck that Dial waits for, which would make
\* Dial fail: the registry learns of a connection only after its ack was written
\* (handshake, run).
AckBeforeConnect ==
  \A c \in Conn : WaitsForAck(c) =>
    \A n \in DOMAIN down[c] : down[c][n].type = "connect" =>
      \E k \in DOMAIN down[c] : k < n /\ down[c][k] = Ack

\* While Dial waits on a connection that anyone may write to, its ack is on the way.
Acked(c) == \E n \in DOMAIN down[c] : down[c][n] = Ack
Writable(c) == cli[c] # "idle" /\ (WaitsForAck(c) => Acked(c))

AckOnWay ==
  \A c \in Conn : /\ pc[c] = "send" => Writable(out[c].to)
                  /\ pc[c] = "install" \/ Serving(c) => Writable(c)

\* The server has no goroutine for a connection that was not dialled.
DialFresh == \A c \in Conn : cli[c] = "idle" => pc[c] = "none"

\* The inductive invariant of the proofs.
SigInv ==
  TypeOK /\ DialFresh /\ RegistryLive /\ StaysReachable /\ RoutedTruly /\ AckOnWay /\ AckBeforeConnect

-----------------------------------------------------------------------------
(* Liveness.                                                                *)

\* Every goroutine ends: a client that freezes in the handshake or later holds
\* its connection only until a deadline or the idle timeout (handshake,
\* readFrameWithIdleTimeout).
HandlerEnds == \A c \in Conn : pc[c] # "none" ~> pc[c] = "done"

-----------------------------------------------------------------------------
(* What comments say and the code does not do.                              *)

\* "Close shuts down the WebSocket and read pump" (Client.Close).
CloseShutsDown == \A c \in Conn : gone[c] => "cli" \notin ends[c]

\* IdleTimeout "caps how long a registered connection may sit without sending any
\* frame before the server closes it" (Server.IdleTimeout).
IdleCapped == \A c \in Conn : []<>(~Serving(c) \/ up[c] # <<>>)
=============================================================================
