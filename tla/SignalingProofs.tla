--------------------------- MODULE SignalingProofs ---------------------------
(***************************************************************************)
(* Proofs about Signaling, for every number of connections, users and      *)
(* devices and every size of the sockets.                                  *)
(***************************************************************************)
EXTENDS Signaling, TLAPS

-----------------------------------------------------------------------------
(* The queues of a WebSocket.                                               *)

\* What Put does to a queue of frames.
LEMMA PutFacts ==
  ASSUME NEW q \in [Conn -> Seq(Frame)], NEW c \in Conn, NEW f \in Frame
  PROVE  /\ Put(q, c, f) \in [Conn -> Seq(Frame)]
         /\ \A b \in Conn \ {c} : Put(q, c, f)[b] = q[b]
         /\ DOMAIN Put(q, c, f)[c] = 1 .. (Len(q[c]) + 1)
         /\ DOMAIN q[c] = 1 .. Len(q[c]) /\ Len(q[c]) \in Nat
         /\ \A n \in DOMAIN q[c] : Put(q, c, f)[c][n] = q[c][n]
         /\ Put(q, c, f)[c][Len(q[c]) + 1] = f
<1>1. q[c] \in Seq(Frame) /\ Append(q[c], f) \in Seq(Frame)
  OBVIOUS
<1>2. Put(q, c, f)[c] = Append(q[c], f)
  BY DEF Put
<1>3. Put(q, c, f) \in [Conn -> Seq(Frame)] /\ \A b \in Conn \ {c} : Put(q, c, f)[b] = q[b]
  BY <1>1 DEF Put
<1>4. /\ DOMAIN q[c] = 1 .. Len(q[c]) /\ Len(q[c]) \in Nat
      /\ Len(Append(q[c], f)) = Len(q[c]) + 1
      /\ \A n \in 1 .. Len(q[c]) : Append(q[c], f)[n] = q[c][n]
      /\ Append(q[c], f)[Len(q[c]) + 1] = f
  BY <1>1
<1>5. DOMAIN Append(q[c], f) = 1 .. (Len(q[c]) + 1)
  BY <1>1, <1>4
<1> QED
  BY <1>2, <1>3, <1>4, <1>5

\* What Got does to a queue of frames.
LEMMA GotFacts ==
  ASSUME NEW q \in [Conn -> Seq(Frame)], NEW c \in Conn, q[c] # <<>>
  PROVE  /\ Got(q, c) \in [Conn -> Seq(Frame)]
         /\ \A b \in Conn \ {c} : Got(q, c)[b] = q[b]
         /\ Head(q[c]) \in Frame /\ Head(q[c]) = q[c][1] /\ 1 \in DOMAIN q[c]
         /\ DOMAIN q[c] = 1 .. Len(q[c]) /\ Len(q[c]) \in Nat \ {0}
         /\ DOMAIN Got(q, c)[c] = 1 .. (Len(q[c]) - 1)
         /\ \A n \in DOMAIN Got(q, c)[c] : Got(q, c)[c][n] = q[c][n + 1]
<1>1. q[c] \in Seq(Frame) /\ Len(q[c]) # 0 /\ Len(q[c]) \in Nat
  OBVIOUS
<1>2. Tail(q[c]) \in Seq(Frame) /\ Len(Tail(q[c])) = Len(q[c]) - 1
  BY <1>1
<1>3. Got(q, c)[c] = Tail(q[c])
  BY DEF Got
<1>4. Got(q, c) \in [Conn -> Seq(Frame)] /\ \A b \in Conn \ {c} : Got(q, c)[b] = q[b]
  BY <1>2 DEF Got
<1>5. DOMAIN q[c] = 1 .. Len(q[c]) /\ DOMAIN Tail(q[c]) = 1 .. (Len(q[c]) - 1)
  BY <1>1, <1>2
<1>6. \A n \in 1 .. (Len(q[c]) - 1) : Tail(q[c])[n] = q[c][n + 1]
  BY <1>1
<1>7. Head(q[c]) = q[c][1] /\ 1 \in 1 .. Len(q[c])
  BY <1>1
<1>8. q[c][1] \in Frame
  BY <1>1, <1>7
<1> QED
  BY <1>1, <1>3, <1>4, <1>5, <1>6, <1>7, <1>8

\* The frames of the protocol are frames.
LEMMA FrameTypes ==
  /\ Hello \in Frame /\ Reg \in Frame /\ Ack \in Frame /\ Nack \in Frame /\ Err \in Frame
  /\ \A target, from \in Device, by \in Conn : Connect(target, from, by) \in Frame
BY DEF Frame, Connect

\* Only Connects have type "connect".
LEMMA FrameKinds ==
  /\ Hello.type # "connect" /\ Reg.type # "connect" /\ Ack.type # "connect"
  /\ Nack.type # "connect" /\ Err.type # "connect"
  /\ Hello # Ack /\ Err # Ack
  /\ \A f \in Frame : f.type = "connect" =>
       f \in [type: {"connect"}, target: Device, from: Device, by: Conn]
BY DEF Frame, Hello, Reg, Ack, Nack, Err

-----------------------------------------------------------------------------
(* Type correctness.                                                        *)

\* Every initial state is well typed.
LEMMA InitType == Init => TypeOK
<1> SUFFICES ASSUME Init PROVE TypeOK
  OBVIOUS
<1>1. <<>> \in Seq(Frame)
  OBVIOUS
<1>2. /\ up \in [Conn -> Seq(Frame)] /\ down \in [Conn -> Seq(Frame)]
      /\ incoming \in [Conn -> Seq(Frame)]
  BY <1>1 DEF Init
<1>3. sent \in [Conn -> 0 .. MaxSend]
  BY SignalingAssumption DEF Init
<1> QED
  BY <1>2, <1>3 DEF Init, TypeOK, Place

\* A goroutine that starts a write has a pending write.
LEMMA WriteType ==
  ASSUME TypeOK, NEW c \in Conn, NEW t \in Conn, NEW f \in Frame,
         NEW then \in {"read", "unreg"}, Write(c, t, f, then)
  PROVE  /\ pc' \in [Conn -> Place]
         /\ out' \in [Conn -> {<<>>} \cup Pending]
         /\ \A b \in Conn : pc'[b] = "send" => out'[b] \in Pending
<1>1. [to |-> t, frame |-> f, then |-> then] \in Pending
  BY DEF Pending
<1> QED
  BY <1>1 DEF Write, TypeOK, Place

\* Forward starts a write.
LEMMA ForwardType ==
  ASSUME TypeOK, NEW c \in Conn, NEW m \in Frame, m.type = "connect", Forward(c, m)
  PROVE  \E t \in Conn, f \in Frame : Write(c, t, f, "read")
<1> DEFINE key == <<UserID(c), m.target>>
<1>1. m.target \in Device
  BY FrameKinds
<1>2. ident[c] \in User \X Device
  BY DEF TypeOK, Identity
<1>3. UserID(c) \in User /\ DeviceID(c) \in Device
  BY <1>2 DEF UserID, DeviceID
<1>4. key \in Identity
  BY <1>1, <1>3 DEF Identity
<1>5. CASE m.target = DeviceID(c) \/ devices[key] = None
  BY <1>5, FrameTypes DEF Forward
<1>6. CASE ~(m.target = DeviceID(c) \/ devices[key] = None)
  <2>1. devices[key] \in Conn
    BY <1>4, <1>6 DEF TypeOK
  <2>2. Connect(m.target, DeviceID(c), c) \in Frame
    BY <1>1, <1>3, FrameTypes
  <2> QED
    BY <1>6, <2>1, <2>2 DEF Forward
<1> QED
  BY <1>5, <1>6

\* Every step of the server preserves the types.
LEMMA SrvStepType ==
  ASSUME TypeOK, NEW c \in Conn, SrvStep(c)
  PROVE  TypeOK'
<1> USE FrameTypes
<1>0. down \in [Conn -> Seq(Frame)] /\ up \in [Conn -> Seq(Frame)]
  BY DEF TypeOK
<1>1. CASE SrvHello(c)
  <2>1. Put(down, c, Hello) \in [Conn -> Seq(Frame)] /\ Got(up, c) \in [Conn -> Seq(Frame)]
    BY <1>0, <1>1, PutFacts, GotFacts DEF SrvHello
  <2> QED
    BY <1>1, <2>1 DEF SrvHello, TypeOK, Place, Goto, cliVars
<1>2. CASE HandshakeFails(c)
  <2>1. Put(down, c, Nack) \in [Conn -> Seq(Frame)]
    BY <1>0, PutFacts
  <2>2. /\ Put(down, c, Err) \in [Conn -> Seq(Frame)]
        /\ Put(Put(down, c, Nack), c, Err) \in [Conn -> Seq(Frame)]
    BY <1>0, <2>1, PutFacts
  <2>3. down' \in {down, Put(down, c, Err), Put(Put(down, c, Nack), c, Err)}
    BY <1>2 DEF HandshakeFails
  <2>4. down' \in [Conn -> Seq(Frame)]
    BY <1>0, <2>2, <2>3
  <2> QED
    BY <1>2, <2>4 DEF HandshakeFails, TypeOK, Place, Goto, cliVars
<1>3. CASE Accept(c)
  <2>1. Got(up, c) \in [Conn -> Seq(Frame)]
    BY <1>0, <1>3, GotFacts DEF Accept
  <2> QED
    BY <1>3, <2>1 DEF Accept, TypeOK, Place, Goto, cliVars
<1>4. CASE SendAck(c)
  <2>1. Put(down, c, Ack) \in [Conn -> Seq(Frame)]
    BY <1>0, PutFacts
  <2> QED
    BY <1>4, <2>1 DEF SendAck, TypeOK, Place, Goto, cliVars
<1>5. CASE Install(c)
  <2>1. ident[c] \in Identity /\ devices[ident[c]] \in Conn \cup {None}
    BY DEF TypeOK
  <2>2. devices' \in [Identity -> Conn \cup {None}] /\ replaced' \in [Conn -> BOOLEAN]
    BY <1>5, <2>1 DEF Install, TypeOK
  <2>3. CASE devices[ident[c]] = None
    BY <1>5, <2>2, <2>3 DEF Install, TypeOK, Place, Goto, cliVars, wsVars
  <2>4. CASE devices[ident[c]] # None
    <3>1. devices[ident[c]] \in Conn
      BY <2>1, <2>4
    <3>2. /\ Write(c, devices[ident[c]], Err, "read")
          /\ UNCHANGED <<ident, cliVars, wsVars>>
      BY <1>5, <2>4 DEF Install
    <3>3. /\ pc' \in [Conn -> Place]
          /\ out' \in [Conn -> {<<>>} \cup Pending]
          /\ \A b \in Conn : pc'[b] = "send" => out'[b] \in Pending
      BY <3>1, <3>2, WriteType
    <3> QED
      BY <2>2, <3>2, <3>3 DEF TypeOK, cliVars, wsVars
  <2> QED
    BY <2>3, <2>4
<1>6. CASE Dispatch(c)
  <2>1. Got(up, c) \in [Conn -> Seq(Frame)] /\ Head(up[c]) \in Frame
    BY <1>0, <1>6, GotFacts DEF Dispatch
  <2>2. \E t \in Conn, f \in Frame, then \in {"read", "unreg"} : Write(c, t, f, then)
    BY <1>6, <2>1, ForwardType DEF Dispatch
  <2>3. PICK t \in Conn, f \in Frame, then \in {"read", "unreg"} : Write(c, t, f, then)
    BY <2>2
  <2>4. /\ pc' \in [Conn -> Place]
        /\ out' \in [Conn -> {<<>>} \cup Pending]
        /\ \A b \in Conn : pc'[b] = "send" => out'[b] \in Pending
    BY <2>3, WriteType
  <2>5. /\ up' \in [Conn -> Seq(Frame)]
        /\ UNCHANGED <<ident, devices, replaced, cliVars, ends, cut, down>>
    BY <1>6, <2>1 DEF Dispatch
  <2> QED
    BY <2>4, <2>5 DEF TypeOK, cliVars
<1>7. CASE SendDone(c)
  <2>1. out[c] \in Pending
    BY <1>7 DEF SendDone, TypeOK
  <2>2. out[c].to \in Conn /\ out[c].frame \in Frame /\ out[c].then \in {"read", "unreg"}
    BY <2>1 DEF Pending
  <2>3. Put(down, out[c].to, out[c].frame) \in [Conn -> Seq(Frame)]
    BY <1>0, <2>2, PutFacts
  <2>4. CASE Goto(c, out[c].then) /\ out' = [out EXCEPT ![c] = <<>>]
    BY <1>7, <2>2, <2>3, <2>4 DEF SendDone, TypeOK, Place, Goto, cliVars
  <2>5. CASE Write(c, c, Err, "read")
    <3>1. /\ pc' \in [Conn -> Place]
          /\ out' \in [Conn -> {<<>>} \cup Pending]
          /\ \A b \in Conn : pc'[b] = "send" => out'[b] \in Pending
      BY <2>5, WriteType
    <3>2. /\ down' \in {down, Put(down, out[c].to, out[c].frame)}
          /\ UNCHANGED <<ident, devices, replaced, cliVars, ends, cut, up>>
      BY <1>7 DEF SendDone
    <3> QED
      BY <1>0, <2>3, <3>1, <3>2 DEF TypeOK, cliVars
  <2> QED
    BY <1>7, <2>4, <2>5 DEF SendDone
<1>8. CASE IdleTimeout(c)
  <2>1. /\ Write(c, c, Err, "unreg")
        /\ UNCHANGED <<ident, devices, replaced, cliVars, wsVars>>
    BY <1>8 DEF IdleTimeout
  <2>2. /\ pc' \in [Conn -> Place]
        /\ out' \in [Conn -> {<<>>} \cup Pending]
        /\ \A b \in Conn : pc'[b] = "send" => out'[b] \in Pending
    BY <2>1, WriteType
  <2> QED
    BY <2>1, <2>2 DEF TypeOK, cliVars, wsVars
<1>9. CASE ReadError(c)
  BY <1>9 DEF ReadError, TypeOK, Place, Goto, cliVars, wsVars
<1>10. CASE Unregister(c)
  BY <1>10 DEF Unregister, TypeOK, Place, Goto, cliVars, wsVars
<1>11. CASE SrvClose(c)
  BY <1>11 DEF SrvClose, TypeOK, Place, Goto, cliVars
<1> QED
  BY <1>1, <1>2, <1>3, <1>4, <1>5, <1>6, <1>7, <1>8, <1>9, <1>10, <1>11 DEF SrvStep

\* Every step of a client preserves the types.
LEMMA CliStepType ==
  ASSUME TypeOK, NEW c \in Conn, CliStep(c)
  PROVE  TypeOK'
<1> USE FrameTypes
<1>0. /\ down \in [Conn -> Seq(Frame)] /\ up \in [Conn -> Seq(Frame)]
      /\ incoming \in [Conn -> Seq(Frame)]
  BY DEF TypeOK
<1>1. CASE Dial(c)
  <2>1. Put(up, c, Hello) \in [Conn -> Seq(Frame)]
    BY <1>0, PutFacts
  <2>2. up' \in [Conn -> Seq(Frame)] /\ ends' \in [Conn -> SUBSET {"srv", "cli"}]
    <3>1. up' \in {up, Put(up, c, Hello)}
      BY <1>1 DEF Dial
    <3>2. ends' \in {ends, [ends EXCEPT ![c] = {"srv", "cli"}]}
      BY <1>1 DEF Dial
    <3>3. [ends EXCEPT ![c] = {"srv", "cli"}] \in [Conn -> SUBSET {"srv", "cli"}]
      BY DEF TypeOK
    <3> QED
      BY <1>0, <2>1, <3>1, <3>2, <3>3 DEF TypeOK
  <2>3. \/ pc' = [pc EXCEPT ![c] = "hello"] /\ cli' = [cli EXCEPT ![c] = "hello"]
        \/ pc' = [pc EXCEPT ![c] = "done"] /\ cli' = [cli EXCEPT ![c] = "failed"]
    BY <1>1 DEF Dial, Goto
  <2> QED
    BY <1>1, <2>2, <2>3 DEF Dial, TypeOK, Place
<1>2. CASE DialHello(c)
  <2>1. Put(up, c, Reg) \in [Conn -> Seq(Frame)] /\ Got(down, c) \in [Conn -> Seq(Frame)]
    BY <1>0, <1>2, PutFacts, GotFacts DEF DialHello
  <2> QED
    BY <1>2, <2>1 DEF DialHello, TypeOK, srvVars
<1>3. CASE DialAck(c)
  <2>1. Got(down, c) \in [Conn -> Seq(Frame)]
    BY <1>0, <1>3, GotFacts DEF DialAck
  <2> QED
    BY <1>3, <2>1 DEF DialAck, TypeOK, srvVars
<1>4. CASE DialFails(c)
  BY <1>4 DEF DialFails, TypeOK, srvVars
<1>5. CASE PumpRead(c)
  <2>1. Got(down, c) \in [Conn -> Seq(Frame)] /\ Head(down[c]) \in Frame
    BY <1>0, <1>5, GotFacts DEF PumpRead
  <2>2. Put(incoming, c, Head(down[c])) \in [Conn -> Seq(Frame)]
    BY <1>0, <2>1, PutFacts
  <2> QED
    BY <1>5, <2>1, <2>2 DEF PumpRead, TypeOK, srvVars
<1>6. CASE PumpFails(c)
  BY <1>6 DEF PumpFails, TypeOK, srvVars
<1>7. CASE Recv(c)
  <2>1. Got(incoming, c) \in [Conn -> Seq(Frame)]
    BY <1>0, <1>7, GotFacts DEF Recv
  <2> QED
    BY <1>7, <2>1 DEF Recv, TypeOK, srvVars, wsVars
<1>8. CASE Close(c)
  BY <1>8 DEF Close, TypeOK, srvVars
<1>9. ASSUME NEW target \in Device, NEW from \in Claims, SendConnect(c, target, from)
      PROVE  TypeOK'
  <2>1. Connect(target, from, c) \in Frame
    BY SignalingAssumption
  <2>2. Put(up, c, Connect(target, from, c)) \in [Conn -> Seq(Frame)]
    BY <1>0, <2>1, PutFacts
  <2>3. sent' \in [Conn -> 0 .. MaxSend]
    BY <1>9, SignalingAssumption DEF SendConnect, TypeOK
  <2> QED
    BY <1>9, <2>2, <2>3 DEF SendConnect, TypeOK, srvVars
<1> QED
  BY <1>1, <1>2, <1>3, <1>4, <1>5, <1>6, <1>7, <1>8, <1>9 DEF CliStep

\* Every step preserves the types.
LEMMA NextType == TypeOK /\ [Next]_vars => TypeOK'
<1> SUFFICES ASSUME TypeOK, [Next]_vars PROVE TypeOK'
  OBVIOUS
<1>1. ASSUME NEW c \in Conn, NetCut(c) PROVE TypeOK'
  BY <1>1 DEF NetCut, TypeOK, srvVars, cliVars
<1>2. CASE UNCHANGED vars
  BY <1>2 DEF vars, srvVars, cliVars, wsVars, TypeOK
<1> QED
  BY <1>1, <1>2, SrvStepType, CliStepType DEF Next, Finished

\* Every variable keeps its type in every reachable state.
THEOREM TypeCorrect == Spec => []TypeOK
BY InitType, NextType, PTL DEF Spec

-----------------------------------------------------------------------------
(* The registry.                                                            *)

\* Only Dial starts a goroutine (serveHTTP).
LEMMA NextFresh == TypeOK /\ DialFresh /\ [Next]_vars => DialFresh'
<1> SUFFICES ASSUME TypeOK, DialFresh, [Next]_vars PROVE DialFresh'
  OBVIOUS
<1>1. ASSUME NEW c \in Conn, SrvStep(c) PROVE DialFresh'
  <2>1. pc[c] # "none" /\ cli' = cli /\ \A b \in Conn \ {c} : pc'[b] = pc[b]
    BY <1>1 DEF SrvStep, SrvHello, HandshakeFails, Accept, SendAck, Install, Dispatch, Forward,
       SendDone, IdleTimeout, ReadError, Unregister, SrvClose, Goto, Write, cliVars, TypeOK
  <2> QED
    BY <2>1 DEF DialFresh
<1>2. ASSUME NEW c \in Conn, CliStep(c) PROVE DialFresh'
  <2>1. cli'[c] # "idle" \/ (cli' = cli /\ pc' = pc)
    BY <1>2 DEF CliStep, Dial, DialHello, DialAck, DialFails, SendConnect, PumpRead, PumpFails,
       Recv, Close, srvVars, TypeOK
  <2>2. \A b \in Conn \ {c} : pc'[b] = pc[b] /\ cli'[b] = cli[b]
    BY <1>2 DEF CliStep, Dial, DialHello, DialAck, DialFails, SendConnect, PumpRead, PumpFails,
       Recv, Close, Goto, srvVars, TypeOK
  <2> QED
    BY <2>1, <2>2 DEF DialFresh
<1>3. ASSUME NEW c \in Conn, NetCut(c) PROVE DialFresh'
  BY <1>3 DEF NetCut, DialFresh, srvVars, cliVars
<1>4. CASE UNCHANGED vars
  BY <1>4 DEF vars, srvVars, cliVars, DialFresh
<1> QED
  BY <1>1, <1>2, <1>3, <1>4 DEF Next, Finished

\* A step that changes neither the registry nor who is being served.
LEMMA QuietRegistry ==
  ASSUME RegistryLive, StaysReachable, UNCHANGED <<ident, devices, replaced>>, TypeOK,
         \A b \in Conn : Serving(b)' <=> Serving(b)
  PROVE  RegistryLive' /\ StaysReachable'
<1>1. RegistryLive'
  BY DEF RegistryLive, TypeOK
<1>2. StaysReachable'
  BY DEF StaysReachable
<1> QED
  BY <1>1, <1>2

\* Every step of the server preserves what is true of the registry.
LEMMA SrvStepRegistry ==
  ASSUME TypeOK, RegistryLive, StaysReachable, NEW c \in Conn, SrvStep(c)
  PROVE  RegistryLive' /\ StaysReachable'
<1>0. pc \in [Conn -> Place] /\ ident \in [Conn -> Identity]
      /\ devices \in [Identity -> Conn \cup {None}] /\ replaced \in [Conn -> BOOLEAN]
  BY DEF TypeOK
<1>1. CASE SrvHello(c)
  BY <1>0, <1>1, QuietRegistry DEF SrvHello, Goto, Serving
<1>2. CASE HandshakeFails(c)
  BY <1>0, <1>2, QuietRegistry DEF HandshakeFails, Goto, Serving
<1>3. CASE Accept(c)
  BY <1>0, <1>3, QuietRegistry DEF Accept, Goto, Serving
<1>4. CASE SendAck(c)
  BY <1>0, <1>4, QuietRegistry DEF SendAck, Goto, Serving
<1>5. CASE Install(c)
  <2>1. /\ \A b \in Conn \ {c} : Serving(b)' <=> Serving(b)
        /\ Serving(c)' /\ ~Serving(c) /\ ident' = ident
        /\ devices' = [devices EXCEPT ![ident[c]] = c]
    BY <1>0, <1>5 DEF Install, Goto, Write, Serving
  <2>2. RegistryLive'
    BY <1>0, <2>1 DEF RegistryLive
  <2>3. \A b \in Conn : replaced[b] => replaced'[b]
    BY <1>0, <1>5 DEF Install
  <2>4. ASSUME NEW b \in Conn, devices[ident[c]] = b PROVE replaced'[b]
    BY <1>0, <1>5, <2>4, SignalingAssumption DEF Install
  <2>5. StaysReachable'
    BY <1>0, <2>1, <2>3, <2>4 DEF StaysReachable
  <2> QED
    BY <2>2, <2>5
<1>6. CASE Dispatch(c)
  BY <1>0, <1>6, QuietRegistry DEF Dispatch, Forward, Write, Serving
<1>7. CASE SendDone(c)
  <2>1. out[c].then \in {"read", "unreg"}
    BY <1>7 DEF SendDone, TypeOK, Pending
  <2> QED
    BY <1>0, <1>7, <2>1, QuietRegistry DEF SendDone, Goto, Write, Serving
<1>8. CASE IdleTimeout(c)
  BY <1>0, <1>8, QuietRegistry DEF IdleTimeout, Write, Serving
<1>9. CASE ReadError(c)
  BY <1>0, <1>9, QuietRegistry DEF ReadError, Goto, Serving
<1>10. CASE Unregister(c)
  <2>1. /\ \A b \in Conn \ {c} : Serving(b)' <=> Serving(b)
        /\ ~Serving(c)' /\ ident' = ident /\ replaced' = replaced
        /\ devices' = [devices EXCEPT ![ident[c]] = IF @ = c THEN None ELSE @]
    BY <1>0, <1>10 DEF Unregister, Goto, Serving
  <2>2. \A i \in Identity : devices'[i] # c
    BY <1>0, <2>1, SignalingAssumption DEF RegistryLive
  <2>3. \A i \in Identity : devices'[i] \in {devices[i], None}
    BY <1>0, <2>1
  <2>4. RegistryLive'
    BY <1>0, <2>1, <2>2, <2>3 DEF RegistryLive
  <2>5. StaysReachable'
    BY <1>0, <2>1 DEF StaysReachable
  <2> QED
    BY <2>4, <2>5
<1>11. CASE SrvClose(c)
  BY <1>0, <1>11, QuietRegistry DEF SrvClose, Goto, Serving
<1> QED
  BY <1>1, <1>2, <1>3, <1>4, <1>5, <1>6, <1>7, <1>8, <1>9, <1>10, <1>11 DEF SrvStep

\* Every step preserves what is true of the registry.
LEMMA NextRegistry ==
  ASSUME TypeOK, DialFresh, RegistryLive, StaysReachable, [Next]_vars
  PROVE  RegistryLive' /\ StaysReachable'
<1>1. ASSUME NEW c \in Conn, CliStep(c) PROVE RegistryLive' /\ StaysReachable'
  <2>1. UNCHANGED <<ident, devices, replaced>>
    BY <1>1 DEF CliStep, Dial, DialHello, DialAck, DialFails, SendConnect, PumpRead, PumpFails,
       Recv, Close, srvVars
  <2>2. pc' = pc \/ (pc[c] = "none" /\ pc' \in {[pc EXCEPT ![c] = "hello"], [pc EXCEPT ![c] = "done"]})
    BY <1>1 DEF CliStep, Dial, DialHello, DialAck, DialFails, SendConnect, PumpRead, PumpFails,
       Recv, Close, srvVars, Goto, DialFresh
  <2>3. \A b \in Conn : Serving(b)' <=> Serving(b)
    BY <2>2 DEF Serving, TypeOK
  <2> QED
    BY <2>1, <2>3, QuietRegistry
<1>2. ASSUME NEW c \in Conn, NetCut(c) PROVE RegistryLive' /\ StaysReachable'
  BY <1>2, QuietRegistry DEF NetCut, srvVars, Serving
<1>3. CASE UNCHANGED vars
  BY <1>3, QuietRegistry DEF vars, srvVars, Serving
<1> QED
  BY <1>1, <1>2, <1>3, SrvStepRegistry DEF Next, Finished

\* The part of the invariant that is about the registry holds initially.
LEMMA InitRegistry == Init => DialFresh /\ RegistryLive /\ StaysReachable
BY DEF Init, DialFresh, RegistryLive, StaysReachable, Serving

\* The registry holds only connections that are being served, each under its own
\* identity, and a served connection is in it unless its device registered again
\* (Registry.Register, Registry.Unregister, Connection.run).
THEOREM RegistryCorrect == Spec => [](RegistryLive /\ StaysReachable)
<1> DEFINE I == TypeOK /\ DialFresh /\ RegistryLive /\ StaysReachable
<1>1. Init => I
  BY InitType, InitRegistry
<1>2. I /\ [Next]_vars => I'
  BY NextType, NextFresh, NextRegistry
<1> QED
  BY <1>1, <1>2, PTL DEF Spec

\* A served connection whose device did not register again can be reached: the
\* late exit of a connection it replaced does not take it out of the registry,
\* for any number of connections of a device (Registry.Unregister).
THEOREM ServedIsReachable == Spec => []StaysReachable
BY RegistryCorrect, PTL

-----------------------------------------------------------------------------
(* Routing.                                                                 *)

\* What Forward writes is routed truly, because the registry holds a connection
\* only under its own identity.
LEMMA ForwardRouted ==
  ASSUME TypeOK, RegistryLive, NEW c \in Conn, NEW m \in Frame, m.type = "connect",
         Forward(c, m)
  PROVE  \/ Write(c, c, Err, "read")
         \/ \E t \in Conn, f \in Frame : Write(c, t, f, "read") /\ Routed(f, t) /\ Serving(t)
<1> DEFINE key == <<UserID(c), m.target>>
           t == devices[key]
           f == Connect(m.target, DeviceID(c), c)
<1>1. m.target \in Device
  BY FrameKinds
<1>2. ident[c] \in User \X Device /\ ident[c] = <<UserID(c), DeviceID(c)>>
  BY DEF TypeOK, Identity, UserID, DeviceID
<1>3. UserID(c) \in User /\ DeviceID(c) \in Device
  BY <1>2 DEF UserID, DeviceID
<1>4. key \in Identity
  BY <1>1, <1>3 DEF Identity
<1>5. CASE m.target = DeviceID(c) \/ t = None
  BY <1>5, FrameTypes DEF Forward
<1>6. CASE ~(m.target = DeviceID(c) \/ t = None)
  <2>1. t \in Conn /\ ident[t] = key /\ Serving(t)
    BY <1>4, <1>6 DEF TypeOK, RegistryLive
  <2>2. f \in Frame
    BY <1>1, <1>3, FrameTypes
  <2>3. UserID(t) = UserID(c) /\ DeviceID(t) = m.target
    <3>1. ident[t][1] = UserID(c) /\ ident[t][2] = m.target
      BY <2>1
    <3> QED
      BY <3>1 DEF UserID, DeviceID
  <2>4. f.by = c /\ f.from = DeviceID(c) /\ f.target = m.target
    BY DEF Connect
  <2>5. Routed(f, t)
    BY <1>2, <1>6, <2>3, <2>4 DEF Routed
  <2>6. Write(c, t, f, "read")
    BY <1>6 DEF Forward
  <2> QED
    BY <2>1, <2>2, <2>5, <2>6
<1> QED
  BY <1>5, <1>6

\* Frames other than Connects are routed truly.
LEMMA ErrRouted ==
  \A c \in Conn : Routed(Err, c) /\ Routed(Hello, c) /\ Routed(Ack, c) /\ Routed(Nack, c)
BY FrameKinds DEF Routed

\* Appending a frame that is routed truly keeps a queue routed truly.
LEMMA PutRouted ==
  ASSUME NEW q \in [Conn -> Seq(Frame)], NEW t \in Conn, NEW f \in Frame, Routed(f, t),
         \A c \in Conn : \A n \in DOMAIN q[c] : Routed(q[c][n], c)
  PROVE  \A c \in Conn : \A n \in DOMAIN Put(q, t, f)[c] : Routed(Put(q, t, f)[c][n], c)
<1> DEFINE p == Put(q, t, f)
<1> SUFFICES ASSUME NEW c \in Conn, NEW n \in DOMAIN p[c] PROVE Routed(p[c][n], c)
  OBVIOUS
<1>1. CASE c # t
  <2>1. p[c] = q[c]
    BY <1>1, PutFacts
  <2> QED
    BY <2>1
<1>2. CASE c = t
  <2>1. /\ n \in 1 .. (Len(q[t]) + 1) /\ DOMAIN q[t] = 1 .. Len(q[t]) /\ Len(q[t]) \in Nat
        /\ \A k \in DOMAIN q[t] : p[t][k] = q[t][k]
        /\ p[t][Len(q[t]) + 1] = f
    BY <1>2, PutFacts
  <2>2. CASE n \in DOMAIN q[t]
    <3>1. p[t][n] = q[t][n]
      BY <2>1, <2>2
    <3> QED
      BY <1>2, <2>2, <3>1
  <2>3. CASE n \notin DOMAIN q[t]
    <3>1. n = Len(q[t]) + 1
      BY <2>1, <2>3
    <3>2. p[t][n] = f
      BY <2>1, <3>1
    <3> QED
      BY <1>2, <3>2
  <2> QED
    BY <2>2, <2>3
<1> QED
  BY <1>1, <1>2

\* Taking a frame from a queue keeps it routed truly.
LEMMA GotRouted ==
  ASSUME NEW q \in [Conn -> Seq(Frame)], NEW t \in Conn, q[t] # <<>>,
         \A c \in Conn : \A n \in DOMAIN q[c] : Routed(q[c][n], c)
  PROVE  /\ Routed(Head(q[t]), t)
         /\ \A c \in Conn : \A n \in DOMAIN Got(q, t)[c] : Routed(Got(q, t)[c][n], c)
<1> DEFINE g == Got(q, t)
<1>1. Routed(Head(q[t]), t)
  <2>1. Head(q[t]) = q[t][1] /\ 1 \in DOMAIN q[t]
    BY GotFacts
  <2> QED
    BY <2>1
<1>2. ASSUME NEW c \in Conn, NEW n \in DOMAIN g[c] PROVE Routed(g[c][n], c)
  <2>1. CASE c # t
    <3>1. g[c] = q[c]
      BY <2>1, GotFacts
    <3> QED
      BY <3>1
  <2>2. CASE c = t
    <3>1. /\ n \in 1 .. (Len(q[t]) - 1) /\ DOMAIN q[t] = 1 .. Len(q[t]) /\ Len(q[t]) \in Nat
          /\ g[t][n] = q[t][n + 1]
      BY <2>2, GotFacts
    <3>2. n + 1 \in DOMAIN q[t]
      BY <3>1
    <3> QED
      BY <2>2, <3>1, <3>2
  <2> QED
    BY <2>1, <2>2
<1> QED
  BY <1>1, <1>2

\* Identities do not change, so a frame is routed as truly after a step as before.
LEMMA RoutedAfter ==
  ASSUME UNCHANGED ident,
         \A c \in Conn : pc'[c] = "send" => Routed(out'[c].frame, out'[c].to),
         \A c \in Conn : \A n \in DOMAIN down'[c] : Routed(down'[c][n], c),
         \A c \in Conn : \A n \in DOMAIN incoming'[c] : Routed(incoming'[c][n], c)
  PROVE  RoutedTruly'
BY DEF RoutedTruly, Routed, UserID, DeviceID

\* A write of a frame that is routed truly.
LEMMA WriteRouted ==
  ASSUME TypeOK, RoutedTruly, NEW c \in Conn, NEW t \in Conn, NEW f \in Frame,
         NEW then \in {"read", "unreg"}, Write(c, t, f, then), Routed(f, t)
  PROVE  \A b \in Conn : pc'[b] = "send" => Routed(out'[b].frame, out'[b].to)
<1> SUFFICES ASSUME NEW b \in Conn, pc'[b] = "send" PROVE Routed(out'[b].frame, out'[b].to)
  OBVIOUS
<1>1. CASE b = c
  <2>1. out'[c] = [to |-> t, frame |-> f, then |-> then]
    BY DEF Write, TypeOK
  <2>2. out'[c].frame = f /\ out'[c].to = t
    BY <2>1
  <2> QED
    BY <1>1, <2>2
<1>2. CASE b # c
  <2>1. out'[b] = out[b] /\ pc'[b] = pc[b]
    BY <1>2 DEF Write, TypeOK
  <2> QED
    BY <2>1 DEF RoutedTruly
<1> QED
  BY <1>1, <1>2

\* A goroutine that goes on without a write.
LEMMA GotoRouted ==
  ASSUME TypeOK, RoutedTruly, NEW c \in Conn, NEW place \in Place \ {"send"}, Goto(c, place),
         \A b \in Conn \ {c} : out'[b] = out[b]
  PROVE  \A b \in Conn : pc'[b] = "send" => Routed(out'[b].frame, out'[b].to)
BY DEF Goto, RoutedTruly, TypeOK

\* Every step of the server keeps Connects routed truly.
LEMMA SrvStepRouted ==
  ASSUME TypeOK, RegistryLive, RoutedTruly, NEW c \in Conn, SrvStep(c)
  PROVE  RoutedTruly'
<1> USE FrameTypes
<1>0. /\ down \in [Conn -> Seq(Frame)] /\ incoming \in [Conn -> Seq(Frame)]
      /\ \A b \in Conn : \A n \in DOMAIN down[b] : Routed(down[b][n], b)
      /\ \A b \in Conn : \A n \in DOMAIN incoming[b] : Routed(incoming[b][n], b)
  BY DEF TypeOK, RoutedTruly
<1>1. ASSUME NEW f \in {Hello, Ack, Err, Nack}
      PROVE  \A b \in Conn : \A n \in DOMAIN Put(down, c, f)[b] : Routed(Put(down, c, f)[b][n], b)
  BY <1>0, ErrRouted, PutRouted
<1>2. ident' = ident /\ incoming' = incoming
  BY DEF SrvStep, SrvHello, HandshakeFails, Accept, SendAck, Install, Dispatch, SendDone,
     IdleTimeout, ReadError, Unregister, SrvClose, cliVars
<1>3. CASE SrvHello(c)
  <2>1. \A b \in Conn : pc'[b] = "send" => Routed(out'[b].frame, out'[b].to)
    BY <1>3, GotoRouted DEF SrvHello, Place
  <2> QED
    BY <1>0, <1>1, <1>2, <1>3, <2>1, RoutedAfter DEF SrvHello
<1>4. CASE HandshakeFails(c)
  <2>1. \A b \in Conn : pc'[b] = "send" => Routed(out'[b].frame, out'[b].to)
    BY <1>4, GotoRouted DEF HandshakeFails, Place
  <2>2. down' \in {down, Put(down, c, Err), Put(Put(down, c, Nack), c, Err)}
    BY <1>4 DEF HandshakeFails
  <2>3. Put(down, c, Nack) \in [Conn -> Seq(Frame)]
    BY <1>0, PutFacts
  <2>4. \A b \in Conn : \A n \in DOMAIN Put(Put(down, c, Nack), c, Err)[b] :
          Routed(Put(Put(down, c, Nack), c, Err)[b][n], b)
    BY <1>1, <2>3, ErrRouted, PutRouted
  <2>5. \A b \in Conn : \A n \in DOMAIN down'[b] : Routed(down'[b][n], b)
    BY <1>0, <1>1, <2>2, <2>4
  <2> QED
    BY <1>0, <1>2, <2>1, <2>5, RoutedAfter
<1>5. CASE Accept(c)
  <2>1. \A b \in Conn : pc'[b] = "send" => Routed(out'[b].frame, out'[b].to)
    BY <1>5, GotoRouted DEF Accept, Place
  <2> QED
    BY <1>0, <1>2, <1>5, <2>1, RoutedAfter DEF Accept
<1>6. CASE SendAck(c)
  <2>1. \A b \in Conn : pc'[b] = "send" => Routed(out'[b].frame, out'[b].to)
    BY <1>6, GotoRouted DEF SendAck, Place
  <2>2. down' = Put(down, c, Ack)
    BY <1>6 DEF SendAck
  <2>3. \A b \in Conn : \A n \in DOMAIN down'[b] : Routed(down'[b][n], b)
    BY <1>0, <1>1, <2>2
  <2> QED
    BY <1>0, <1>2, <2>1, <2>3, RoutedAfter
<1>7. CASE Install(c)
  <2>1. devices[ident[c]] \in Conn \cup {None}
    BY DEF TypeOK
  <2>2. \A b \in Conn : pc'[b] = "send" => Routed(out'[b].frame, out'[b].to)
    BY <1>7, <2>1, GotoRouted, WriteRouted, ErrRouted DEF Install, Place
  <2> QED
    BY <1>0, <1>2, <1>7, <2>2, RoutedAfter DEF Install, wsVars
<1>8. CASE Dispatch(c)
  <2>1. Head(up[c]) \in Frame
    BY <1>8, GotFacts DEF Dispatch, TypeOK
  <2>2. \A b \in Conn : pc'[b] = "send" => Routed(out'[b].frame, out'[b].to)
    <3>1. CASE Write(c, c, Err, "unreg") \/ Write(c, c, Err, "read")
      BY <3>1, WriteRouted, ErrRouted
    <3>2. CASE \E t \in Conn, f \in Frame : Write(c, t, f, "read") /\ Routed(f, t)
      BY <3>2, WriteRouted
    <3> QED
      BY <1>8, <2>1, <3>1, <3>2, ForwardRouted DEF Dispatch
  <2> QED
    BY <1>0, <1>2, <1>8, <2>2, RoutedAfter DEF Dispatch
<1>9. CASE SendDone(c)
  <2>1. out[c] \in Pending /\ Routed(out[c].frame, out[c].to)
    BY <1>9 DEF SendDone, TypeOK, RoutedTruly
  <2>2. out[c].to \in Conn /\ out[c].frame \in Frame /\ out[c].then \in {"read", "unreg"}
    BY <2>1 DEF Pending
  <2>3. down' \in {down, Put(down, out[c].to, out[c].frame)}
    BY <1>9 DEF SendDone
  <2>4. \A b \in Conn : \A n \in DOMAIN down'[b] : Routed(down'[b][n], b)
    BY <1>0, <2>1, <2>2, <2>3, PutRouted
  <2>5. \A b \in Conn : pc'[b] = "send" => Routed(out'[b].frame, out'[b].to)
    <3>1. CASE Write(c, c, Err, "read")
      BY <3>1, WriteRouted, ErrRouted
    <3>2. CASE Goto(c, out[c].then) /\ out' = [out EXCEPT ![c] = <<>>]
      BY <2>2, <3>2, GotoRouted DEF Place, TypeOK
    <3> QED
      BY <1>9, <3>1, <3>2 DEF SendDone
  <2> QED
    BY <1>0, <1>2, <2>4, <2>5, RoutedAfter
<1>10. CASE IdleTimeout(c)
  <2>1. \A b \in Conn : pc'[b] = "send" => Routed(out'[b].frame, out'[b].to)
    BY <1>10, WriteRouted, ErrRouted DEF IdleTimeout
  <2> QED
    BY <1>0, <1>2, <1>10, <2>1, RoutedAfter DEF IdleTimeout, wsVars
<1>11. CASE ReadError(c) \/ Unregister(c) \/ SrvClose(c)
  <2>1. \A b \in Conn : pc'[b] = "send" => Routed(out'[b].frame, out'[b].to)
    BY <1>11, GotoRouted DEF ReadError, Unregister, SrvClose, Place
  <2> QED
    BY <1>0, <1>2, <1>11, <2>1, RoutedAfter DEF ReadError, Unregister, SrvClose, wsVars
<1> QED
  BY <1>3, <1>4, <1>5, <1>6, <1>7, <1>8, <1>9, <1>10, <1>11 DEF SrvStep

\* Every step keeps Connects routed truly.
LEMMA NextRouted ==
  ASSUME TypeOK, DialFresh, RegistryLive, RoutedTruly, [Next]_vars
  PROVE  RoutedTruly'
<1>0. /\ down \in [Conn -> Seq(Frame)] /\ incoming \in [Conn -> Seq(Frame)]
      /\ \A b \in Conn : \A n \in DOMAIN down[b] : Routed(down[b][n], b)
      /\ \A b \in Conn : \A n \in DOMAIN incoming[b] : Routed(incoming[b][n], b)
  BY DEF TypeOK, RoutedTruly
<1>1. ASSUME NEW c \in Conn, CliStep(c) PROVE RoutedTruly'
  <2>1. /\ ident' = ident /\ out' = out
        /\ \/ pc' = pc
           \/ pc' \in {[pc EXCEPT ![c] = "hello"], [pc EXCEPT ![c] = "done"]}
    BY <1>1 DEF CliStep, Dial, DialHello, DialAck, DialFails, SendConnect, PumpRead, PumpFails,
       Recv, Close, srvVars, Goto
  <2>2. \A b \in Conn : pc'[b] = "send" => Routed(out'[b].frame, out'[b].to)
    BY <2>1 DEF RoutedTruly, TypeOK
  <2>3. CASE down' = down /\ incoming' = incoming
    BY <1>0, <2>1, <2>2, <2>3, RoutedAfter
  <2>4. CASE DialHello(c) \/ DialAck(c)
    <3>1. down[c] # <<>> /\ down' = Got(down, c) /\ incoming' = incoming
      BY <2>4 DEF DialHello, DialAck
    <3>2. \A b \in Conn : \A n \in DOMAIN down'[b] : Routed(down'[b][n], b)
      BY <1>0, <3>1, GotRouted
    <3> QED
      BY <1>0, <2>1, <2>2, <3>1, <3>2, RoutedAfter
  <2>5. CASE PumpRead(c)
    <3>1. down[c] # <<>> /\ down' = Got(down, c)
          /\ incoming' \in {incoming, Put(incoming, c, Head(down[c]))}
      BY <2>5 DEF PumpRead
    <3>2. /\ Routed(Head(down[c]), c) /\ Head(down[c]) \in Frame
          /\ \A b \in Conn : \A n \in DOMAIN down'[b] : Routed(down'[b][n], b)
      BY <1>0, <3>1, GotRouted, GotFacts
    <3>3. \A b \in Conn : \A n \in DOMAIN incoming'[b] : Routed(incoming'[b][n], b)
      BY <1>0, <3>1, <3>2, PutRouted
    <3> QED
      BY <2>1, <2>2, <3>2, <3>3, RoutedAfter
  <2>6. CASE Recv(c)
    <3>1. incoming[c] # <<>> /\ incoming' = Got(incoming, c) /\ down' = down
      BY <2>6 DEF Recv, wsVars
    <3>2. \A b \in Conn : \A n \in DOMAIN incoming'[b] : Routed(incoming'[b][n], b)
      BY <1>0, <3>1, GotRouted
    <3> QED
      BY <1>0, <2>1, <2>2, <3>1, <3>2, RoutedAfter
  <2> QED
    BY <1>1, <2>3, <2>4, <2>5, <2>6
       DEF CliStep, Dial, DialFails, SendConnect, PumpFails, Close
<1>2. ASSUME NEW c \in Conn, NetCut(c) PROVE RoutedTruly'
  <2>1. UNCHANGED <<ident, pc, out, down, incoming>>
    BY <1>2 DEF NetCut, srvVars, cliVars
  <2> QED
    BY <1>0, <2>1, RoutedAfter DEF RoutedTruly
<1>3. CASE UNCHANGED vars
  <2>1. UNCHANGED <<ident, pc, out, down, incoming>>
    BY <1>3 DEF vars, srvVars, cliVars, wsVars
  <2> QED
    BY <1>0, <2>1, RoutedAfter DEF RoutedTruly
<1> QED
  BY <1>1, <1>2, <1>3, SrvStepRouted DEF Next, Finished

\* Nothing is on its way initially.
LEMMA InitRouted == Init => RoutedTruly
BY DEF Init, RoutedTruly

\* A Connect reaches only the device it names, of the user who sent it, and names
\* its sender truly (Registry.Forward).
THEOREM AlwaysRouted == Spec => []RoutedTruly
<1> DEFINE I == TypeOK /\ DialFresh /\ RegistryLive /\ StaysReachable /\ RoutedTruly
<1>1. Init => I
  BY InitType, InitRegistry, InitRouted
<1>2. I /\ [Next]_vars => I'
  BY NextType, NextFresh, NextRegistry, NextRouted
<1> QED
  BY <1>1, <1>2, PTL DEF Spec

-----------------------------------------------------------------------------
(* RegisterAck comes first.                                                 *)

\* An ack is in the queue q of t; every Connect in it follows an ack.
HasAck(q, t) == \E n \in DOMAIN q[t] : q[t][n] = Ack
AckFirst(q, t) ==
  \A n \in DOMAIN q[t] : q[t][n].type = "connect" =>
    \E k \in DOMAIN q[t] : k < n /\ q[t][k] = Ack

\* Appending a frame keeps an ack, and keeps it first if the frame is no Connect
\* or the ack is there.
LEMMA PutAck ==
  ASSUME NEW q \in [Conn -> Seq(Frame)], NEW c \in Conn, NEW f \in Frame, NEW t \in Conn
  PROVE  /\ HasAck(q, t) => HasAck(Put(q, c, f), t)
         /\ f = Ack => HasAck(Put(q, c, f), c)
         /\ AckFirst(q, t) /\ (t = c /\ f.type = "connect" => HasAck(q, t))
              => AckFirst(Put(q, c, f), t)
<1> DEFINE p == Put(q, c, f)
<1>1. /\ \A b \in Conn \ {c} : p[b] = q[b]
      /\ DOMAIN p[c] = 1 .. (Len(q[c]) + 1) /\ DOMAIN q[c] = 1 .. Len(q[c])
      /\ Len(q[c]) \in Nat
      /\ \A n \in DOMAIN q[c] : p[c][n] = q[c][n]
      /\ p[c][Len(q[c]) + 1] = f
  <2>1. \A b \in Conn \ {c} : p[b] = q[b]
    BY PutFacts
  <2>2. DOMAIN p[c] = 1 .. (Len(q[c]) + 1) /\ DOMAIN q[c] = 1 .. Len(q[c]) /\ Len(q[c]) \in Nat
    BY PutFacts
  <2>3. \A n \in DOMAIN q[c] : p[c][n] = q[c][n]
    BY PutFacts
  <2>4. p[c][Len(q[c]) + 1] = f
    BY PutFacts
  <2> QED
    BY <2>1, <2>2, <2>3, <2>4
<1>2. CASE t # c
  <2>1. p[t] = q[t]
    BY <1>1, <1>2
  <2>2. f = Ack => HasAck(p, c)
    BY <1>1 DEF HasAck
  <2> QED
    BY <1>2, <2>1, <2>2 DEF HasAck, AckFirst
<1>3. CASE t = c
  <2> HIDE DEF p
  <2>1. HasAck(q, c) => HasAck(p, c)
    BY <1>1 DEF HasAck
  <2>2. f = Ack => HasAck(p, c)
    BY <1>1 DEF HasAck
  <2>3. ASSUME AckFirst(q, c), f.type = "connect" => HasAck(q, c)
        PROVE  AckFirst(p, c)
    <3> SUFFICES ASSUME NEW n \in DOMAIN p[c], p[c][n].type = "connect"
                 PROVE  \E k \in DOMAIN p[c] : k < n /\ p[c][k] = Ack
      BY DEF AckFirst
    <3>1. CASE n \in DOMAIN q[c]
      BY <1>1, <2>3, <3>1, SMTT(30) DEF AckFirst
    <3>2. CASE n \notin DOMAIN q[c]
      <4>1. n = Len(q[c]) + 1
        BY <1>1, <3>2
      <4>2. HasAck(q, c)
        BY <1>1, <2>3, <4>1
      <4> QED
        BY <1>1, <4>1, <4>2 DEF HasAck
    <3> QED
      BY <3>1, <3>2
  <2> QED
    BY <1>3, <2>1, <2>2, <2>3 DEF p
<1> QED
  BY <1>2, <1>3

\* Taking the ServerHello keeps an ack, and keeps it first.
LEMMA GotAck ==
  ASSUME NEW q \in [Conn -> Seq(Frame)], NEW c \in Conn, q[c] # <<>>, Head(q[c]) = Hello
  PROVE  /\ HasAck(q, c) => HasAck(Got(q, c), c)
         /\ AckFirst(q, c) => AckFirst(Got(q, c), c)
<1> DEFINE g == Got(q, c)
<1>1. /\ q[c][1] = Hello /\ DOMAIN q[c] = 1 .. Len(q[c]) /\ Len(q[c]) \in Nat \ {0}
      /\ DOMAIN g[c] = 1 .. (Len(q[c]) - 1)
      /\ \A n \in DOMAIN g[c] : g[c][n] = q[c][n + 1]
  BY GotFacts
<1> HIDE DEF g
<1>2. \A n \in DOMAIN q[c] : q[c][n] = Ack => n - 1 \in DOMAIN g[c] /\ g[c][n - 1] = Ack
  BY <1>1, FrameKinds
<1>3. HasAck(q, c) => HasAck(g, c)
  BY <1>2 DEF HasAck
<1>4. ASSUME AckFirst(q, c) PROVE AckFirst(g, c)
  <2> SUFFICES ASSUME NEW n \in DOMAIN g[c], g[c][n].type = "connect"
               PROVE  \E k \in DOMAIN g[c] : k < n /\ g[c][k] = Ack
    BY DEF AckFirst
  <2>1. n + 1 \in DOMAIN q[c] /\ q[c][n + 1].type = "connect" /\ n \in Nat
    BY <1>1
  <2>2. PICK k \in DOMAIN q[c] : k < n + 1 /\ q[c][k] = Ack
    BY <1>4, <2>1 DEF AckFirst
  <2>3. k - 1 < n
    BY <1>1, <2>1, <2>2
  <2> QED
    BY <1>2, <2>2, <2>3
<1> QED
  BY <1>3, <1>4 DEF g

\* Who may be written to stays so when the server appends a frame.
LEMMA SrvStepWritable ==
  ASSUME TypeOK, NEW c \in Conn, SrvStep(c), NEW t \in Conn, Writable(t)
  PROVE  Writable(t)'
<1> USE FrameTypes
<1>0. down \in [Conn -> Seq(Frame)]
  BY DEF TypeOK
<1>1. cli' = cli
  BY DEF SrvStep, SrvHello, HandshakeFails, Accept, SendAck, Install, Dispatch, SendDone,
     IdleTimeout, ReadError, Unregister, SrvClose, cliVars
<1>2. CASE down' = down
  BY <1>1, <1>2 DEF Writable, WaitsForAck, Acked
<1>3. CASE \E b \in Conn, f \in Frame : down' = Put(down, b, f)
  <2>1. HasAck(down, t) => HasAck(down', t)
    BY <1>0, <1>3, PutAck
  <2> QED
    BY <1>1, <2>1 DEF Writable, WaitsForAck, Acked, HasAck
<1>4. CASE down' = Put(Put(down, c, Nack), c, Err)
  <2>1. Put(down, c, Nack) \in [Conn -> Seq(Frame)]
    BY <1>0, PutFacts
  <2>2. HasAck(down, t) => HasAck(down', t)
    BY <1>0, <1>4, <2>1, PutAck
  <2> QED
    BY <1>1, <2>2 DEF Writable, WaitsForAck, Acked, HasAck
<1>5. SendDone(c) => out[c].to \in Conn /\ out[c].frame \in Frame
  BY DEF SendDone, TypeOK, Pending
<1> QED
  BY <1>2, <1>3, <1>4, <1>5 DEF SrvStep, SrvHello, HandshakeFails, Accept, SendAck, Install,
     Dispatch, SendDone, IdleTimeout, ReadError, Unregister, SrvClose, wsVars

\* Who may be written to stays so when a client takes a frame.
LEMMA CliStepWritable ==
  ASSUME TypeOK, NEW c \in Conn, CliStep(c), NEW t \in Conn, Writable(t)
  PROVE  Writable(t)'
<1>0. down \in [Conn -> Seq(Frame)] /\ cli \in [Conn -> {"idle", "hello", "register", "up", "dead", "failed"}]
  BY DEF TypeOK
<1>1. CASE t # c
  <2>1. cli'[t] = cli[t] /\ down'[t] = down[t]
    BY <1>0, <1>1 DEF CliStep, Dial, DialHello, DialAck, DialFails, SendConnect, PumpRead,
       PumpFails, Recv, Close, wsVars, Got
  <2> QED
    BY <2>1 DEF Writable, WaitsForAck, Acked
<1>2. CASE t = c /\ DialHello(c)
  <2>1. cli[c] = "hello" /\ cli'[c] = "register" /\ down[c] # <<>> /\ Head(down[c]) = Hello
        /\ down' = Got(down, c)
    BY <1>0, <1>2 DEF DialHello
  <2>2. HasAck(down, c)
    BY <1>2, <2>1 DEF Writable, WaitsForAck, Acked, HasAck
  <2>3. HasAck(Got(down, c), c)
    BY <1>0, <2>1, <2>2, GotAck
  <2> QED
    BY <1>2, <2>1, <2>3 DEF Writable, WaitsForAck, Acked, HasAck
<1>3. CASE t = c /\ ~DialHello(c)
  <2>1. cli[c] # "idle"
    BY <1>3 DEF Writable
  <2>2. \/ cli'[c] \in {"up", "dead", "failed"}
        \/ cli' = cli /\ down' = down
    BY <1>0, <1>3, <2>1 DEF CliStep, Dial, DialAck, DialFails, SendConnect, PumpRead,
       PumpFails, Recv, Close, wsVars
  <2> QED
    BY <1>3, <2>2 DEF Writable, WaitsForAck, Acked
<1> QED
  BY <1>1, <1>2, <1>3

\* Writable with its variables as parameters, so that it can be applied to the
\* next state of a write's target.
MayWrite(client, queue, t) ==
  client[t] # "idle" /\ (client[t] \in {"hello", "register"} => HasAck(queue, t))

OnWay(client, queue, place, pending) ==
  \A c \in Conn : /\ place[c] = "send" => MayWrite(client, queue, pending[c].to)
                  /\ place[c] \in {"install", "read", "send", "unreg"} => MayWrite(client, queue, c)

LEMMA OnWayIs ==
  /\ AckOnWay <=> OnWay(cli, down, pc, out)
  /\ AckOnWay' <=> OnWay(cli', down', pc', out')
  /\ \A t \in Conn : Writable(t) <=> MayWrite(cli, down, t)
  /\ \A t \in Conn : Writable(t)' <=> MayWrite(cli', down', t)
BY DEF AckOnWay, OnWay, MayWrite, Writable, WaitsForAck, Acked, HasAck, Serving

\* A write to a connection that may be written to.
LEMMA WriteOnWay ==
  ASSUME TypeOK, AckOnWay, NEW c \in Conn, NEW t \in Conn, NEW f \in Frame,
         NEW then \in {"read", "unreg"}, Write(c, t, f, then),
         MayWrite(cli, down, t), MayWrite(cli, down, c),
         \A b \in Conn : MayWrite(cli, down, b) => MayWrite(cli', down', b)
  PROVE  AckOnWay'
<1>1. out'[c] = [to |-> t, frame |-> f, then |-> then]
  BY DEF Write, TypeOK
<1>2. out'[c].to = t
  BY <1>1
<1>3. \A b \in Conn \ {c} : out'[b] = out[b] /\ pc'[b] = pc[b]
  BY DEF Write, TypeOK
<1>4. \A b \in Conn : pc[b] = "send" => out[b].to \in Conn
  BY DEF TypeOK, Pending
<1>5. OnWay(cli, down, pc, out)
  BY OnWayIs
<1>6. OnWay(cli', down', pc', out')
  BY <1>2, <1>3, <1>4, <1>5 DEF OnWay
<1> QED
  BY <1>6, OnWayIs

\* A goroutine that goes on without a write.
LEMMA GotoOnWay ==
  ASSUME TypeOK, AckOnWay, NEW c \in Conn, NEW place \in Place \ {"send"}, Goto(c, place),
         \A b \in Conn \ {c} : out'[b] = out[b],
         place \in {"install", "read", "unreg"} => MayWrite(cli', down', c),
         \A b \in Conn : MayWrite(cli, down, b) => MayWrite(cli', down', b)
  PROVE  AckOnWay'
<1>1. pc'[c] = place /\ \A b \in Conn \ {c} : out'[b] = out[b] /\ pc'[b] = pc[b]
  BY DEF Goto, TypeOK
<1>2. \A b \in Conn : pc[b] = "send" => out[b].to \in Conn
  BY DEF TypeOK, Pending
<1>3. OnWay(cli, down, pc, out)
  BY OnWayIs
<1>4. OnWay(cli', down', pc', out')
  BY <1>1, <1>2, <1>3 DEF OnWay, Place
<1> QED
  BY <1>4, OnWayIs

\* Every step of the server writes only where an ack has been written before.
LEMMA SrvStepOnWay ==
  ASSUME TypeOK, DialFresh, RegistryLive, AckOnWay, NEW c \in Conn, SrvStep(c)
  PROVE  AckOnWay'
<1> USE FrameTypes
<1>0. \A b \in Conn : MayWrite(cli, down, b) => MayWrite(cli', down', b)
  BY SrvStepWritable, OnWayIs
<1>1. \A b \in Conn : Serving(b) \/ pc[b] = "install" => MayWrite(cli, down, b)
  BY OnWayIs DEF OnWay, Serving
<1>2. CASE SrvHello(c)
  BY <1>0, <1>2, GotoOnWay DEF SrvHello, Place
<1>3. CASE HandshakeFails(c)
  BY <1>0, <1>3, GotoOnWay DEF HandshakeFails, Place
<1>4. CASE Accept(c)
  BY <1>0, <1>4, GotoOnWay DEF Accept, Place
<1>5. CASE SendAck(c)
  <2>1. HasAck(down', c)
    BY <1>5, PutAck DEF SendAck, TypeOK
  <2>2. cli[c] # "idle" /\ cli' = cli
    BY <1>5 DEF SendAck, DialFresh, cliVars
  <2>3. MayWrite(cli', down', c)
    BY <2>1, <2>2 DEF MayWrite
  <2> QED
    BY <1>0, <1>5, <2>3, GotoOnWay DEF SendAck, Place
<1>6. CASE Install(c)
  <2>1. MayWrite(cli, down, c)
    BY <1>1, <1>6 DEF Install
  <2>2. CASE devices[ident[c]] = None
    BY <1>0, <1>6, <2>1, <2>2, GotoOnWay DEF Install, Place
  <2>3. CASE devices[ident[c]] # None
    <3>1. devices[ident[c]] \in Conn /\ Serving(devices[ident[c]])
      BY <2>3 DEF TypeOK, RegistryLive
    <3> QED
      BY <1>0, <1>1, <1>6, <2>1, <2>3, <3>1, WriteOnWay DEF Install
  <2> QED
    BY <2>2, <2>3
<1>7. CASE Dispatch(c)
  <2>1. Head(up[c]) \in Frame
    BY <1>7, GotFacts DEF Dispatch, TypeOK
  <2>2. MayWrite(cli, down, c)
    BY <1>1, <1>7 DEF Dispatch, Serving
  <2>3. CASE Write(c, c, Err, "unreg") \/ Write(c, c, Err, "read")
    BY <1>0, <2>2, <2>3, WriteOnWay
  <2>4. CASE \E t \in Conn, f \in Frame : Write(c, t, f, "read") /\ Serving(t)
    BY <1>0, <1>1, <2>2, <2>4, WriteOnWay
  <2> QED
    BY <1>7, <2>1, <2>3, <2>4, ForwardRouted DEF Dispatch
<1>8. CASE SendDone(c)
  <2>1. MayWrite(cli, down, c) /\ out[c].then \in {"read", "unreg"}
    BY <1>1, <1>8 DEF SendDone, Serving, TypeOK, Pending
  <2>2. CASE Write(c, c, Err, "read")
    BY <1>0, <2>1, <2>2, WriteOnWay
  <2>3. CASE Goto(c, out[c].then) /\ out' = [out EXCEPT ![c] = <<>>]
    BY <1>0, <2>1, <2>3, GotoOnWay DEF Place, TypeOK
  <2> QED
    BY <1>8, <2>2, <2>3 DEF SendDone
<1>9. CASE IdleTimeout(c)
  <2>1. MayWrite(cli, down, c)
    BY <1>1, <1>9 DEF IdleTimeout, Serving
  <2> QED
    BY <1>0, <1>9, <2>1, WriteOnWay DEF IdleTimeout
<1>10. CASE ReadError(c)
  <2>1. MayWrite(cli, down, c)
    BY <1>1, <1>10 DEF ReadError, Serving
  <2> QED
    BY <1>0, <1>10, <2>1, GotoOnWay DEF ReadError, Place
<1>11. CASE Unregister(c) \/ SrvClose(c)
  BY <1>0, <1>11, GotoOnWay DEF Unregister, SrvClose, Place
<1> QED
  BY <1>2, <1>3, <1>4, <1>5, <1>6, <1>7, <1>8, <1>9, <1>10, <1>11 DEF SrvStep

\* A Connect is appended only behind an ack, and Dial takes nothing but Hello
\* before its ack.
LEMMA NextAckFirst ==
  ASSUME TypeOK, DialFresh, AckOnWay, AckBeforeConnect, [Next]_vars, NEW t \in Conn, WaitsForAck(t)'
  PROVE  AckFirst(down', t)
<1> USE FrameTypes
<1>0. /\ down \in [Conn -> Seq(Frame)]
      /\ cli \in [Conn -> {"idle", "hello", "register", "up", "dead", "failed"}]
  BY DEF TypeOK
<1>1. WaitsForAck(t) => AckFirst(down, t)
  BY DEF AckBeforeConnect, AckFirst
<1>2. CASE cli' = cli /\ down' = down
  BY <1>1, <1>2 DEF WaitsForAck
<1>3. ASSUME NEW c \in Conn, SrvStep(c) PROVE AckFirst(down', t)
  <2>1. cli' = cli
    BY <1>3 DEF SrvStep, SrvHello, HandshakeFails, Accept, SendAck, Install, Dispatch, SendDone,
       IdleTimeout, ReadError, Unregister, SrvClose, cliVars
  <2>2. AckFirst(down, t)
    BY <1>1, <2>1 DEF WaitsForAck
  <2>3. ASSUME NEW f \in {Hello, Ack, Err, Nack} PROVE AckFirst(Put(down, c, f), t)
    BY <1>0, <2>2, PutAck, FrameKinds
  <2>4. AckFirst(Put(Put(down, c, Nack), c, Err), t)
    <3>1. Put(down, c, Nack) \in [Conn -> Seq(Frame)]
      BY <1>0, PutFacts
    <3> QED
      BY <2>3, <3>1, PutAck, FrameKinds
  <2>5. CASE SendDone(c)
    <3>1. out[c].to \in Conn /\ out[c].frame \in Frame
      BY <2>5 DEF SendDone, TypeOK, Pending
    <3>2. MayWrite(cli, down, out[c].to)
      BY <2>5, OnWayIs DEF SendDone, OnWay
    <3>3. t = out[c].to => HasAck(down, t)
      BY <2>1, <3>2 DEF MayWrite, WaitsForAck
    <3>4. ASSUME NEW b \in Conn, NEW f \in Frame, t = b => HasAck(down, t)
          PROVE  AckFirst(Put(down, b, f), t)
      <4>1. t = b /\ f.type = "connect" => HasAck(down, t)
        BY <3>4
      <4> QED
        BY <1>0, <2>2, <4>1, PutAck
    <3>5. AckFirst(Put(down, out[c].to, out[c].frame), t)
      BY <3>1, <3>3, <3>4
    <3> QED
      BY <2>2, <2>5, <3>5 DEF SendDone
  <2>6. CASE ~SendDone(c)
    <3>1. \/ down' \in {down, Put(Put(down, c, Nack), c, Err)}
          \/ \E f \in {Hello, Ack, Err, Nack} : down' = Put(down, c, f)
      BY <1>3, <2>6 DEF SrvStep, SrvHello, HandshakeFails, Accept, SendAck, Install, Dispatch,
         IdleTimeout, ReadError, Unregister, SrvClose, wsVars
    <3> QED
      BY <2>2, <2>3, <2>4, <3>1
  <2> QED
    BY <2>5, <2>6
<1>4. ASSUME NEW c \in Conn, CliStep(c) PROVE AckFirst(down', t)
  <2>1. CASE t # c
    <3>1. cli'[t] = cli[t] /\ down'[t] = down[t]
      BY <1>0, <1>4, <2>1 DEF CliStep, Dial, DialHello, DialAck, DialFails, SendConnect, PumpRead,
         PumpFails, Recv, Close, wsVars, Got
    <3> QED
      BY <1>1, <3>1 DEF WaitsForAck, AckFirst
  <2>2. CASE t = c /\ DialHello(c)
    <3>1. WaitsForAck(c) /\ down[c] # <<>> /\ Head(down[c]) = Hello /\ down' = Got(down, c)
      BY <2>2 DEF DialHello, WaitsForAck
    <3> QED
      BY <1>0, <1>1, <2>2, <3>1, GotAck
  <2>3. CASE t = c /\ Dial(c)
    <3>1. down' = down /\ WaitsForAck(c)
      BY <2>3 DEF Dial, WaitsForAck
    <3> QED
      BY <1>1, <2>3, <3>1
  <2>4. CASE t = c /\ ~DialHello(c) /\ ~Dial(c)
    <3>1. cli'[c] \in {"up", "dead", "failed"} \/ (cli' = cli /\ down' = down)
      BY <1>0, <1>4, <2>4 DEF CliStep, DialAck, DialFails, SendConnect, PumpRead, PumpFails,
         Recv, Close, wsVars
    <3> QED
      BY <1>2, <2>4, <3>1 DEF WaitsForAck
  <2> QED
    BY <2>1, <2>2, <2>3, <2>4
<1>5. ASSUME NEW c \in Conn, NetCut(c) PROVE AckFirst(down', t)
  BY <1>2, <1>5 DEF NetCut, cliVars
<1>6. CASE UNCHANGED vars
  BY <1>2, <1>6 DEF vars, cliVars, wsVars
<1> QED
  BY <1>3, <1>4, <1>5, <1>6 DEF Next, Finished

\* Every step keeps acks on the way to whom may be written to.
LEMMA NextOnWay ==
  ASSUME TypeOK, DialFresh, RegistryLive, AckOnWay, [Next]_vars
  PROVE  AckOnWay'
<1>1. ASSUME NEW c \in Conn, CliStep(c) PROVE AckOnWay'
  <2>1. \A b \in Conn : MayWrite(cli, down, b) => MayWrite(cli', down', b)
    BY <1>1, CliStepWritable, OnWayIs
  <2>2. /\ out' = out
        /\ \/ pc' = pc
           \/ pc' \in {[pc EXCEPT ![c] = "hello"], [pc EXCEPT ![c] = "done"]}
    BY <1>1 DEF CliStep, Dial, DialHello, DialAck, DialFails, SendConnect, PumpRead, PumpFails,
       Recv, Close, srvVars, Goto
  <2>3. \A b \in Conn : pc'[b] \in {pc[b], "hello", "done"}
    BY <2>2 DEF TypeOK
  <2>4. \A b \in Conn : pc[b] = "send" => out[b].to \in Conn
    BY DEF TypeOK, Pending
  <2>5. OnWay(cli', down', pc', out')
    BY <2>1, <2>2, <2>3, <2>4, OnWayIs DEF OnWay
  <2> QED
    BY <2>5, OnWayIs
<1>2. CASE UNCHANGED <<cli, down, pc, out>>
  BY <1>2 DEF AckOnWay, Writable, WaitsForAck, Acked, Serving
<1>3. ASSUME NEW c \in Conn, NetCut(c) PROVE AckOnWay'
  BY <1>2, <1>3 DEF NetCut, srvVars, cliVars
<1>4. CASE UNCHANGED vars
  BY <1>2, <1>4 DEF vars, srvVars, cliVars, wsVars
<1> QED
  BY <1>1, <1>3, <1>4, SrvStepOnWay DEF Next, Finished

\* The inductive invariant holds in every reachable state.
THEOREM SigCorrect == Spec => []SigInv
<1>1. Init => SigInv
  <2>1. Init => AckOnWay /\ AckBeforeConnect
    BY DEF Init, AckOnWay, AckBeforeConnect, Serving
  <2> QED
    BY <2>1, InitType, InitRegistry, InitRouted DEF SigInv
<1>2. SigInv /\ [Next]_vars => SigInv'
  <2> SUFFICES ASSUME SigInv, [Next]_vars PROVE SigInv'
    OBVIOUS
  <2>1. TypeOK' /\ DialFresh' /\ RegistryLive' /\ StaysReachable' /\ RoutedTruly' /\ AckOnWay'
    BY NextType, NextFresh, NextRegistry, NextRouted, NextOnWay DEF SigInv
  <2>2. \A t \in Conn : WaitsForAck(t)' => AckFirst(down', t)
    BY NextAckFirst DEF SigInv
  <2>3. AckBeforeConnect'
    BY <2>2 DEF AckBeforeConnect, AckFirst
  <2> QED
    BY <2>1, <2>3 DEF SigInv
<1> QED
  BY <1>1, <1>2, PTL DEF Spec

\* No Connect overtakes the RegisterAck that Dial waits for (handshake, run).
THEOREM AckComesFirst == Spec => []AckBeforeConnect
<1>1. SigInv => AckBeforeConnect
  BY DEF SigInv
<1> QED
  BY <1>1, SigCorrect, PTL
=============================================================================
