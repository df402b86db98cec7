---------------------------- MODULE ClientProofs ----------------------------
(***************************************************************************)
(* Proofs about Client, for any number of threads, streams, writes and     *)
(* shells: frames are never torn, OnExit is called once, and a tab that is *)
(* served is answered from its own shell.                                  *)
(***************************************************************************)
EXTENDS Client, SequenceTheorems, TLAPS

Names == {"kind", "id", "want", "up", "fin", "down", "hfin", "hpc", "shell", "wmu",
          "closed", "pump", "exits", "res", "ran"}

\* The control points of wire.Write, and the frame parts that it writes.
FramePc == {"length", "payload"}
Part    == [part : FramePc, by : Thread]

\* What the variables are made of.
Shape ==
  /\ app \in App /\ lastID \in 0 .. app.streams
  /\ Len(str) \in Nat /\ str = [s \in 1 .. Len(str) |-> str[s]]
  /\ \A s \in Opened : DOMAIN str[s] = Names
  /\ DOMAIN pc = Caller /\ DOMAIN at = Caller
  /\ DOMAIN reg = 0 .. app.streams

\* Only a connection that is up has streams, and it does not come back.
Phases == Opened # {} => phase \in {"up", "lost", "closed"}

\* PTYSession.pump: it calls OnExit and returns.
ExitsOf(s) ==
  str[s].kind = "pty" =>
    /\ str[s].pump \in {"reading", "done"}
    /\ str[s].exits = IF str[s].pump = "done" THEN 1 ELSE 0
Exits == \A s \in Opened : ExitsOf(s)

\* Session.nextPTYID: no two tabs have the same id, and so none unregisters
\* the shell of another.
TabOf(s) ==
  str[s].kind = "pty" =>
    /\ str[s].id \in 0 .. lastID
    /\ str[s].hpc = "reading" /\ str[s].id # 0 => reg[str[s].id] = str[s].shell
    /\ \A r \in Opened :
         r # s /\ str[r].kind = "pty" /\ str[s].id # 0 => str[r].id # str[s].id
Tabs == \A s \in Opened : TabOf(s)

\* A thread that writes a frame has the lock of the stream it writes to.
WriterOf(t) ==
  /\ pc[t] \in FramePc \cup {"lock"} => t \in Thread /\ at[t] \in PtyStrs
  /\ pc[t] \in FramePc => str[at[t]].wmu = t
Writers == \A t \in Caller : WriterOf(t)

\* The parts of frames alternate, each payload after the length by the same
\* thread.
Alternates(u) ==
  \A i \in 1 .. Len(u) :
    /\ u[i].part = IF i % 2 = 1 THEN "length" ELSE "payload"
    /\ i % 2 = 0 => u[i].by = u[i - 1].by

\* Something written to the stream may still be read by the host.
Flows(s) == Up /\ ~str[s].fin /\ str[s].hpc # "done"

\* What is under way to the host ends with a whole frame, unless the holder of
\* the lock has written the length of one, or no more can be written.
FrameOf(s) ==
  str[s].kind = "pty" =>
    /\ str[s].up \in Seq(Part) /\ Alternates(str[s].up)
    /\ str[s].wmu # None =>
         str[s].wmu \in Thread /\ at[str[s].wmu] = s /\ pc[str[s].wmu] \in FramePc
    /\ Flows(s) =>
         IF str[s].wmu # None /\ pc[str[s].wmu] = "payload"
         THEN /\ Len(str[s].up) % 2 = 1
              /\ str[s].up[Len(str[s].up)].by = str[s].wmu
         ELSE Len(str[s].up) % 2 = 0
Frames == \A s \in Opened : FrameOf(s)

\* The inductive invariant.
IInv == Shape /\ Phases /\ Exits /\ Tabs /\ Writers /\ Frames

-----------------------------------------------------------------------------
(* Sequences.                                                              *)

\* A function on 1 .. n is a sequence of that length.
LEMMA SeqLen ==
  ASSUME NEW n \in Nat, NEW q, q = [i \in 1 .. n |-> q[i]]
  PROVE  Len(q) = n /\ DOMAIN q = 1 .. n
<1>1. q \in [1 .. n -> {q[i] : i \in 1 .. n}]
  OBVIOUS
<1>2. q \in Seq({q[i] : i \in 1 .. n})
  BY <1>1, SeqDef
<1> QED
  BY <1>1, <1>2, LenProperties

\* A sequence with one element more.
LEMMA SeqAppend ==
  ASSUME NEW n \in Nat, NEW q, Len(q) = n, q = [i \in 1 .. n |-> q[i]], NEW e
  PROVE  /\ Len(Append(q, e)) = n + 1
         /\ Append(q, e) = [i \in 1 .. n + 1 |-> Append(q, e)[i]]
         /\ \A i \in 1 .. n : Append(q, e)[i] = q[i]
         /\ Append(q, e)[n + 1] = e
<1> DEFINE S == {q[i] : i \in 1 .. n} \cup {e}
<1>1. q \in [1 .. n -> S]
  OBVIOUS
<1>2. q \in Seq(S)
  BY <1>1, SeqDef
<1> HIDE DEF S
<1>3. e \in S
  BY DEF S
<1> QED
  BY <1>2, <1>3, AppendProperties

\* The next number has the other parity.
LEMMA Parity ==
  ASSUME NEW n \in Nat
  PROVE  /\ n % 2 \in {0, 1} /\ (n + 1) % 2 = 1 - (n % 2) /\ (n + 2) % 2 = n % 2
OBVIOUS

\* A frame part that fits is appended.
LEMMA AppendAlternates ==
  ASSUME NEW u \in Seq(Part), Alternates(u), NEW e \in Part,
         e.part = IF Len(u) % 2 = 0 THEN "length" ELSE "payload",
         Len(u) % 2 = 1 => e.by = u[Len(u)].by
  PROVE  /\ Append(u, e) \in Seq(Part) /\ Alternates(Append(u, e))
         /\ Len(Append(u, e)) = Len(u) + 1
         /\ Append(u, e)[Len(u) + 1] = e
<1> DEFINE w == Append(u, e)
           n == Len(u)
<1>1. /\ w \in Seq(Part) /\ Len(w) = n + 1 /\ w[n + 1] = e /\ n \in Nat
      /\ \A i \in 1 .. n : w[i] = u[i]
  BY AppendProperties, LenProperties
<1>2. n % 2 \in {0, 1} /\ (n + 1) % 2 = 1 - (n % 2)
  BY <1>1, Parity
<1> HIDE DEF w, n
<1>3. ASSUME NEW i \in 1 .. n + 1
      PROVE  /\ w[i].part = IF i % 2 = 1 THEN "length" ELSE "payload"
             /\ i % 2 = 0 => w[i].by = w[i - 1].by
  <2>1. CASE i \in 1 .. n
    <3>1. /\ u[i].part = IF i % 2 = 1 THEN "length" ELSE "payload"
          /\ i % 2 = 0 => u[i].by = u[i - 1].by
      BY <2>1 DEF Alternates, n
    <3>2. i % 2 = 0 => i - 1 \in 1 .. n
      BY <1>1, <2>1
    <3> QED
      BY <1>1, <2>1, <3>1, <3>2
  <2>2. CASE i = n + 1
    <3>1. e.part = IF n % 2 = 0 THEN "length" ELSE "payload"
      BY DEF n
    <3>2. n % 2 = 1 => e.by = u[n].by /\ n \in 1 .. n
      BY <1>1 DEF n
    <3>3. w[i] = e /\ i % 2 = 1 - (n % 2) /\ i - 1 = n
      BY <1>1, <1>2, <2>2
    <3>4. CASE n % 2 = 0
      BY <3>1, <3>3, <3>4
    <3>5. CASE n % 2 = 1
      BY <1>1, <3>1, <3>2, <3>3, <3>5
    <3> QED
      BY <1>2, <3>4, <3>5
  <2> QED
    BY <1>1, <2>1, <2>2
<1> QED
  BY <1>1, <1>3 DEF Alternates, w, n

\* A whole frame is taken off.
LEMMA TailAlternates ==
  ASSUME NEW u \in Seq(Part), Alternates(u), Len(u) >= 2
  PROVE  /\ Tail(Tail(u)) \in Seq(Part) /\ Alternates(Tail(Tail(u)))
         /\ Len(Tail(Tail(u))) % 2 = Len(u) % 2
         /\ Len(u) % 2 = 1 => Tail(Tail(u))[Len(Tail(Tail(u)))] = u[Len(u)]
<1> DEFINE w == Tail(Tail(u))
           n == Len(w)
<1>1. u # <<>> /\ Len(u) \in Nat
  BY LenProperties
<1>2. /\ Tail(u) \in Seq(Part) /\ Len(Tail(u)) = Len(u) - 1
      /\ \A i \in 1 .. Len(u) - 1 : Tail(u)[i] = u[i + 1]
  BY <1>1, HeadTailProperties
<1>3. Tail(u) # <<>>
  <2>1. Len(Tail(u)) # 0
    BY <1>1, <1>2
  <2>2. Len(<<>>) = 0
    OBVIOUS
  <2> QED
    BY <2>1, <2>2, Zenon
<1>4. /\ w \in Seq(Part) /\ n = Len(u) - 2
      /\ \A i \in 1 .. n : w[i] = u[i + 2]
  <2>1. w \in Seq(Part) /\ n = Len(Tail(u)) - 1 /\ \A i \in 1 .. n : w[i] = Tail(u)[i + 1]
    BY <1>2, <1>3, HeadTailProperties
  <2> QED
    BY <1>1, <1>2, <2>1
<1> HIDE DEF w, n
<1>5. n \in Nat /\ Len(u) = n + 2
  BY <1>1, <1>4
<1>6. Len(u) % 2 = n % 2
  BY <1>5, Parity
<1>7. ASSUME NEW i \in 1 .. n
      PROVE  /\ w[i].part = IF i % 2 = 1 THEN "length" ELSE "payload"
             /\ i % 2 = 0 => w[i].by = w[i - 1].by
  <2>1. i + 2 \in 1 .. Len(u) /\ (i + 2) % 2 = i % 2 /\ i \in Nat /\ (i + 2) - 1 = (i - 1) + 2
    BY <1>5, Parity
  <2>2. /\ u[i + 2].part = IF i % 2 = 1 THEN "length" ELSE "payload"
        /\ i % 2 = 0 => u[i + 2].by = u[(i - 1) + 2].by
    BY <2>1 DEF Alternates
  <2>3. i % 2 = 0 => i - 1 \in 1 .. n
    BY <1>5
  <2> QED
    BY <1>4, <2>2, <2>3
<1>8. Len(u) % 2 = 1 => w[n] = u[Len(u)]
  BY <1>4, <1>5, <1>6
<1> QED
  BY <1>4, <1>6, <1>7, <1>8 DEF Alternates, w, n

-----------------------------------------------------------------------------
(* The steps, by what they do to the streams.                              *)

\* The fields that the invariants speak of.
Watched == {"kind", "id", "up", "hpc", "shell", "wmu", "pump", "exits"}

\* Of these, no more than F is changed in the stream s.
Keeps(s, F) ==
  /\ DOMAIN str'[s] = Names
  /\ \A f \in Watched \ F : str'[s][f] = str[s][f]
  /\ str[s].fin => str'[s].fin

\* No stream is opened, and no more than the fields F of s are changed.
Changes(s, F) ==
  /\ s \in Opened /\ str' = [x \in 1 .. Len(str) |-> str'[x]]
  /\ Keeps(s, F) /\ \A x \in Opened \ {s} : Keeps(x, {})

\* No thread begins, goes on with or ends the writing of a frame; one may begin
\* to wait for the lock.
Still ==
  /\ DOMAIN pc' = Caller /\ DOMAIN at' = Caller
  /\ \A t \in Caller :
       /\ pc[t] \in FramePc \/ pc'[t] \in FramePc => pc'[t] = pc[t] /\ at'[t] = at[t]
       /\ pc'[t] = "lock" => \/ pc[t] = "lock" /\ at'[t] = at[t]
                             \/ t \in Thread /\ at'[t] \in PtyStrs

\* What is left of the connection.
Moves == app' = app /\ (phase' # phase => Opened = {} \/ phase' \in {"lost", "closed"})

\* Nothing happens that the invariants speak of.
Rests ==
  /\ str' = [x \in 1 .. Len(str) |-> str'[x]] /\ \A x \in Opened : Keeps(x, {})
  /\ Still /\ Moves /\ reg' = reg /\ lastID' \in lastID .. app.streams

\* A stream is opened; that of a tab has a new id, that of peersh-cli none.
Opens(q) ==
  /\ Up /\ phase' = phase /\ app' = app /\ reg' = reg
  /\ str' = Append(str, Stream(q)) /\ lastID' \in lastID .. app.streams
  /\ q.kind = "pty" => q.id = 0 \/ (q.id = lastID' /\ lastID' = lastID + 1)
  /\ Still

\* The pump of a PTY returns.
PumpEnds(s) ==
  /\ Reading(s) /\ Changes(s, {"pump", "exits"})
  /\ str'[s].pump = "done" /\ str'[s].exits = str[s].exits + 1
  /\ Still /\ Moves /\ UNCHANGED <<reg, lastID>>

Served == UNCHANGED <<connVars, lastID, pc, at>>

\* The handler of the host returns; that of a tab ends its registration.
HandlerEnds(s) ==
  /\ Changes(s, {"hpc", "up"}) /\ Served
  /\ str'[s].hpc = "done" /\ str'[s].up \in {<<>>, str[s].up}
  /\ \/ reg' = reg
     \/ s \in PtyStrs /\ str[s].id # 0 /\ reg' = [reg EXCEPT ![str[s].id] = None]

Attaches(s) ==
  /\ Changes(s, {"hpc", "shell"}) /\ Served /\ reg' = reg
  /\ str[s].hpc = "new" /\ str'[s].hpc = "attached"

Acks(s) ==
  /\ Changes(s, {"hpc"}) /\ Served /\ s \in PtyStrs
  /\ str[s].hpc = "attached" /\ str'[s].hpc = "reading"
  /\ reg' = IF str[s].id = 0 THEN reg ELSE [reg EXCEPT ![str[s].id] = str[s].shell]

TakesFrame(s) ==
  /\ Changes(s, {"up"}) /\ Served /\ reg' = reg
  /\ Len(str[s].up) >= 2 /\ str'[s].up = Tail(Tail(str[s].up))

\* A thread writes a frame: it takes the lock, writes a part or gives up.
Locks(t) ==
  /\ pc[t] = "lock" /\ str[at[t]].wmu = None
  /\ Changes(at[t], {"wmu"}) /\ str'[at[t]].wmu = t
  /\ Go(t, "length", at[t]) /\ UNCHANGED <<connVars, lastID, reg>>

Puts(t) ==
  /\ pc[t] \in FramePc /\ Up /\ ~str[at[t]].fin
  /\ Changes(at[t], {"up", "wmu"})
  /\ str'[at[t]].up = IF str[at[t]].hpc = "done" THEN str[at[t]].up
                      ELSE Append(str[at[t]].up, [part |-> pc[t], by |-> t])
  /\ IF pc[t] = "payload" THEN str'[at[t]].wmu = None /\ Return(t)
     ELSE str'[at[t]].wmu = str[at[t]].wmu /\ Go(t, "payload", at[t])
  /\ UNCHANGED <<connVars, lastID, reg>>

GivesUp(t) ==
  /\ pc[t] \in FramePc /\ (~Up \/ str[at[t]].fin)
  /\ Changes(at[t], {"wmu"}) /\ str'[at[t]].wmu = None
  /\ Return(t) /\ UNCHANGED <<connVars, lastID, reg>>

\* One of these is what a step does.
Does ==
  \/ Rests \/ \E q : Opens(q)
  \/ \E s : PumpEnds(s) \/ HandlerEnds(s) \/ Attaches(s) \/ Acks(s) \/ TakesFrame(s)
  \/ \E t \in Thread : Locks(t) \/ Puts(t) \/ GivesUp(t)

-----------------------------------------------------------------------------
(* Every action is of one of these kinds.                                  *)

\* The streams and the threads, as the proofs use them.
LEMMA Shapes ==
  ASSUME Shape
  PROVE  /\ Opened = 1 .. Len(str) /\ Len(str) \in Nat
         /\ str = [s \in 1 .. Len(str) |-> str[s]]
         /\ \A s \in Opened : DOMAIN str[s] = Names
         /\ DOMAIN pc = Caller /\ DOMAIN at = Caller
         /\ Main \in Caller /\ Main \notin Thread /\ Thread \subseteq Caller
         /\ None \notin Thread
         /\ app.streams \in Nat /\ lastID \in Nat /\ lastID <= app.streams
         /\ lastID \in lastID .. app.streams
         /\ DOMAIN reg = 0 .. app.streams
<1>1. app.streams \in Nat
  BY ClientAssumption DEF Shape
<1>2. /\ DOMAIN str = 1 .. Len(str) /\ Len(str) \in Nat
      /\ str = [s \in 1 .. Len(str) |-> str[s]]
  BY DEF Shape
<1>3. lastID \in Nat /\ lastID <= app.streams /\ lastID \in lastID .. app.streams
  BY <1>1 DEF Shape
<1>4. Main \in Caller /\ Main \notin Thread /\ Thread \subseteq Caller /\ None \notin Thread
  BY ClientAssumption DEF Caller
<1>5. \A s \in Opened : DOMAIN str[s] = Names
  BY DEF Shape
<1>6. DOMAIN pc = Caller /\ DOMAIN at = Caller /\ DOMAIN reg = 0 .. app.streams
  BY DEF Shape
<1> QED
  BY <1>1, <1>2, <1>3, <1>4, <1>5, <1>6 DEF Opened

\* A thread that goes from one control point to another outside wire.Write.
LEMMA StillGo ==
  ASSUME Shape, NEW t, NEW l, NEW s, pc[t] \notin FramePc, l \notin FramePc \cup {"lock"},
         Go(t, l, s)
  PROVE  Still
BY Shapes DEF Go, Still

\* No thread goes on.
LEMMA StillSame ==
  ASSUME Shape, UNCHANGED <<pc, at>>
  PROVE  Still
BY Shapes DEF Still

\* Some fields of one stream are replaced that nothing depends on.
LEMMA KeepsSame ==
  ASSUME Shape, str' = str
  PROVE  /\ str' = [x \in 1 .. Len(str) |-> str'[x]]
         /\ \A x \in Opened : Keeps(x, {})
BY Shapes DEF Keeps

\* One stream is replaced by r.
LEMMA KeepsOne ==
  ASSUME Shape, NEW s, NEW r, str' = [str EXCEPT ![s] = r]
  PROVE  /\ str' = [x \in 1 .. Len(str) |-> str'[x]]
         /\ \A x \in Opened \ {s} : Keeps(x, {})
         /\ s \in Opened => str'[s] = r
BY Shapes DEF Keeps

\* Connecting: there are no streams before the connection is up.
LEMMA ConnectDoes ==
  ASSUME Shape, Phases, Connect \/ NetLost \/ Interrupt \/ SessionClose
  PROVE  Does
<1>1. /\ app' = app /\ UNCHANGED <<str, pc, at, reg, lastID>>
      /\ phase' = phase \/ phase' \in {"lost", "closed"} \/ phase \notin {"up", "lost", "closed"}
  BY DEF Connect, Start, Discover, Key, FirstToken, ListHosts, PickHost, Negotiate, Punch,
     Dial, DialDirect, Handshake, DoHello, NetLost, Interrupt, SessionClose, Advance, Phase,
     KeepRest, sessVars, hostVars
<1>2. Moves
  BY <1>1 DEF Moves, Phases
<1>3. Rests
  BY <1>1, <1>2, KeepsSame, StillSame, Shapes DEF Rests
<1> QED
  BY <1>3 DEF Does

\* A thread that writes no frame goes on, and the streams are left alone.
LEMMA GoDoes ==
  ASSUME Shape, NEW t, NEW l, NEW s, pc[t] \notin FramePc, l \notin FramePc \cup {"lock"},
         Go(t, l, s), str' = str, Moves, reg' = reg, lastID' \in lastID .. app.streams
  PROVE  Does
<1>1. Rests
  BY KeepsSame, StillGo DEF Rests
<1> QED
  BY <1>1 DEF Does

\* A stream is opened.
LEMMA OpenDoes ==
  ASSUME Shape, NEW t, NEW q, NEW l, pc[t] \notin FramePc, l \notin FramePc \cup {"lock"},
         Open(t, q, l), app' = app, phase' = phase, reg' = reg,
         lastID' \in lastID .. app.streams,
         q.kind = "pty" => q.id = 0 \/ (q.id = lastID' /\ lastID' = lastID + 1)
  PROVE  Does
<1>1. Still
  BY StillGo DEF Open
<1>2. Opens(q)
  BY <1>1 DEF Opens, Open
<1> QED
  BY <1>2 DEF Does

\* A request of another kind than a PTY.
LEMMA AskDoes ==
  ASSUME Shape, NEW t, NEW q, NEW l, pc[t] \notin FramePc, l \notin FramePc \cup {"lock"},
         q.kind # "pty", Ask(t, q, l)
  PROVE  Does
<1>1. /\ app' = app /\ phase' = phase /\ reg' = reg /\ lastID' \in lastID .. app.streams
  BY Shapes DEF Ask, KeepConn, connVars, sessVars, hostVars
<1>2. CASE Open(t, q, l)
  BY <1>1, <1>2, OpenDoes
<1>3. CASE OpenFails(t)
  BY <1>1, <1>3, GoDoes DEF OpenFails, Return, Moves, FramePc
<1> QED
  BY <1>2, <1>3 DEF Ask

\* What a program asks of the host.
LEMMA CallDoes ==
  ASSUME Shape, NEW t \in Thread, Call(t)
  PROVE  Does
<1> USE Shapes
<1>1. ASSUME Exec(t) PROVE Does
  <2>1. Go(t, "execopen", 0) /\ pc[t] = "idle" /\ str' = str /\ Moves /\ reg' = reg
        /\ lastID' = lastID
    BY <1>1 DEF Exec, Ready, KeepConn, connVars, hostVars, Moves
  <2> QED
    BY <2>1, GoDoes DEF FramePc
<1>2. ASSUME ListPTYs(t) \/ KillPTY(t) \/ TabCall(t) PROVE Does
  <2>1. pc[t] = "idle"
    BY <1>2 DEF ListPTYs, KillPTY, TabCall, Ready
  <2>2. ASSUME NEW k \in {"list", "kill", "tab"}, NEW i, NEW w, Ask(t, Req(k, i, w), "file")
        PROVE  Does
    <3>1. Req(k, i, w).kind # "pty"
      BY DEF Req
    <3> QED
      BY <2>1, <2>2, <3>1, AskDoes DEF FramePc
  <2> QED
    BY <1>2, <2>2 DEF ListPTYs, KillPTY, TabCall
<1>3. ASSUME OpenPTY(t) PROVE Does
  <2>1. /\ pc[t] = "idle" /\ lastID' = lastID + 1 /\ lastID' \in lastID .. app.streams
        /\ app' = app /\ phase' = phase /\ reg' = reg
    BY <1>3 DEF OpenPTY, Ready, NextID, KeepConn, connVars, hostVars
  <2>2. ASSUME NEW want, Open(t, Req("pty", lastID', want), "idle") PROVE Does
    <3>1. Req("pty", lastID', want).id = lastID'
      BY DEF Req
    <3> QED
      BY <2>1, <2>2, <3>1, OpenDoes DEF FramePc
  <2>3. CASE OpenFails(t)
    BY <2>1, <2>3, GoDoes DEF OpenFails, Return, Moves, FramePc
  <2> QED
    BY <1>3, <2>2, <2>3 DEF OpenPTY
<1>4. ASSUME NEW s \in PtyStrs, Go(t, "lock", s), pc[t] = "idle",
             UNCHANGED <<connVars, sessVars, str, hostVars>>
      PROVE  Does
  <2>1. Still
    <3>1. PtyStrs' = PtyStrs
      BY <1>4 DEF PtyStrs, Opened
    <3> QED
      BY <1>4, <3>1 DEF Go, Still, FramePc
  <2>2. Rests
    BY <1>4, <2>1, KeepsSame DEF Rests, Moves, connVars, sessVars, hostVars
  <2> QED
    BY <2>2 DEF Does
<1>5. ASSUME Write(t) PROVE Does
  BY <1>4, <1>5 DEF Write, Ready, KeepConn
<1>6. ASSUME PtyClose(t) PROVE Does
  <2>1. PICK s \in PtyStrs : /\ str' = [str EXCEPT ![s].closed = TRUE, ![s].fin = TRUE]
                             /\ Go(t, "join", s)
    BY <1>6 DEF PtyClose
  <2>2. Still
    BY <1>6, <2>1, StillGo DEF PtyClose, FramePc
  <2>3. str' = [x \in 1 .. Len(str) |-> str'[x]] /\ \A x \in Opened : Keeps(x, {})
    BY <2>1 DEF Keeps, Watched, Names
  <2>4. Rests
    BY <1>6, <2>2, <2>3 DEF PtyClose, KeepConn, connVars, sessVars, hostVars, Rests, Moves
  <2> QED
    BY <2>4 DEF Does
<1> QED
  BY <1>1, <1>2, <1>3, <1>5, <1>6 DEF Call

\* What peersh-cli does.
LEMMA CliDoes ==
  ASSUME Shape, CliStep
  PROVE  Does
<1> USE Shapes
<1>1. ASSUME CliEnds(TRUE) \/ CliEnds(FALSE) PROVE Moves
  BY <1>1 DEF CliEnds, Moves
<1>2. ASSUME RunOnce \/ CliKill PROVE Does
  <2>1. pc[Main] \in {"idle", "prompt"}
    BY <1>2 DEF RunOnce, CliKill, Ready
  <2>2. ASSUME NEW k \in {"exec", "kill"}, NEW w, NEW l \in {"exec", "file"},
               Ask(Main, Req(k, 0, w), l)
        PROVE  Does
    <3>1. Req(k, 0, w).kind # "pty"
      BY DEF Req
    <3> QED
      BY <2>1, <2>2, <3>1, AskDoes DEF FramePc
  <2> QED
    BY <1>2, <2>2 DEF RunOnce, CliKill
<1>3. ASSUME CliList PROVE Does
  <2>1. pc[Main] = "idle" /\ reg' = reg /\ lastID' \in lastID .. app.streams
    BY <1>3 DEF CliList, Ready, hostVars, sessVars
  <2>2. CASE Open(Main, Req("list", 0, None), "file") /\ CliEnds(FALSE)
    <3>1. Req("list", 0, None).kind # "pty" /\ app' = app /\ phase' = phase
      BY <2>2 DEF Req, CliEnds
    <3> QED
      BY <2>1, <2>2, <3>1, OpenDoes DEF FramePc
  <2>3. CASE OpenFails(Main) /\ CliEnds(TRUE)
    BY <1>1, <2>1, <2>3, GoDoes DEF OpenFails, Return, FramePc
  <2> QED
    BY <1>3, <2>2, <2>3 DEF CliList
<1>4. ASSUME Refresh \/ Quit PROVE Does
  <2>1. /\ pc[Main] \in {"idle", "prompt"} /\ Return(Main) /\ str' = str /\ reg' = reg
        /\ lastID' = lastID
    BY <1>4 DEF Refresh, Quit, Ready, hostVars, sessVars
  <2>2. Moves
    BY <1>1, <1>4 DEF Refresh, Quit, KeepConn, connVars, Moves
  <2> QED
    BY <2>1, <2>2, GoDoes DEF Return, FramePc
<1>5. ASSUME RunPTY PROVE Does
  <2>1. pc[Main] \in {"idle", "prompt"} /\ reg' = reg /\ lastID' \in lastID .. app.streams
    BY <1>5 DEF RunPTY, Ready, hostVars, sessVars
  <2>2. ASSUME NEW want, Open(Main, Req("pty", 0, want), "wait"), CliEnds(FALSE) PROVE Does
    <3>1. Req("pty", 0, want).id = 0 /\ app' = app /\ phase' = phase
      BY <2>2 DEF Req, CliEnds
    <3> QED
      BY <2>1, <2>2, <3>1, OpenDoes DEF FramePc
  <2>3. CASE OpenFails(Main) /\ CliEnds(TRUE)
    BY <1>1, <2>1, <2>3, GoDoes DEF OpenFails, Return, FramePc
  <2> QED
    BY <1>5, <2>2, <2>3 DEF RunPTY
<1>6. ASSUME NEW t \in Thread, Send(t) PROVE Does
  <2>1. PICK s \in PtyStrs : Go(t, "lock", s)
    BY <1>6 DEF Send
  <2>2. pc[t] = "idle" /\ UNCHANGED <<connVars, sessVars, str, hostVars>>
    BY <1>6 DEF Send, Ready, KeepConn
  <2>3. PtyStrs' = PtyStrs
    BY <2>2 DEF PtyStrs, Opened
  <2>4. Still
    BY <2>1, <2>2, <2>3 DEF Go, Still, FramePc
  <2>5. Rests
    BY <2>2, <2>4, KeepsSame DEF Rests, Moves, connVars, sessVars, hostVars
  <2> QED
    BY <2>5 DEF Does
<1> QED
  BY <1>2, <1>3, <1>4, <1>5, <1>6 DEF CliStep

\* The steps of a call that has begun.
LEMMA StepDoes ==
  ASSUME Shape, Writers, NEW t \in Caller, Step(t)
  PROVE  Does
<1> USE Shapes
<1>1. ASSUME pc[t] \in FramePc \cup {"lock"} PROVE t \in Thread /\ at[t] \in Opened
  BY <1>1 DEF Writers, WriterOf, PtyStrs
<1>2. ASSUME ExecOpen(t) PROVE Does
  <2>1. /\ pc[t] = "execopen" /\ app' = app /\ phase' = phase /\ reg' = reg
        /\ lastID' \in lastID .. app.streams
    BY <1>2 DEF ExecOpen, KeepConn, connVars, hostVars
  <2>2. CASE Open(t, Req("exec", 0, None), "exec")
    <3>1. Req("exec", 0, None).kind # "pty"
      BY DEF Req
    <3> QED
      BY <2>1, <2>2, <3>1, OpenDoes DEF FramePc
  <2>3. CASE OpenFails(t)
    BY <2>1, <2>3, GoDoes DEF OpenFails, Return, Moves, FramePc
  <2> QED
    BY <1>2, <2>2, <2>3 DEF ExecOpen
<1>3. ASSUME ExecRead(t) PROVE Does
  <2>1. pc[t] = "exec" /\ UNCHANGED <<connVars, lastID, reg>>
    BY <1>3 DEF ExecRead, KeepConn, hostVars
  <2>2. UNCHANGED <<pc, at>> \/ Return(t)
    BY <1>3 DEF ExecRead
  <2>3. Still
    BY <2>1, <2>2, StillGo, StillSame DEF Return, FramePc
  <2>4. str' = [x \in 1 .. Len(str) |-> str'[x]] /\ \A x \in Opened : Keeps(x, {})
    <3>1. \/ str' = [str EXCEPT ![at[t]].down = Tail(str[at[t]].down)]
          \/ \E r : str' = [str EXCEPT ![at[t]].res = r, ![at[t]].fin = TRUE, ![at[t]].down = <<>>]
      BY <1>3 DEF ExecRead
    <3>2. CASE str' = [str EXCEPT ![at[t]].down = Tail(str[at[t]].down)]
      BY <3>2 DEF Keeps, Watched, Names
    <3>3. ASSUME NEW r,
                 str' = [str EXCEPT ![at[t]].res = r, ![at[t]].fin = TRUE, ![at[t]].down = <<>>]
          PROVE  /\ str' = [x \in 1 .. Len(str) |-> str'[x]]
                 /\ \A x \in Opened : Keeps(x, {})
      BY <3>3 DEF Keeps, Watched, Names
    <3> QED
      BY <3>1, <3>2, <3>3
  <2>5. Rests
    BY <2>1, <2>3, <2>4 DEF connVars, Rests, Moves
  <2> QED
    BY <2>5 DEF Does
<1>4. ASSUME FileRead(t) PROVE Does
  <2>1. pc[t] = "file" /\ UNCHANGED <<lastID, reg>> /\ Moves
    BY <1>4 DEF FileRead, hostVars, CliEnds, Moves
  <2>2. Go(t, "prompt", 0) \/ Go(t, "idle", 0)
    BY <1>4 DEF FileRead
  <2>3. Still
    BY <2>1, <2>2, StillGo DEF FramePc
  <2>4. str' = [x \in 1 .. Len(str) |-> str'[x]] /\ \A x \in Opened : Keeps(x, {})
    <3>1. str' = [str EXCEPT ![at[t]].fin = TRUE, ![at[t]].down = <<>>]
      BY <1>4 DEF FileRead
    <3> QED
      BY <3>1 DEF Keeps, Watched, Names
  <2>5. Rests
    BY <2>1, <2>3, <2>4 DEF Rests
  <2> QED
    BY <2>5 DEF Does
<1>5. ASSUME WriteLock(t) PROVE Does
  <2>1. t \in Thread /\ at[t] \in Opened
    BY <1>1, <1>5 DEF WriteLock
  <2>2. /\ str' = [str EXCEPT ![at[t]].wmu = t] /\ pc[t] = "lock" /\ str[at[t]].wmu = None
        /\ Go(t, "length", at[t]) /\ UNCHANGED <<connVars, lastID, reg>>
    BY <1>5 DEF WriteLock, KeepConn, sessVars, hostVars
  <2>3. Changes(at[t], {"wmu"}) /\ str'[at[t]].wmu = t
    BY <2>1, <2>2 DEF Changes, Keeps, Watched, Names
  <2>4. Locks(t)
    BY <2>2, <2>3 DEF Locks
  <2> QED
    BY <2>1, <2>4 DEF Does
<1>6. ASSUME WirePart(t) PROVE Does
  <2> DEFINE s == at[t]
             part == [part |-> pc[t], by |-> t]
             last == pc[t] = "payload"
  <2>1. pc[t] \in FramePc /\ UNCHANGED <<connVars, lastID, reg>>
    BY <1>6 DEF WirePart, FramePc, KeepConn, sessVars, hostVars
  <2>2. t \in Thread /\ s \in Opened
    BY <1>1, <2>1
  <2>3. ASSUME Up, ~str[s].fin,
               str' = [str EXCEPT
                 ![s].up = IF str[s].hpc = "done" THEN @ ELSE Append(@, part),
                 ![s].wmu = IF last THEN None ELSE @],
               IF last THEN Return(t) ELSE Go(t, "payload", s)
        PROVE  Does
    <3>1. /\ Changes(s, {"up", "wmu"})
          /\ str'[s].up = IF str[s].hpc = "done" THEN str[s].up ELSE Append(str[s].up, part)
          /\ str'[s].wmu = IF last THEN None ELSE str[s].wmu
      <4> HIDE DEF part, last, s
      <4> QED
        BY <2>2, <2>3 DEF Changes, Keeps, Watched, Names
    <3>2. Puts(t)
      BY <2>1, <2>3, <3>1 DEF Puts
    <3> QED
      BY <2>2, <3>2 DEF Does
  <2>4. ASSUME ~Up \/ str[s].fin, str' = [str EXCEPT ![s].wmu = None], Return(t) PROVE Does
    <3>1. Changes(s, {"wmu"}) /\ str'[s].wmu = None
      BY <2>2, <2>4 DEF Changes, Keeps, Watched, Names
    <3>2. GivesUp(t)
      BY <2>1, <2>4, <3>1 DEF GivesUp
    <3> QED
      BY <2>2, <3>2 DEF Does
  <2> QED
    BY <1>6, <2>3, <2>4 DEF WirePart
<1>7. ASSUME Join(t) PROVE Does
  <2>1. /\ pc[t] = "join" /\ Return(t) /\ UNCHANGED <<connVars, str, lastID, reg>>
    BY <1>7 DEF Join, KeepConn, sessVars, hostVars
  <2> QED
    BY <2>1, GoDoes DEF Return, connVars, Moves, FramePc
<1> QED
  BY <1>2, <1>3, <1>4, <1>5, <1>6, <1>7 DEF Step

\* The pump of mobile-core, and the loop of runPTY.
LEMMA ReaderDoes ==
  ASSUME Shape, Writers, NEW s, Reader(s)
  PROVE  Does
<1> USE Shapes
<1>1. Reading(s) /\ s \in Opened /\ pc[Main] \notin FramePc
  <2>1. Reading(s)
    BY DEF Reader, Pump, PumpFails, CliPump
  <2> QED
    BY <2>1 DEF Reading, PtyStrs, Writers, WriterOf
<1>2. UNCHANGED <<lastID, reg>> /\ Moves
  BY DEF Reader, Pump, PumpFails, CliPump, KeepAll, connVars, sessVars, hostVars, CliEnds,
     Moves
<1>3. UNCHANGED <<pc, at>> \/ Return(Main)
  BY DEF Reader, Pump, PumpFails, CliPump, KeepAll
<1>4. Still
  BY <1>1, <1>3, StillGo, StillSame DEF Return, FramePc
<1>5. CASE str' = [str EXCEPT ![s].down = Tail(str[s].down)]
  <2>1. str' = [x \in 1 .. Len(str) |-> str'[x]] /\ \A x \in Opened : Keeps(x, {})
    BY <1>5 DEF Keeps, Watched, Names
  <2>2. Rests
    BY <1>2, <1>4, <2>1 DEF Rests
  <2> QED
    BY <2>2 DEF Does
<1>6. CASE PumpDone(s)
  <2>1. /\ Changes(s, {"pump", "exits"})
        /\ str'[s].pump = "done" /\ str'[s].exits = str[s].exits + 1
    BY <1>1, <1>6 DEF PumpDone, Changes, Keeps, Watched, Names
  <2>2. PumpEnds(s)
    BY <1>1, <1>2, <1>4, <2>1 DEF PumpEnds
  <2> QED
    BY <2>2 DEF Does
<1>7. CASE str' = [str EXCEPT ![s].down = <<>>, ![s].pump = "done", ![s].exits = @ + 1,
                              ![s].fin = TRUE]
  <2>1. /\ Changes(s, {"pump", "exits"})
        /\ str'[s].pump = "done" /\ str'[s].exits = str[s].exits + 1
    BY <1>1, <1>7 DEF Changes, Keeps, Watched, Names
  <2>2. PumpEnds(s)
    BY <1>1, <1>2, <1>4, <2>1 DEF PumpEnds
  <2> QED
    BY <2>2 DEF Does
<1> QED
  BY <1>5, <1>6, <1>7 DEF Reader, Pump, PumpFails, CliPump

\* A handler returns.
LEMMA EndedChanges ==
  ASSUME Shape, NEW s \in Opened, NEW d, str' = Ended(s, d)
  PROVE  Changes(s, {"hpc", "up"}) /\ str'[s].hpc = "done" /\ str'[s].up = <<>>
BY Shapes DEF Ended, Changes, Keeps, Watched, Names

\* A frame is written to some streams.
LEMMA SentKeeps ==
  ASSUME Shape, NEW S, NEW f
  PROVE  /\ Sent(S, f) = [x \in 1 .. Len(str) |-> Sent(S, f)[x]]
         /\ \A x \in Opened : /\ DOMAIN Sent(S, f)[x] = Names
                              /\ Sent(S, f)[x].fin = str[x].fin
                              /\ \A g \in Watched : Sent(S, f)[x][g] = str[x][g]
BY Shapes DEF Sent, Watched, Names

\* The handlers of the host.
LEMMA HandlerDoes ==
  ASSUME Shape, NEW s, Handler(s) \/ HostExec(s)
  PROVE  Does
<1> USE Shapes
<1>1. Served /\ s \in Opened
  BY DEF Handler, HostAttach, HostRefuses, HostAck, HostRead, HostEnds, HostDrops, HostList,
     HostKill, HostTab, HostExec, Asked, PtyStrs, KeepClient, Served, connVars, sessVars
<1>2. ASSUME NEW d, str' = Ended(s, d), reg' = reg PROVE Does
  <2>1. HandlerEnds(s)
    BY <1>1, <1>2, EndedChanges DEF HandlerEnds
  <2> QED
    BY <2>1 DEF Does
<1>3. ASSUME HostAttach(s) PROVE Does
  <2>1. PICK sh : str' = [str EXCEPT ![s].hpc = "attached", ![s].shell = sh]
    BY <1>3 DEF HostAttach
  <2>2. Changes(s, {"hpc", "shell"}) /\ str'[s].hpc = "attached"
    BY <1>1, <2>1 DEF Changes, Keeps, Watched, Names
  <2>3. Attaches(s)
    BY <1>1, <1>3, <2>2 DEF HostAttach, Attaches
  <2> QED
    BY <2>3 DEF Does
<1>4. ASSUME HostRefuses(s) \/ HostDrops(s) \/ HostList(s) \/ HostTab(s) PROVE Does
  <2>1. reg' = reg /\ \E d : str' = Ended(s, d)
    BY <1>4 DEF HostRefuses, HostDrops, HostList, HostTab, hostVars
  <2> QED
    BY <1>2, <2>1
<1>5. ASSUME HostAck(s) PROVE Does
  <2>0. \E S : str' = [Sent(S, "ack") EXCEPT ![s].hpc = "reading"]
    BY <1>5 DEF HostAck
  <2> PICK S : str' = [Sent(S, "ack") EXCEPT ![s].hpc = "reading"]
    BY <2>0
  <2> DEFINE sent == Sent(S, "ack")
  <2>1. str' = [sent EXCEPT ![s].hpc = "reading"]
    OBVIOUS
  <2>2. /\ sent = [x \in 1 .. Len(str) |-> sent[x]]
        /\ \A x \in Opened : /\ DOMAIN sent[x] = Names /\ sent[x].fin = str[x].fin
                             /\ \A g \in Watched : sent[x][g] = str[x][g]
    BY SentKeeps
  <2> HIDE DEF sent
  <2>3. Changes(s, {"hpc"}) /\ str'[s].hpc = "reading"
    <3>1. /\ str' = [x \in 1 .. Len(str) |-> str'[x]]
          /\ str'[s] = [sent[s] EXCEPT !.hpc = "reading"]
          /\ \A x \in Opened \ {s} : str'[x] = sent[x]
      BY <1>1, <2>1, <2>2
    <3>2. Keeps(s, {"hpc"}) /\ str'[s].hpc = "reading"
      BY <1>1, <2>2, <3>1 DEF Keeps, Watched, Names
    <3>3. \A x \in Opened \ {s} : Keeps(x, {})
      BY <2>2, <3>1 DEF Keeps
    <3> QED
      BY <1>1, <3>1, <3>2, <3>3 DEF Changes
  <2>4. Acks(s)
    BY <1>1, <1>5, <2>3 DEF HostAck, Acks
  <2> QED
    BY <2>4 DEF Does
<1>6. ASSUME HostRead(s) PROVE Does
  <2>1. str' = [str EXCEPT ![s].up = Tail(Tail(@))]
    BY <1>6 DEF HostRead
  <2>2. Changes(s, {"up"}) /\ str'[s].up = Tail(Tail(str[s].up))
    BY <1>1, <2>1 DEF Changes, Keeps, Watched, Names
  <2>3. TakesFrame(s)
    BY <1>1, <1>6, <2>2 DEF HostRead, TakesFrame, hostVars
  <2> QED
    BY <2>3 DEF Does
<1>7. ASSUME HostEnds(s) PROVE Does
  <2>1. /\ Changes(s, {"hpc", "up"}) /\ str'[s].hpc = "done" /\ str'[s].up = <<>>
    BY <1>1, <1>7, EndedChanges DEF HostEnds
  <2>2. HandlerEnds(s)
    BY <1>1, <1>7, <2>1 DEF HostEnds, HandlerEnds
  <2> QED
    BY <2>2 DEF Does
<1>8. ASSUME HostKill(s) PROVE Does
  <2>1. \E S : str' = [Sent(S, "exit") EXCEPT
                        ![s].hpc = "done", ![s].hfin = TRUE, ![s].down = <<{}>>]
    BY <1>8 DEF HostKill
  <2>2. PICK S : str' = [Sent(S, "exit") EXCEPT
                          ![s].hpc = "done", ![s].hfin = TRUE, ![s].down = <<{}>>]
    BY <2>1
  <2> DEFINE sent == Sent(S, "exit")
  <2>3. /\ sent = [x \in 1 .. Len(str) |-> sent[x]]
        /\ \A x \in Opened : /\ DOMAIN sent[x] = Names /\ sent[x].fin = str[x].fin
                             /\ \A g \in Watched : sent[x][g] = str[x][g]
    BY SentKeeps
  <2>4. str' = [sent EXCEPT ![s].hpc = "done", ![s].hfin = TRUE, ![s].down = <<{}>>]
    BY <2>2
  <2> HIDE DEF sent
  <2>5. /\ Changes(s, {"hpc", "up"}) /\ str'[s].hpc = "done" /\ str'[s].up = str[s].up
    <3> DEFINE answer == <<{}>>
    <3>1. /\ str' = [x \in 1 .. Len(str) |-> str'[x]]
          /\ str'[s] = [sent[s] EXCEPT !.hpc = "done", !.hfin = TRUE, !.down = answer]
          /\ \A x \in Opened \ {s} : str'[x] = sent[x]
      BY <1>1, <2>3, <2>4
    <3> HIDE DEF answer
    <3>2. Keeps(s, {"hpc", "up"}) /\ str'[s].hpc = "done" /\ str'[s].up = str[s].up
      <4>1. DOMAIN sent[s] = Names /\ sent[s].fin = str[s].fin /\ sent[s].up = str[s].up
        BY <1>1, <2>3 DEF Watched
      <4>2. /\ DOMAIN str'[s] = Names /\ str'[s].fin = sent[s].fin /\ str'[s].up = sent[s].up
            /\ str'[s].hpc = "done"
        BY <3>1, <4>1 DEF Names
      <4>3. \A g \in Watched \ {"hpc", "up"} : str'[s][g] = sent[s][g]
        BY <3>1, <4>1 DEF Names, Watched
      <4> QED
        BY <1>1, <2>3, <4>1, <4>2, <4>3 DEF Keeps
    <3>3. \A x \in Opened \ {s} : Keeps(x, {})
      BY <2>3, <3>1 DEF Keeps
    <3> QED
      BY <1>1, <3>1, <3>2, <3>3 DEF Changes
  <2>6. HandlerEnds(s)
    BY <1>1, <1>8, <2>5 DEF HostKill, HandlerEnds
  <2> QED
    BY <2>6 DEF Does
<1>9. ASSUME HostExec(s) PROVE Does
  <2>1. reg' = reg
    BY <1>9 DEF HostExec, hostVars
  <2>2. CASE str' = [str EXCEPT ![s].down = Append(@, "out")]
    <3>1. str' = [x \in 1 .. Len(str) |-> str'[x]] /\ \A x \in Opened : Keeps(x, {})
      BY <2>2 DEF Keeps, Watched, Names
    <3>2. Still /\ Moves
      BY <1>1, StillSame DEF Served, Moves, connVars
    <3>3. Rests
      BY <1>1, <2>1, <3>1, <3>2 DEF Rests, Served
    <3> QED
      BY <3>3 DEF Does
  <2>3. CASE str' = [Ended(s, <<"done">>) EXCEPT ![s].ran = TRUE]
    <3>1. Changes(s, {"hpc", "up"}) /\ str'[s].hpc = "done" /\ str'[s].up = <<>>
      <4> DEFINE e == Ended(s, <<"done">>)
      <4>1. /\ e = [x \in 1 .. Len(str) |-> e[x]] /\ DOMAIN e[s] = Names
            /\ e[s].hpc = "done" /\ e[s].up = <<>> /\ e[s].fin = str[s].fin
            /\ \A g \in Watched \ {"hpc", "up"} : e[s][g] = str[s][g]
            /\ \A x \in Opened \ {s} : e[x] = str[x]
        BY <1>1 DEF Ended, Watched, Names
      <4>2. str' = [e EXCEPT ![s].ran = TRUE]
        BY <2>3
      <4> HIDE DEF e
      <4>3. /\ str' = [x \in 1 .. Len(str) |-> str'[x]]
            /\ str'[s] = [e[s] EXCEPT !.ran = TRUE]
            /\ \A x \in Opened \ {s} : str'[x] = str[x]
        BY <1>1, <4>1, <4>2
      <4>4. Keeps(s, {"hpc", "up"}) /\ str'[s].hpc = "done" /\ str'[s].up = <<>>
        BY <4>1, <4>3 DEF Keeps, Watched, Names
      <4>5. \A x \in Opened \ {s} : Keeps(x, {})
        BY <4>3 DEF Keeps
      <4> QED
        BY <1>1, <4>3, <4>4, <4>5 DEF Changes
    <3>2. HandlerEnds(s)
      BY <1>1, <2>1, <3>1 DEF HandlerEnds
    <3> QED
      BY <3>2 DEF Does
  <2>4. CASE str' = Ended(s, <<>>)
    BY <1>2, <2>1, <2>4
  <2>5. CASE str' = Ended(s, <<"done">>)
    BY <1>2, <2>1, <2>5
  <2> QED
    BY <1>9, <2>2, <2>3, <2>4, <2>5 DEF HostExec
<1> QED
  BY <1>3, <1>4, <1>5, <1>6, <1>7, <1>8, <1>9 DEF Handler

\* A shell prints or exits.
LEMMA ShellDoes ==
  ASSUME Shape, NEW sh, ShellPrints(sh) \/ ShellExits(sh)
  PROVE  Does
<1>1. /\ UNCHANGED <<app, phase, pc, at, reg, lastID>>
      /\ \E f : str' = Sent(Bound(sh), f)
  BY DEF ShellPrints, ShellExits, KeepClient, connVars, sessVars, hostVars
<1>2. str' = [x \in 1 .. Len(str) |-> str'[x]] /\ \A x \in Opened : Keeps(x, {})
  <2>1. PICK f : str' = Sent(Bound(sh), f)
    BY <1>1
  <2> QED
    BY <2>1, SentKeeps DEF Keeps
<1>3. Still /\ Moves
  BY <1>1, StillSame DEF Moves
<1>4. Rests
  BY <1>1, <1>2, <1>3, Shapes DEF Rests
<1> QED
  BY <1>4 DEF Does

\* Every step is of one of the kinds.
LEMMA NextDoes ==
  ASSUME Shape, Phases, Writers, [Next]_vars
  PROVE  Does
<1>1. CASE UNCHANGED vars
  <2>1. UNCHANGED <<app, phase, pc, at, str, reg, lastID>>
    BY <1>1 DEF vars, connVars, sessVars, hostVars
  <2>2. Rests
    BY <2>1, KeepsSame, StillSame, Shapes DEF Rests, Moves
  <2> QED
    BY <2>2 DEF Does
<1>2. ASSUME Next PROVE Does
  <2>1. CASE Connect \/ NetLost \/ Interrupt \/ SessionClose
    BY <2>1, ConnectDoes
  <2>2. CASE CliStep
    BY <2>2, CliDoes
  <2>3. CASE Ends
    BY <1>1, <2>3 DEF Ends
  <2>4. ASSUME NEW t \in Thread, Call(t) PROVE Does
    BY <2>4, CallDoes
  <2>5. ASSUME NEW t \in Caller, Step(t) PROVE Does
    BY <2>5, StepDoes
  <2>6. ASSUME NEW s, Reader(s) PROVE Does
    BY <2>6, ReaderDoes
  <2>7. ASSUME NEW s, Handler(s) \/ HostExec(s) PROVE Does
    BY <2>7, HandlerDoes
  <2>8. ASSUME NEW sh, ShellPrints(sh) \/ ShellExits(sh) PROVE Does
    BY <2>8, ShellDoes
  <2> QED
    BY <1>2, <2>1, <2>2, <2>3, <2>4, <2>5, <2>6, <2>7, <2>8 DEF Next
<1> QED
  BY <1>1, <1>2

-----------------------------------------------------------------------------
(* The parts of the inductive invariant.                                   *)

\* No stream is opened.
LEMMA SameOpened ==
  ASSUME Shape, str' = [x \in 1 .. Len(str) |-> str'[x]]
  PROVE  Len(str') = Len(str) /\ Opened' = Opened
BY Shapes, SeqLen DEF Opened

\* A stream is opened.
LEMMA OneOpened ==
  ASSUME Shape, NEW q, Opens(q)
  PROVE  /\ Opened' = Opened \cup {Len(str) + 1} /\ Len(str) + 1 \notin Opened
         /\ Len(str') = Len(str) + 1 /\ str' = [x \in 1 .. Len(str) + 1 |-> str'[x]]
         /\ \A x \in Opened : str'[x] = str[x]
         /\ str'[Len(str) + 1] = Stream(q)
<1>1. str' = Append(str, Stream(q))
  BY DEF Opens
<1>2. /\ Len(str') = Len(str) + 1 /\ str' = [x \in 1 .. Len(str) + 1 |-> str'[x]]
      /\ \A x \in 1 .. Len(str) : str'[x] = str[x]
      /\ str'[Len(str) + 1] = Stream(q)
  <2> HIDE DEF Stream
  <2>1. DEFINE e == Stream(q)
  <2>2. str' = Append(str, e)
    BY <1>1
  <2> HIDE DEF e
  <2> QED
    BY <2>2, Shapes, SeqAppend DEF e
<1> QED
  BY <1>2, Shapes DEF Opened

\* A stream that has just been opened.
LEMMA NewStream ==
  ASSUME NEW q
  PROVE  /\ DOMAIN Stream(q) = Names
         /\ Stream(q).kind = q.kind /\ Stream(q).id = q.id
         /\ Stream(q).up = <<>> /\ Stream(q).wmu = None /\ Stream(q).hpc = "new"
         /\ Stream(q).exits = 0 /\ Stream(q).fin = FALSE
         /\ q.kind = "pty" => Stream(q).pump = "reading"
BY DEF Stream, Names

\* The shape of the variables.
LEMMA StepShape ==
  ASSUME Shape, Does
  PROVE  Shape' /\ app' = app
<1> USE Shapes
<1>1. ASSUME str' = [x \in 1 .. Len(str) |-> str'[x]],
             \A x \in Opened : DOMAIN str'[x] = Names,
             app' = app, lastID' \in lastID .. app.streams,
             DOMAIN pc' = Caller, DOMAIN at' = Caller, DOMAIN reg' = DOMAIN reg
      PROVE  Shape'
  <2>1. Len(str') = Len(str) /\ Opened' = Opened
    BY <1>1, SameOpened
  <2>2. app \in App /\ lastID' \in 0 .. app.streams
    BY <1>1 DEF Shape
  <2> QED
    BY <1>1, <2>1, <2>2 DEF Shape
<1>2. CASE Rests
  BY <1>1, <1>2 DEF Rests, Keeps, Still, Moves
<1>3. ASSUME NEW q, Opens(q) PROVE Shape'
  <2>1. /\ Opened' = Opened \cup {Len(str) + 1} /\ Len(str') = Len(str) + 1
        /\ str' = [x \in 1 .. Len(str) + 1 |-> str'[x]]
        /\ \A x \in Opened : str'[x] = str[x]
        /\ DOMAIN str'[Len(str) + 1] = Names
    BY <1>3, OneOpened, NewStream
  <2>2. app \in App /\ lastID' \in 0 .. app.streams /\ app' = app
    BY <1>3 DEF Shape, Opens
  <2>3. DOMAIN pc' = Caller /\ DOMAIN at' = Caller /\ reg' = reg
    BY <1>3 DEF Opens, Still
  <2>4. \A x \in Opened' : DOMAIN str'[x] = Names
    <3>1. \A x \in Opened : DOMAIN str'[x] = Names
      BY <2>1
    <3> QED
      BY <2>1, <3>1
  <2>5. Len(str') \in Nat /\ str' = [x \in 1 .. Len(str') |-> str'[x]]
    BY <2>1
  <2> QED
    BY <2>2, <2>3, <2>4, <2>5 DEF Shape
<1>4. ASSUME NEW s, NEW F, Changes(s, F)
      PROVE  /\ str' = [x \in 1 .. Len(str) |-> str'[x]]
             /\ \A x \in Opened : DOMAIN str'[x] = Names
  BY <1>4 DEF Changes, Keeps
<1>5. ASSUME NEW s, PumpEnds(s) PROVE Shape'
  BY <1>1, <1>4, <1>5 DEF PumpEnds, Still, Moves
<1>6. ASSUME NEW s, HandlerEnds(s) \/ Attaches(s) \/ Acks(s) \/ TakesFrame(s) PROVE Shape'
  <2>1. \E F : Changes(s, F)
    BY <1>6 DEF HandlerEnds, Attaches, Acks, TakesFrame
  <2>2. UNCHANGED <<app, lastID, pc, at>> /\ DOMAIN reg' = DOMAIN reg
    BY <1>6 DEF HandlerEnds, Attaches, Acks, TakesFrame, Served, connVars
  <2> QED
    BY <1>1, <1>4, <2>1, <2>2
<1>7. ASSUME NEW t \in Thread, Locks(t) \/ Puts(t) \/ GivesUp(t) PROVE Shape'
  <2>1. \E F : Changes(at[t], F)
    BY <1>7 DEF Locks, Puts, GivesUp
  <2>2. UNCHANGED <<app, lastID, reg>> /\ DOMAIN pc' = Caller /\ DOMAIN at' = Caller
    BY <1>7 DEF Locks, Puts, GivesUp, Go, Return, connVars
  <2> QED
    BY <1>1, <1>4, <2>1, <2>2
<1>8. app' = app
  BY DEF Does, Rests, Opens, PumpEnds, HandlerEnds, Attaches, Acks, TakesFrame, Served,
     Locks, Puts, GivesUp, Moves, connVars
<1> QED
  BY <1>2, <1>3, <1>5, <1>6, <1>7, <1>8 DEF Does

\* A connection that has streams is up, or it was.
LEMMA StepPhases ==
  ASSUME Shape, Phases, Does
  PROVE  Phases'
<1>1. ASSUME Moves, Opened' = Opened PROVE Phases'
  BY <1>1 DEF Moves, Phases
<1>2. ASSUME phase' = phase, Up \/ Opened' = Opened PROVE Phases'
  BY <1>2 DEF Phases, Up
<1>3. CASE Rests
  BY <1>1, <1>3, SameOpened DEF Rests
<1>4. ASSUME NEW q, Opens(q) PROVE Phases'
  BY <1>2, <1>4 DEF Opens
<1>5. ASSUME NEW s, NEW F, Changes(s, F) PROVE Opened' = Opened
  BY <1>5, SameOpened DEF Changes
<1>6. ASSUME NEW s, PumpEnds(s) PROVE Phases'
  BY <1>1, <1>5, <1>6 DEF PumpEnds
<1>7. ASSUME NEW s, HandlerEnds(s) \/ Attaches(s) \/ Acks(s) \/ TakesFrame(s) PROVE Phases'
  BY <1>2, <1>5, <1>7 DEF HandlerEnds, Attaches, Acks, TakesFrame, Served, connVars
<1>8. ASSUME NEW t, Locks(t) \/ Puts(t) \/ GivesUp(t) PROVE Phases'
  BY <1>2, <1>5, <1>8 DEF Locks, Puts, GivesUp, connVars
<1> QED
  BY <1>3, <1>4, <1>6, <1>7, <1>8 DEF Does

\* PTYSession.pump: OnExit is called where the pump returns, and nowhere else.
LEMMA StepExits ==
  ASSUME Shape, Exits, Does
  PROVE  Exits'
<1> DEFINE Idle(x) == /\ str'[x].kind = str[x].kind /\ str'[x].pump = str[x].pump
                      /\ str'[x].exits = str[x].exits
<1>1. ASSUME Opened' = Opened, \A x \in Opened : Idle(x) PROVE Exits'
  BY <1>1 DEF Exits, ExitsOf
<1>2. ASSUME NEW s, NEW F, Changes(s, F) PROVE Opened' = Opened
  BY <1>2, SameOpened DEF Changes
<1>3. ASSUME NEW s, NEW F, Changes(s, F), F \cap {"pump", "exits", "kind"} = {} PROVE Exits'
  <2>1. \A x \in Opened : Idle(x)
    BY <1>3 DEF Changes, Keeps, Watched
  <2> QED
    BY <1>1, <1>2, <1>3, <2>1
<1>4. CASE Rests
  <2>1. \A x \in Opened : Idle(x)
    BY <1>4 DEF Rests, Keeps, Watched
  <2> QED
    BY <1>1, <1>4, <2>1, SameOpened DEF Rests
<1>5. ASSUME NEW q, Opens(q) PROVE Exits'
  <2> PICK n : n = Len(str) + 1
    OBVIOUS
  <2>1. /\ Opened' = Opened \cup {n} /\ \A x \in Opened : str'[x] = str[x]
        /\ str'[n] = Stream(q)
    BY <1>5, OneOpened
  <2>2. ExitsOf(n)'
    <3>1. /\ str'[n].kind = q.kind /\ str'[n].exits = 0
          /\ q.kind = "pty" => str'[n].pump = "reading"
      BY <2>1, NewStream
    <3> QED
      BY <3>1 DEF ExitsOf
  <2>3. \A x \in Opened : ExitsOf(x)'
    BY <2>1 DEF Exits, ExitsOf
  <2> QED
    BY <2>1, <2>2, <2>3 DEF Exits
<1>6. ASSUME NEW s, PumpEnds(s) PROVE Exits'
  <2>1. s \in Opened /\ str[s].kind = "pty" /\ str[s].pump = "reading" /\ Opened' = Opened
    BY <1>2, <1>6 DEF PumpEnds, Reading, PtyStrs, Changes
  <2>2. \A x \in Opened \ {s} : ExitsOf(x)'
    <3>1. \A x \in Opened \ {s} : Idle(x)
      BY <1>6 DEF PumpEnds, Changes, Keeps, Watched
    <3> QED
      BY <3>1 DEF Exits, ExitsOf
  <2>3. ExitsOf(s)'
    <3>1. str[s].exits = 0
      BY <2>1 DEF Exits, ExitsOf
    <3> QED
      BY <1>6, <3>1 DEF PumpEnds, ExitsOf
  <2> QED
    BY <2>1, <2>2, <2>3 DEF Exits
<1>7. ASSUME NEW s, HandlerEnds(s) \/ Attaches(s) \/ Acks(s) \/ TakesFrame(s) PROVE Exits'
  BY <1>3, <1>7 DEF HandlerEnds, Attaches, Acks, TakesFrame
<1>8. ASSUME NEW t, Locks(t) \/ Puts(t) \/ GivesUp(t) PROVE Exits'
  BY <1>3, <1>8 DEF Locks, Puts, GivesUp
<1> QED
  BY <1>4, <1>5, <1>6, <1>7, <1>8 DEF Does

\* Session.nextPTYID and ptyRegistry: the id of a tab is its own, so nobody
\* else changes its registration.
LEMMA StepTabs ==
  ASSUME Shape, Tabs, Does
  PROVE  Tabs'
<1> USE Shapes
<1> DEFINE Pty(x) == str[x].kind = "pty"
           Found(x) == str[x].hpc = "reading" /\ str[x].id # 0 => reg[str[x].id] = str[x].shell
           SameTab(x) == str'[x].kind = str[x].kind /\ str'[x].id = str[x].id
           SameHost(x) == str'[x].hpc = str[x].hpc /\ str'[x].shell = str[x].shell
<1>1. ASSUME Opened' = Opened, \A x \in Opened : SameTab(x) /\ (Pty(x) => Found(x)'),
             lastID' \in lastID .. app.streams
      PROVE  Tabs'
  <2>1. ASSUME NEW x \in Opened PROVE TabOf(x)'
    <3>1. TabOf(x)
      BY DEF Tabs
    <3>2. Pty(x) => str'[x].id \in 0 .. lastID'
      BY <1>1, <3>1 DEF TabOf
    <3>3. Pty(x) /\ str[x].id # 0 =>
            \A r \in Opened : r # x /\ str'[r].kind = "pty" => str'[r].id # str'[x].id
      BY <1>1, <3>1 DEF TabOf
    <3> QED
      BY <1>1, <3>2, <3>3 DEF TabOf
  <2> QED
    BY <1>1, <2>1 DEF Tabs
<1>2. \A x \in Opened : Pty(x) => Found(x)
  BY DEF Tabs, TabOf
<1>3. ASSUME NEW s, NEW F, Changes(s, F), F \cap {"kind", "id"} = {}
      PROVE  Opened' = Opened /\ \A x \in Opened : SameTab(x)
  BY <1>3, SameOpened DEF Changes, Keeps, Watched
<1>4. ASSUME NEW s, NEW F, Changes(s, F)
      PROVE  \A x \in Opened \ {s} : SameHost(x) /\ SameTab(x)
  BY <1>4 DEF Changes, Keeps, Watched
<1>5. ASSUME NEW s, NEW F, Changes(s, F), F \cap {"kind", "id", "hpc", "shell"} = {},
             reg' = reg, lastID' = lastID
      PROVE  Tabs'
  <2>1. \A x \in Opened : SameHost(x) /\ SameTab(x)
    BY <1>5 DEF Changes, Keeps, Watched
  <2> QED
    BY <1>1, <1>2, <1>3, <1>5, <2>1
<1>6. CASE Rests
  <2>1. \A x \in Opened : SameHost(x) /\ SameTab(x)
    BY <1>6 DEF Rests, Keeps, Watched
  <2>2. Opened' = Opened /\ reg' = reg /\ lastID' \in lastID .. app.streams
    BY <1>6, SameOpened DEF Rests
  <2> QED
    BY <1>1, <1>2, <2>1, <2>2
<1>7. ASSUME NEW q, Opens(q) PROVE Tabs'
  <2> PICK n : n = Len(str) + 1
    OBVIOUS
  <2>1. /\ Opened' = Opened \cup {n} /\ n \notin Opened
        /\ \A x \in Opened : str'[x] = str[x]
        /\ str'[n].kind = q.kind /\ str'[n].id = q.id /\ str'[n].hpc = "new"
    <3>1. /\ Opened' = Opened \cup {n} /\ n \notin Opened
          /\ \A x \in Opened : str'[x] = str[x]
          /\ str'[n] = Stream(q)
      BY <1>7, OneOpened
    <3>2. Stream(q).kind = q.kind /\ Stream(q).id = q.id /\ Stream(q).hpc = "new"
      BY NewStream
    <3> QED
      BY <3>1, <3>2
  <2>2. /\ reg' = reg /\ lastID' \in lastID .. app.streams
        /\ q.kind = "pty" => q.id = 0 \/ (q.id = lastID' /\ lastID' = lastID + 1)
    BY <1>7 DEF Opens
  <2>3. /\ lastID' \in Nat /\ lastID <= lastID'
        /\ \A x \in Opened : Pty(x) => str[x].id \in 0 .. lastID
    BY <2>2 DEF Tabs, TabOf
  <2>4. \A x \in Opened : Pty(x) /\ q.kind = "pty" /\ q.id # 0 => str[x].id # q.id
    BY <2>2, <2>3
  <2>5. ASSUME NEW x \in Opened PROVE TabOf(x)'
    <3>1. TabOf(x) /\ str'[x] = str[x]
      BY <2>1 DEF Tabs
    <3>2. Pty(x) => str'[x].id \in 0 .. lastID'
      BY <2>3, <3>1
    <3>3. ASSUME Pty(x), str[x].id # 0, NEW r \in Opened', r # x, str'[r].kind = "pty"
          PROVE  str'[r].id # str'[x].id
      <4>1. CASE r = n
        BY <2>1, <2>4, <3>1, <3>3, <4>1
      <4>2. CASE r \in Opened
        BY <2>1, <3>1, <3>3, <4>2 DEF TabOf
      <4> QED
        BY <2>1, <3>3, <4>1, <4>2
    <3> QED
      BY <2>2, <3>1, <3>2, <3>3 DEF TabOf
  <2>6. TabOf(n)'
    <3>1. q.kind = "pty" => q.id \in 0 .. lastID'
      BY <2>2, <2>3
    <3>2. ASSUME q.kind = "pty", q.id # 0, NEW r \in Opened', r # n, str'[r].kind = "pty"
          PROVE  str'[r].id # q.id
      BY <2>1, <2>4, <3>2
    <3> QED
      BY <2>1, <3>1, <3>2 DEF TabOf
  <2> QED
    BY <2>1, <2>5, <2>6 DEF Tabs
<1>8. ASSUME NEW s, PumpEnds(s) PROVE Tabs'
  BY <1>5, <1>8 DEF PumpEnds
<1>9. ASSUME NEW s, TakesFrame(s) PROVE Tabs'
  BY <1>5, <1>9 DEF TakesFrame, Served
<1>10. ASSUME NEW t, Locks(t) \/ Puts(t) \/ GivesUp(t) PROVE Tabs'
  BY <1>5, <1>10 DEF Locks, Puts, GivesUp
<1>11. ASSUME NEW s, NEW F, Changes(s, F), F \cap {"kind", "id"} = {}, lastID' = lastID,
              Pty(s) => Found(s)',
              \/ reg' = reg
              \/ Pty(s) /\ str[s].id # 0 /\ \E e : reg' = [reg EXCEPT ![str[s].id] = e]
       PROVE  Tabs'
  <2>1. Opened' = Opened /\ \A x \in Opened : SameTab(x)
    BY <1>3, <1>11
  <2>2. ASSUME NEW x \in Opened \ {s}, Pty(x) PROVE Found(x)'
    <3>1. SameHost(x) /\ SameTab(x) /\ Found(x) /\ s \in Opened
      BY <1>2, <1>4, <1>11, <2>2 DEF Changes
    <3>2. Pty(s) /\ str[x].id # 0 => str[s].id # str[x].id
      BY <2>2, <3>1 DEF Tabs, TabOf
    <3>3. str[x].id # 0 => reg'[str[x].id] = reg[str[x].id]
      <4>1. CASE reg' = reg
        BY <4>1
      <4>2. CASE Pty(s) /\ str[s].id # 0 /\ \E e : reg' = [reg EXCEPT ![str[s].id] = e]
        <5>1. PICK e : reg' = [reg EXCEPT ![str[s].id] = e]
          BY <4>2
        <5>2. str[x].id # 0 => str[s].id # str[x].id
          BY <3>2, <4>2
        <5>3. str[x].id \in DOMAIN reg
          <6>1. str[x].id \in 0 .. lastID
            BY <2>2 DEF Tabs, TabOf
          <6> QED
            BY <6>1
        <5> QED
          BY <5>1, <5>2, <5>3
      <4> QED
        BY <1>11, <4>1, <4>2
    <3> QED
      BY <3>1, <3>3
  <2> QED
    BY <1>1, <1>11, <2>1, <2>2
<1>12. ASSUME NEW s, HandlerEnds(s) PROVE Tabs'
  <2>1. /\ Changes(s, {"hpc", "up"}) /\ lastID' = lastID /\ Found(s)'
    BY <1>12 DEF HandlerEnds, Served
  <2>2. \/ reg' = reg
        \/ Pty(s) /\ str[s].id # 0 /\ \E e : reg' = [reg EXCEPT ![str[s].id] = e]
    BY <1>12 DEF HandlerEnds, PtyStrs
  <2> QED
    BY <1>11, <2>1, <2>2
<1>13. ASSUME NEW s, Attaches(s) PROVE Tabs'
  <2>1. Changes(s, {"hpc", "shell"}) /\ lastID' = lastID /\ Found(s)' /\ reg' = reg
    BY <1>13 DEF Attaches, Served
  <2> QED
    BY <1>11, <2>1
<1>14. ASSUME NEW s, Acks(s) PROVE Tabs'
  <2>1. Changes(s, {"hpc"}) /\ lastID' = lastID /\ Pty(s) /\ s \in Opened
    BY <1>14 DEF Acks, Served, PtyStrs
  <2>2. str'[s].id = str[s].id /\ str'[s].shell = str[s].shell
    BY <2>1 DEF Changes, Keeps, Watched
  <2>3. str[s].id \in DOMAIN reg
    <3>1. str[s].id \in 0 .. lastID
      BY <2>1 DEF Tabs, TabOf
    <3> QED
      BY <3>1
  <2>4. Found(s)'
    BY <1>14, <2>2, <2>3 DEF Acks
  <2>5. \/ reg' = reg
        \/ Pty(s) /\ str[s].id # 0 /\ \E e : reg' = [reg EXCEPT ![str[s].id] = e]
    BY <1>14, <2>1 DEF Acks
  <2> QED
    BY <1>11, <2>1, <2>4, <2>5
<1> QED
  BY <1>6, <1>7, <1>8, <1>9, <1>10, <1>12, <1>13, <1>14 DEF Does

\* The lock is taken before the length is written and held to the end of the
\* payload.
LEMMA StepWriters ==
  ASSUME Shape, Writers, Does
  PROVE  Writers'
<1> USE Shapes
<1> DEFINE SameLock(x) == str'[x].kind = str[x].kind /\ str'[x].wmu = str[x].wmu
<1>1. ASSUME \A x \in Opened : x \in Opened' /\ SameLock(x), Still PROVE Writers'
  <2>1. ASSUME NEW t \in Caller PROVE WriterOf(t)'
    <3>1. WriterOf(t)
      BY DEF Writers
    <3>2. \A x \in PtyStrs : x \in PtyStrs'
      BY <1>1 DEF PtyStrs
    <3>3. CASE pc'[t] \in FramePc
      <4>1. pc'[t] = pc[t] /\ at'[t] = at[t]
        BY <1>1, <3>3 DEF Still
      <4>2. t \in Thread /\ at[t] \in PtyStrs /\ str[at[t]].wmu = t
        BY <3>1, <3>3, <4>1 DEF WriterOf
      <4>3. at[t] \in Opened /\ at[t] \in PtyStrs'
        BY <3>2, <4>2 DEF PtyStrs
      <4> QED
        BY <1>1, <4>1, <4>2, <4>3 DEF WriterOf
    <3>4. CASE pc'[t] = "lock"
      <4>1. t \in Thread /\ at'[t] \in PtyStrs'
        BY <1>1, <3>1, <3>2, <3>4 DEF Still, WriterOf
      <4> QED
        BY <3>4, <4>1 DEF WriterOf, FramePc
    <3>5. CASE pc'[t] \notin FramePc \cup {"lock"}
      BY <3>5 DEF WriterOf
    <3> QED
      BY <3>3, <3>4, <3>5
  <2> QED
    BY <2>1 DEF Writers
<1>2. ASSUME NEW s, NEW F, Changes(s, F), F \cap {"kind", "wmu"} = {}
      PROVE  \A x \in Opened : x \in Opened' /\ SameLock(x)
  BY <1>2, SameOpened DEF Changes, Keeps, Watched
<1>3. CASE Rests
  <2>1. \A x \in Opened : x \in Opened' /\ SameLock(x)
    BY <1>3, SameOpened DEF Rests, Keeps, Watched
  <2> QED
    BY <1>1, <1>3, <2>1 DEF Rests
<1>4. ASSUME NEW q, Opens(q) PROVE Writers'
  BY <1>1, <1>4, OneOpened DEF Opens
<1>5. ASSUME NEW s, PumpEnds(s) PROVE Writers'
  BY <1>1, <1>2, <1>5 DEF PumpEnds
<1>6. ASSUME NEW s, HandlerEnds(s) \/ Attaches(s) \/ Acks(s) \/ TakesFrame(s) PROVE Writers'
  <2>1. \A x \in Opened : x \in Opened' /\ SameLock(x)
    BY <1>2, <1>6 DEF HandlerEnds, Attaches, Acks, TakesFrame
  <2>2. Still
    BY <1>6, StillSame DEF HandlerEnds, Attaches, Acks, TakesFrame, Served
  <2> QED
    BY <1>1, <2>1, <2>2
<1>7. ASSUME NEW t \in Thread, NEW F, Changes(at[t], F), "kind" \notin F,
             (pc[t] = "lock" /\ str[at[t]].wmu = None) \/ pc[t] \in FramePc,
             NEW l, l \in FramePc => str'[at[t]].wmu = t, l \notin {"lock"},
             NEW s, l = "idle" \/ s = at[t], Go(t, l, s)
      PROVE  Writers'
  <2>1. /\ Opened' = Opened /\ at[t] \in Opened /\ at[t] \in PtyStrs
        /\ \A x \in Opened : str'[x].kind = str[x].kind
        /\ \A x \in Opened \ {at[t]} : str'[x].wmu = str[x].wmu
    <3>1. t \in Caller /\ WriterOf(t)
      BY DEF Writers
    <3> QED
      BY <1>7, <3>1, SameOpened DEF Changes, Keeps, Watched, WriterOf
  <2>2. PtyStrs' = PtyStrs
    BY <2>1 DEF PtyStrs
  <2>3. t \in Caller /\ pc'[t] = l /\ at'[t] = s
    BY <1>7 DEF Go
  <2>4. WriterOf(t)'
    BY <1>7, <2>1, <2>2, <2>3 DEF WriterOf, FramePc
  <2>5. ASSUME NEW u \in Caller \ {t} PROVE WriterOf(u)'
    <3>1. WriterOf(u) /\ pc'[u] = pc[u] /\ at'[u] = at[u]
      BY <1>7, <2>5 DEF Writers, Go
    <3>2. pc[u] \in FramePc => at[u] # at[t] /\ at[u] \in Opened
      <4>1. pc[t] \in FramePc => str[at[t]].wmu = t
        BY <2>3 DEF Writers, WriterOf
      <4>2. pc[u] \in FramePc => str[at[u]].wmu = u /\ u \in Thread /\ at[u] \in Opened
        BY <3>1 DEF WriterOf, PtyStrs
      <4> QED
        BY <1>7, <2>5, <4>1, <4>2
    <3> QED
      BY <2>1, <2>2, <3>1, <3>2 DEF WriterOf
  <2> QED
    BY <2>4, <2>5 DEF Writers
<1>8. ASSUME NEW t \in Thread, Locks(t) PROVE Writers'
  BY <1>7, <1>8 DEF Locks
<1>9. ASSUME NEW t \in Thread, Puts(t) PROVE Writers'
  <2>1. t \in Caller /\ (pc[t] \in FramePc => str[at[t]].wmu = t)
    BY DEF Writers, WriterOf
  <2>2. CASE pc[t] = "payload"
    BY <1>7, <1>9, <2>2 DEF Puts, Return, FramePc
  <2>3. CASE pc[t] # "payload"
    BY <1>7, <1>9, <2>1, <2>3 DEF Puts
  <2> QED
    BY <2>2, <2>3
<1>10. ASSUME NEW t \in Thread, GivesUp(t) PROVE Writers'
  BY <1>7, <1>10 DEF GivesUp, Return, FramePc
<1> QED
  BY <1>3, <1>4, <1>5, <1>6, <1>8, <1>9, <1>10 DEF Does

\* FrameOf in the next state, for what is then under way and the holder of the
\* lock.
LEMMA FrameIs ==
  ASSUME NEW s, NEW w, NEW m,
         str'[s].kind = "pty" =>
           /\ str'[s].up = w /\ w \in Seq(Part) /\ Alternates(w)
           /\ str'[s].wmu = m
           /\ m # None => m \in Thread /\ at'[m] = s /\ pc'[m] \in FramePc
           /\ Flows(s)' => IF m # None /\ pc'[m] = "payload"
                           THEN Len(w) % 2 = 1 /\ w[Len(w)].by = m
                           ELSE Len(w) % 2 = 0
  PROVE  FrameOf(s)'
<1> SUFFICES ASSUME str'[s].kind = "pty" PROVE FrameOf(s)'
  BY DEF FrameOf
<1>1. str'[s].up = w /\ str'[s].wmu = m
  OBVIOUS
<1>2. Alternates(str'[s].up)
  BY <1>1
<1> QED
  BY <1>1, <1>2 DEF FrameOf, Alternates

\* A stream to which nothing is written, and whose lock stays where it is.
LEMMA FrameKept ==
  ASSUME Frames, NEW x \in Opened,
         str'[x].kind = str[x].kind, str'[x].up = str[x].up, str'[x].wmu = str[x].wmu,
         str'[x].hpc = "done" \/ str[x].hpc # "done",
         str[x].fin => str'[x].fin, Up' => Up,
         str[x].wmu \in Thread /\ pc[str[x].wmu] \in FramePc /\ at[str[x].wmu] = x =>
           pc'[str[x].wmu] = pc[str[x].wmu] /\ at'[str[x].wmu] = at[str[x].wmu]
  PROVE  FrameOf(x)'
<1> DEFINE u == str[x].up
           w == str[x].wmu
<1>1. FrameOf(x)
  BY DEF Frames
<1>2. ASSUME str[x].kind = "pty" PROVE FrameOf(x)'
  <2>1. /\ u \in Seq(Part) /\ Alternates(u)
        /\ w # None => w \in Thread /\ at[w] = x /\ pc[w] \in FramePc
    BY <1>1, <1>2 DEF FrameOf
  <2>2. w # None => pc'[w] = pc[w] /\ at'[w] = at[w]
    BY <2>1
  <2>3. Flows(x)' => Flows(x)
    BY DEF Flows
  <2>4. Flows(x) => IF w # None /\ pc[w] = "payload"
                    THEN Len(u) % 2 = 1 /\ u[Len(u)].by = w ELSE Len(u) % 2 = 0
    BY <1>1, <1>2 DEF FrameOf
  <2>5. Alternates(str'[x].up)
    BY <2>1
  <2>6. Flows(x)' => IF str'[x].wmu # None /\ pc'[str'[x].wmu] = "payload"
                     THEN /\ Len(str'[x].up) % 2 = 1
                          /\ str'[x].up[Len(str'[x].up)].by = str'[x].wmu
                     ELSE Len(str'[x].up) % 2 = 0
    <3> HIDE DEF u, w
    <3>1. str'[x].up = u /\ str'[x].wmu = w
      BY DEF u, w
    <3> QED
      BY <2>2, <2>3, <2>4, <3>1
  <2> QED
    BY <1>2, <2>1, <2>2, <2>5, <2>6 DEF FrameOf, Alternates
<1> QED
  BY <1>2 DEF FrameOf

\* wire.Write: a frame is written by one thread at a time, unless it is cut
\* short for good.
LEMMA StepFrames ==
  ASSUME Shape, Phases, Writers, Frames, Does
  PROVE  Frames'
<1> USE Shapes
<1>1. ASSUME NEW s, NEW F, Changes(s, F)
      PROVE  /\ Opened' = Opened /\ s \in Opened
             /\ \A x \in Opened \ {s} : Keeps(x, {})
  BY <1>1, SameOpened DEF Changes
<1>2. ASSUME Moves, Opened # {} PROVE Up' => Up
  BY <1>2 DEF Moves, Up
<1>3. ASSUME NEW x \in Opened, Keeps(x, {}), Up' => Up,
             str[x].wmu \in Thread /\ pc[str[x].wmu] \in FramePc /\ at[str[x].wmu] = x =>
               pc'[str[x].wmu] = pc[str[x].wmu] /\ at'[str[x].wmu] = at[str[x].wmu]
      PROVE  FrameOf(x)'
  <2>1. /\ str'[x].kind = str[x].kind /\ str'[x].up = str[x].up /\ str'[x].wmu = str[x].wmu
        /\ str'[x].hpc = str[x].hpc /\ (str[x].fin => str'[x].fin)
    BY <1>3 DEF Keeps, Watched
  <2> QED
    BY <1>3, <2>1, FrameKept
<1>4. CASE Rests
  <2>1. Opened' = Opened
    BY <1>4, SameOpened DEF Rests
  <2>2. ASSUME NEW x \in Opened PROVE FrameOf(x)'
    BY <1>2, <1>3, <1>4, <2>2 DEF Rests, Still
  <2> QED
    BY <2>1, <2>2 DEF Frames
<1>5. ASSUME NEW q, Opens(q) PROVE Frames'
  <2> PICK n : n = Len(str) + 1
    OBVIOUS
  <2>1. /\ Opened' = Opened \cup {n} /\ \A x \in Opened : str'[x] = str[x]
        /\ str'[n] = Stream(q)
    BY <1>5, OneOpened
  <2>2. str'[n].up = <<>> /\ str'[n].wmu = None
    BY <2>1, NewStream
  <2>3. FrameOf(n)'
    <3>1. /\ <<>> \in Seq(Part) /\ Len(<<>>) = 0 /\ 0 % 2 = 0
      OBVIOUS
    <3>2. Alternates(str'[n].up)
      BY <2>2 DEF Alternates
    <3> QED
      BY <2>2, <3>1, <3>2 DEF FrameOf, Alternates
  <2>4. ASSUME NEW x \in Opened PROVE FrameOf(x)'
    <3>1. str'[x] = str[x] /\ (Up' => Up)
      BY <1>5, <2>1 DEF Opens
    <3>2. Keeps(x, {})
      BY <3>1 DEF Keeps
    <3> QED
      BY <1>3, <1>5, <3>1, <3>2 DEF Opens, Still
  <2> QED
    BY <2>1, <2>3, <2>4 DEF Frames
<1>6. ASSUME NEW s, PumpEnds(s) PROVE Frames'
  <2>1. Opened' = Opened /\ s \in Opened /\ \A x \in Opened \ {s} : Keeps(x, {})
    BY <1>1, <1>6 DEF PumpEnds
  <2>2. (Up' => Up) /\ Still
    BY <1>2, <1>6, <2>1 DEF PumpEnds
  <2>3. ASSUME NEW x \in Opened \ {s} PROVE FrameOf(x)'
    BY <1>3, <2>1, <2>2, <2>3 DEF Still
  <2>4. FrameOf(s)'
    <3>1. /\ str'[s].kind = str[s].kind /\ str'[s].up = str[s].up
          /\ str'[s].wmu = str[s].wmu /\ str'[s].hpc = str[s].hpc
          /\ (str[s].fin => str'[s].fin)
      BY <1>6 DEF PumpEnds, Changes, Keeps, Watched
    <3> QED
      BY <2>1, <2>2, <3>1, FrameKept DEF Still
  <2> QED
    BY <2>1, <2>3, <2>4 DEF Frames
<1>7. ASSUME NEW s, NEW F, Changes(s, F), Served, FrameOf(s)' PROVE Frames'
  <2>1. Opened' = Opened /\ s \in Opened /\ \A x \in Opened \ {s} : Keeps(x, {})
    BY <1>1, <1>7
  <2>2. UNCHANGED <<pc, at>> /\ (Up' => Up)
    BY <1>7 DEF Served, connVars, Up
  <2>3. ASSUME NEW x \in Opened \ {s} PROVE FrameOf(x)'
    BY <1>3, <2>1, <2>2, <2>3
  <2> QED
    BY <1>7, <2>1, <2>3 DEF Frames
<1>8. ASSUME NEW s, HandlerEnds(s) PROVE Frames'
  <2>1. /\ Changes(s, {"hpc", "up"}) /\ Served /\ s \in Opened
        /\ str'[s].hpc = "done" /\ str'[s].up \in {<<>>, str[s].up}
    BY <1>8 DEF HandlerEnds, Changes
  <2>2. str'[s].kind = str[s].kind /\ str'[s].wmu = str[s].wmu /\ UNCHANGED <<pc, at>>
    BY <2>1 DEF Changes, Keeps, Watched, Served
  <2>3. FrameOf(s)'
    <3>1. FrameOf(s)
      BY <2>1 DEF Frames
    <3>2. ASSUME str[s].kind = "pty" PROVE str'[s].up \in Seq(Part) /\ Alternates(str'[s].up)
      <4>1. <<>> \in Seq(Part) /\ Alternates(<<>>)
        BY DEF Alternates
      <4>2. str[s].up \in Seq(Part) /\ Alternates(str[s].up)
        BY <3>1, <3>2 DEF FrameOf
      <4>3. CASE str'[s].up = <<>>
        BY <4>1, <4>3 DEF Alternates
      <4>4. CASE str'[s].up = str[s].up
        BY <4>2, <4>4 DEF Alternates
      <4> QED
        BY <2>1, <4>3, <4>4
    <3>3. ~Flows(s)'
      BY <2>1 DEF Flows
    <3> QED
      BY <2>2, <3>1, <3>2, <3>3 DEF FrameOf, Alternates
  <2> QED
    BY <1>7, <2>1, <2>3
<1>9. ASSUME NEW s, Attaches(s) \/ Acks(s) PROVE Frames'
  <2>1. /\ \E F : Changes(s, F)
        /\ Served /\ s \in Opened /\ str[s].hpc # "done"
    BY <1>9 DEF Attaches, Acks, Changes
  <2>2. /\ str'[s].kind = str[s].kind /\ str'[s].wmu = str[s].wmu /\ str'[s].up = str[s].up
        /\ (str[s].fin => str'[s].fin)
    BY <1>9 DEF Attaches, Acks, Changes, Keeps, Watched
  <2>3. UNCHANGED <<pc, at>> /\ (Up' => Up)
    BY <2>1 DEF Served, connVars, Up
  <2>4. FrameOf(s)'
    BY <2>1, <2>2, <2>3, FrameKept
  <2> QED
    BY <1>7, <2>1, <2>4
<1>10. ASSUME NEW s, TakesFrame(s) PROVE Frames'
  <2>1. /\ Changes(s, {"up"}) /\ Served /\ s \in Opened
        /\ Len(str[s].up) >= 2 /\ str'[s].up = Tail(Tail(str[s].up))
    BY <1>10 DEF TakesFrame, Changes
  <2>2. /\ str'[s].kind = str[s].kind /\ str'[s].wmu = str[s].wmu /\ str'[s].hpc = str[s].hpc
        /\ (str[s].fin => str'[s].fin) /\ UNCHANGED <<pc, at>> /\ (Up' => Up)
    BY <2>1 DEF Changes, Keeps, Watched, Served, connVars, Up
  <2>3. FrameOf(s)'
    <3> DEFINE u == str[s].up
               v == str'[s].up
               w == str[s].wmu
    <3>1. FrameOf(s)
      BY <2>1 DEF Frames
    <3>2. ASSUME str[s].kind = "pty" PROVE FrameOf(s)'
      <4>1. /\ u \in Seq(Part) /\ Alternates(u)
            /\ w # None => w \in Thread /\ at[w] = s /\ pc[w] \in FramePc
            /\ Flows(s) => IF w # None /\ pc[w] = "payload"
                           THEN Len(u) % 2 = 1 /\ u[Len(u)].by = w ELSE Len(u) % 2 = 0
        BY <3>1, <3>2 DEF FrameOf
      <4>2. /\ v \in Seq(Part) /\ Alternates(v) /\ Len(v) % 2 = Len(u) % 2
            /\ Len(u) % 2 = 1 => v[Len(v)] = u[Len(u)]
        BY <2>1, <4>1, TailAlternates
      <4>3. Flows(s)' => Flows(s)
        BY <2>2 DEF Flows
      <4>4. Flows(s)' => IF str'[s].wmu # None /\ pc'[str'[s].wmu] = "payload"
                         THEN Len(v) % 2 = 1 /\ v[Len(v)].by = str'[s].wmu
                         ELSE Len(v) % 2 = 0
        BY <2>2, <4>1, <4>2, <4>3
      <4> QED
        BY <2>2, <4>1, <4>2, <4>4 DEF FrameOf, Alternates
    <3> QED
      BY <2>2, <3>2 DEF FrameOf
  <2> QED
    BY <1>7, <2>1, <2>3
<1>11. ASSUME NEW t \in Thread, NEW s, s = at[t], NEW F, Changes(s, F), UNCHANGED connVars,
              \A u \in Caller \ {t} : pc'[u] = pc[u] /\ at'[u] = at[u],
              FrameOf(s)'
       PROVE  Frames'
  <2>1. Opened' = Opened /\ s \in Opened /\ \A x \in Opened \ {s} : Keeps(x, {})
    BY <1>1, <1>11
  <2>2. Up' => Up
    BY <1>11 DEF connVars, Up
  <2>3. ASSUME NEW x \in Opened \ {s} PROVE FrameOf(x)'
    BY <1>3, <1>11, <2>1, <2>2, <2>3
  <2> QED
    BY <1>11, <2>1, <2>3 DEF Frames
<1>12. ASSUME NEW t \in Thread, Locks(t) PROVE Frames'
  <2> PICK s : s = at[t]
    OBVIOUS
  <2>1. /\ pc[t] = "lock" /\ str[s].wmu = None /\ Changes(s, {"wmu"}) /\ str'[s].wmu = t
        /\ UNCHANGED connVars /\ Go(t, "length", s) /\ t \in Caller
    BY <1>12 DEF Locks
  <2>2. /\ s \in Opened /\ str'[s].kind = str[s].kind /\ str'[s].up = str[s].up
        /\ str'[s].hpc = str[s].hpc /\ (str[s].fin => str'[s].fin)
    BY <2>1 DEF Changes, Keeps, Watched
  <2>3. /\ pc'[t] = "length" /\ at'[t] = s
        /\ \A u \in Caller \ {t} : pc'[u] = pc[u] /\ at'[u] = at[u]
    BY <2>1 DEF Go
  <2>4. FrameOf(s)'
    <3>1. FrameOf(s) /\ (Flows(s)' => Flows(s))
      BY <2>1, <2>2 DEF Frames, Flows, connVars, Up
    <3>2. ASSUME str[s].kind = "pty"
          PROVE  /\ str[s].up \in Seq(Part) /\ Alternates(str[s].up)
                 /\ Flows(s) => Len(str[s].up) % 2 = 0
      BY <2>1, <3>1, <3>2 DEF FrameOf
    <3>3. Flows(s)' => Flows(s)
      BY <3>1
    <3>4. "length" \in FramePc /\ pc'[t] # "payload"
      BY <2>3 DEF FramePc
    <3> QED
      BY <2>1, <2>2, <2>3, <3>2, <3>3, <3>4, FrameIs
  <2> QED
    BY <1>11, <2>1, <2>3, <2>4
<1>13. ASSUME NEW t \in Thread, GivesUp(t) PROVE Frames'
  <2> PICK s : s = at[t]
    OBVIOUS
  <2>1. /\ ~Up \/ str[s].fin
        /\ Changes(s, {"wmu"}) /\ str'[s].wmu = None /\ UNCHANGED connVars /\ Return(t)
    BY <1>13 DEF GivesUp
  <2>2. /\ s \in Opened /\ str'[s].kind = str[s].kind /\ str'[s].up = str[s].up
        /\ (str[s].fin => str'[s].fin)
    BY <2>1 DEF Changes, Keeps, Watched
  <2>3. \A u \in Caller \ {t} : pc'[u] = pc[u] /\ at'[u] = at[u]
    BY <2>1 DEF Return, Go
  <2>4. FrameOf(s)'
    <3>1. FrameOf(s) /\ ~Flows(s)'
      BY <2>1, <2>2 DEF Frames, Flows, connVars, Up
    <3>2. str[s].kind = "pty" => str[s].up \in Seq(Part) /\ Alternates(str[s].up)
      BY <3>1 DEF FrameOf
    <3> QED
      BY <2>1, <2>2, <3>1, <3>2, FrameIs
  <2> QED
    BY <1>11, <2>1, <2>3, <2>4
<1>14. ASSUME NEW t \in Thread, Puts(t) PROVE Frames'
  <2> PICK s : s = at[t]
    OBVIOUS
  <2> DEFINE u == str[s].up
             part == [part |-> pc[t], by |-> t]
  <2>1. /\ pc[t] \in FramePc /\ Up /\ ~str[s].fin /\ Changes(s, {"up", "wmu"})
        /\ str'[s].up = (IF str[s].hpc = "done" THEN u ELSE Append(u, part))
        /\ IF pc[t] = "payload" THEN str'[s].wmu = None /\ Return(t)
           ELSE str'[s].wmu = str[s].wmu /\ Go(t, "payload", s)
        /\ UNCHANGED connVars /\ t \in Caller
    BY <1>14 DEF Puts
  <2>2. /\ s \in Opened /\ str[s].kind = "pty" /\ str[s].wmu = t
        /\ str'[s].kind = "pty" /\ str'[s].hpc = str[s].hpc
    <3>1. s \in PtyStrs /\ str[s].wmu = t
      BY <2>1 DEF Writers, WriterOf
    <3> QED
      BY <2>1, <3>1 DEF PtyStrs, Changes, Keeps, Watched
  <2>3. /\ u \in Seq(Part) /\ Alternates(u)
        /\ Flows(s) => IF pc[t] = "payload" THEN Len(u) % 2 = 1 /\ u[Len(u)].by = t
                       ELSE Len(u) % 2 = 0
    BY <2>2 DEF Frames, FrameOf
  <2>4. /\ \A v \in Caller \ {t} : pc'[v] = pc[v] /\ at'[v] = at[v]
        /\ pc[t] # "payload" => pc'[t] = "payload" /\ at'[t] = s
    BY <2>1 DEF Return, Go
  <2>5. FrameOf(s)'
    <3>1. CASE str[s].hpc = "done"
      <4>1. str'[s].up = u /\ ~Flows(s)'
        BY <2>1, <2>2, <3>1 DEF Flows
      <4>2. str'[s].wmu # None => str'[s].wmu = t /\ at'[t] = s /\ pc'[t] \in FramePc
        BY <2>1, <2>2, <2>4 DEF FramePc
      <4> QED
        BY <2>2, <2>3, <4>1, <4>2, FrameIs
    <3>2. CASE str[s].hpc # "done"
      <4>1. Flows(s) /\ str'[s].up = Append(u, part) /\ Len(u) \in Nat
        BY <2>1, <2>3, <3>2, LenProperties DEF Flows
      <4>2. part \in Part /\ part.part = pc[t] /\ part.by = t
        BY <2>1 DEF Part
      <4>3. /\ pc[t] = IF Len(u) % 2 = 0 THEN "length" ELSE "payload"
            /\ Len(u) % 2 = 1 => u[Len(u)].by = t
        <5>1. pc[t] = "length" \/ pc[t] = "payload"
          BY <2>1 DEF FramePc
        <5>2. CASE pc[t] = "length"
          <6>1. ~(pc[t] = "payload")
            BY <5>2
          <6>2. Len(u) % 2 = 0
            BY <2>3, <4>1, <6>1, Zenon
          <6>3. ~(Len(u) % 2 = 1)
            BY <6>2
          <6> QED
            BY <5>2, <6>2, <6>3, Zenon
        <5>3. CASE pc[t] = "payload"
          <6>1. Len(u) % 2 = 1 /\ u[Len(u)].by = t
            BY <2>3, <4>1, <5>3, Zenon
          <6>2. Len(u) % 2 = 1
            BY <6>1, Zenon
          <6>3. ~(Len(u) % 2 = 0)
            BY <6>2
          <6> QED
            BY <5>3, <6>1, <6>3, Zenon
        <5> QED
          BY <5>1, <5>2, <5>3
      <4> HIDE DEF part, u
      <4>4. /\ Append(u, part) \in Seq(Part) /\ Alternates(Append(u, part))
            /\ Len(Append(u, part)) = Len(u) + 1
            /\ Append(u, part)[Len(u) + 1] = part
        BY <2>3, <4>2, <4>3, AppendAlternates
      <4>5. (Len(u) + 1) % 2 = 1 - (Len(u) % 2) /\ Len(u) % 2 \in {0, 1}
        BY <4>1, Parity
      <4>6. CASE pc[t] = "payload"
        <5>1. str'[s].wmu = None
          BY <2>1, <4>6
        <5>2. ~(Len(u) % 2 = 0)
          <6>1. ~(pc[t] = "length")
            BY <4>6
          <6> QED
            BY <4>3, <6>1, Zenon
        <5>3. (Len(u) + 1) % 2 = 0
          BY <4>5, <5>2
        <5>4. Len(str'[s].up) % 2 = 0
          BY <4>1, <4>4, <5>3, Zenon
        <5> QED
          BY <2>2, <4>1, <4>4, <5>1, <5>4, FrameIs
      <4>7. CASE pc[t] = "length"
        <5>1. Len(u) % 2 = 0
          <6>1. ~(pc[t] = "payload")
            BY <4>7
          <6> QED
            BY <4>3, <6>1, Zenon
        <5>2. (Len(u) + 1) % 2 = 1
          BY <4>5, <5>1
        <5>3. str'[s].wmu = t /\ at'[t] = s /\ pc'[t] = "payload"
          BY <2>1, <2>2, <2>4, <4>7
        <5>4. Len(str'[s].up) = Len(u) + 1 /\ str'[s].up[Len(u) + 1] = part
          BY <4>1, <4>4, Zenon
        <5>5. Len(str'[s].up) % 2 = 1 /\ str'[s].up[Len(str'[s].up)].by = t
          BY <4>2, <5>2, <5>4, Zenon
        <5>6. pc'[t] \in FramePc
          BY <5>3 DEF FramePc
        <5>7. str'[s].up \in Seq(Part) /\ Alternates(str'[s].up)
          BY <4>1, <4>4, Zenon
        <5>8. str'[s].kind = "pty" /\ t \in Thread
          BY <2>2, <4>2 DEF Part
        <5> QED
          BY <5>3, <5>5, <5>6, <5>7, <5>8, FrameIs
      <4> QED
        BY <2>1, <4>6, <4>7 DEF FramePc
    <3> QED
      BY <3>1, <3>2
  <2> QED
    BY <1>11, <2>1, <2>4, <2>5
<1> QED
  BY <1>4, <1>5, <1>6, <1>8, <1>9, <1>10, <1>12, <1>13, <1>14 DEF Does

-----------------------------------------------------------------------------
(* The theorems.                                                           *)

\* At first there is no stream, and no thread is in a call.
LEMMA InitInv == Init => IInv
<1> SUFFICES ASSUME Init PROVE IInv
  OBVIOUS
<1>1. str = <<>> /\ Opened = {}
  BY DEF Init, Opened
<1>2. app \in App /\ app.streams \in Nat
  BY ClientAssumption DEF Init
<1>3. Shape
  BY <1>1, <1>2 DEF Shape, Init
<1>4. Writers
  BY DEF Writers, WriterOf, FramePc, Init
<1> QED
  BY <1>1, <1>3, <1>4 DEF IInv, Phases, Exits, Tabs, Frames

\* Every step keeps the invariant.
LEMMA NextInv ==
  ASSUME IInv, [Next]_vars
  PROVE  IInv'
<1>1. Does
  BY NextDoes DEF IInv
<1>2. Shape' /\ Phases' /\ Exits'
  BY <1>1, StepShape, StepPhases, StepExits DEF IInv
<1>3. Tabs' /\ Writers' /\ Frames'
  BY <1>1, StepTabs, StepWriters, StepFrames DEF IInv
<1> QED
  BY <1>2, <1>3 DEF IInv

\* The inductive invariant holds in every reachable state.
THEOREM ClientInv == Spec => []IInv
BY InitInv, NextInv, PTL DEF Spec

\* PTYSession.pump and runPTY: whatever ends a PTY first, OnExit is called once,
\* and never while the pump still reads.
THEOREM OnExitOnce == Spec => []ExitOnce
<1>1. IInv => ExitOnce
  BY DEF IInv, Exits, ExitsOf, ExitOnce, PtyStrs
<1> QED
  BY <1>1, ClientInv, PTL

\* wire.Write under PTYSession.writeMu: however many threads write to a PTY and
\* whenever it is closed, the host reads the payload of each frame after its
\* own length.
THEOREM NoTornFrame == Spec => []FramesWhole
<1>1. IInv => FramesWhole
  <2> SUFFICES ASSUME IInv, NEW s \in PtyStrs, NEW i \in 1 .. Len(str[s].up)
               PROVE  str[s].up[i] =
                        [part |-> IF i % 2 = 1 THEN "length" ELSE "payload",
                         by |-> str[s].up[IF i % 2 = 1 THEN i ELSE i - 1].by]
    BY DEF FramesWhole
  <2> DEFINE u == str[s].up
  <2>1. u \in Seq(Part) /\ Alternates(u)
    BY DEF IInv, Frames, FrameOf, PtyStrs
  <2> HIDE DEF u
  <2>2. i \in 1 .. Len(u)
    BY DEF u
  <2>3. u[i] \in Part
    BY <2>1, <2>2, LenProperties
  <2>4. u[i] = [part |-> u[i].part, by |-> u[i].by]
    BY <2>3 DEF Part
  <2>5. /\ u[i].part = IF i % 2 = 1 THEN "length" ELSE "payload"
        /\ i % 2 = 0 => u[i].by = u[i - 1].by
    BY <2>1, <2>2 DEF Alternates
  <2>6. i % 2 \in {0, 1}
    BY <2>1, <2>2, LenProperties, Parity
  <2>7. u[i].by = u[IF i % 2 = 1 THEN i ELSE i - 1].by
    BY <2>5, <2>6
  <2> QED
    BY <2>4, <2>5, <2>7 DEF u
<1> QED
  BY <1>1, ClientInv, PTL

\* ptyRegistry and Session.nextPTYID: with any number of tabs that open,
\* reattach to common shells and close in any order, a tab that is served is
\* answered from its own shell.
THEOREM TabServed == Spec => []TabHasItsShell
<1>1. IInv => TabHasItsShell
  BY DEF IInv, Tabs, TabOf, TabHasItsShell, PtyStrs
<1> QED
  BY <1>1, ClientInv, PTL
=============================================================================
