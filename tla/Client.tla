------------------------------- MODULE Client -------------------------------
(***************************************************************************)
(* The two programs that use a host: mobile-core (Session, PTYSession) and *)
(* peersh-cli (connection, REPL, picker, PTY mode), over one QUIC          *)
(* connection, with the side of peershd that answers on its streams        *)
(* (serveStream, servePTYStream, serveFilesStream, ptyRegistry).           *)
(*                                                                         *)
(* A stream is the number it was opened with.  wire.Write makes two writes *)
(* of a frame, its length and its payload, so a frame that several threads *)
(* may write is two elements of a stream; what is written by one thread    *)
(* before the stream is shared (the request) is one step.  A shell is the  *)
(* PTY and its handle.  PtyHost and ExecHost have what the host does       *)
(* behind a stream: here a shell prints, exits and is attached in one      *)
(* step, and a command answers, fails or goes on for ever.                 *)
(***************************************************************************)
EXTENDS Naturals, Sequences, FiniteSets

CONSTANTS
  App,        \* programs that may run: prog is "mobile", or the mode that
              \* peersh-cli is started in; pwsh, whether the host has PowerShell;
              \* streams, writes and output bound the streams opened, frames
              \* written and chunks printed
  Thread,     \* callers of mobile-core; the goroutines that send for runPTY
  Main,       \* the main goroutine of peersh-cli
  Shell,      \* PTYs that can ever be opened on the host
  None,
  Attempts,   \* negotiations before peersh-cli gives up (5)
  Reply       \* the candidates that the host may reply with, in its order

Mode == {"repl", "list", "new", "reattach", "picker", "login"}

ASSUME ClientAssumption ==
  /\ App \subseteq [prog : {"mobile"} \cup Mode, pwsh : BOOLEAN,
                    streams : Nat, writes : Nat, output : Nat]
  /\ Main \notin Thread /\ None \notin Thread \cup Shell \cup {Main}
  /\ Attempts \in Nat \ {0}
  /\ Reply \subseteq Seq([type : {"srflx", "host", "other"}, v6 : BOOLEAN, parses : BOOLEAN])

VARIABLES
  app,        \* the program that runs
  phase,      \* of the connection, at the client
  tries,      \* negotiations made so far
  todo,       \* the candidates that are left to dial
  cancelled,  \* the context of peersh-cli
  mu,         \* holder of Session.mu
  lastID,     \* Session.lastPTYID
  pc, at,     \* control point of a thread, and the stream it works on
  str,        \* the streams
  alive,      \* shells that the Manager of the host holds
  born,       \* shells ever opened, by this connection or before it
  reg,        \* ptyRegistry of the connection
  shown,      \* the last answer to a list request
  writes, printed

connVars == <<app, phase, tries, todo, cancelled>>
sessVars == <<mu, lastID, shown>>
hostVars == <<alive, born, reg>>
envVars  == <<writes, printed>>
vars     == <<connVars, sessVars, pc, at, str, hostVars, envVars>>

Caller == Thread \cup {Main}
Cli == app.prog # "mobile"

\* Neither end has closed the connection, and it has not timed out ("lost").
Up == phase = "up"

\* A stream opened for request q.  up and down are what is on its way to
\* the host and to the client.
Stream(q) ==
  [kind |-> q.kind, id |-> q.id, want |-> q.want,
   up |-> <<>>, fin |-> FALSE, down |-> <<>>, hfin |-> FALSE,
   hpc |-> "new", shell |-> None, wmu |-> None, closed |-> FALSE,
   pump |-> IF q.kind = "pty" THEN "reading" ELSE "off",
   exits |-> 0, res |-> "none", ran |-> FALSE]

Req(k, i, w) == [kind |-> k, id |-> i, want |-> w]

Opened  == DOMAIN str
MaxStream == CHOOSE n \in {a.streams : a \in App} : \A a \in App : a.streams <= n
PtyStrs == {s \in Opened : str[s].kind = "pty"}
Bound(sh) == {s \in PtyStrs : str[s].shell = sh /\ str[s].hpc \in {"attached", "reading"}}

Init ==
  /\ app \in App
  /\ phase = "start" /\ tries = 0 /\ todo = <<>> /\ cancelled = FALSE
  /\ mu = None /\ lastID = 0 /\ shown = {}
  /\ pc = [t \in Caller |-> "idle"] /\ at = [t \in Caller |-> 0]
  /\ str = <<>>
  /\ born \in SUBSET Shell /\ alive \in SUBSET born
  /\ reg = [i \in 0 .. app.streams |-> None]
  /\ writes = 0 /\ printed = 0

-----------------------------------------------------------------------------
(* Connecting.  The negotiation of mobile-core is in Rendezvous; here it    *)
(* dials an address it is given.  An error ends the attempt.                *)

Phase(p, n) == phase' = p /\ tries' = n /\ UNCHANGED <<app, cancelled>>
KeepRest == UNCHANGED <<sessVars, pc, at, str, hostVars, envVars>>

\* From phase p on to one of Q, or the attempt fails.
Advance(p, Q) ==
  /\ phase = p
  /\ \E q \in Q \cup {"closed"} : Phase(q, 0)
  /\ UNCHANGED todo /\ KeepRest

\* peersh-cli: the socket; -firebase-login-only needs none, and -addr no
\* STUN.  -stun may be empty.
Start ==
  Cli /\ Advance("start", IF app.prog = "login" THEN {"token"} ELSE {"stun", "key", "direct"})

\* The query of the STUN server: it may fail, and is then done without.
Discover == phase = "stun" /\ Phase("key", 0) /\ UNCHANGED todo /\ KeepRest

\* The key, and the mode: a token has to be got, or the secret is at hand.
Key == Advance("key", {"token", "negotiate"})

\* The first token.  -firebase-login-only ends here.
FirstToken ==
  Advance("token", IF app.prog = "login" THEN {} ELSE {"hosts", "negotiate"})

\* The hosts registered in the database, when there is no -target.
ListHosts == Advance("hosts", {"choose"})

\* The only host, or the one that the operator chooses.
PickHost == Advance("choose", {"negotiate"})

\* SRFLX before HOST before the others, and IPv6 before IPv4.
Rank(c) ==
  (CASE c.type = "srflx" -> 0 [] c.type = "host" -> 2 [] OTHER -> 4) + (IF c.v6 THEN 0 ELSE 1)

\* A stable sort: the candidates of each rank in the order they came in.
SortCandidates(cs) ==
  LET Of(k) == SelectSeq(cs, LAMBDA c : Rank(c) = k)
  IN  Of(0) \o Of(1) \o Of(2) \o Of(3) \o Of(4) \o Of(5)

\* What is not an address is left out.
CandidatesToUDPAddrs(cs) == SelectSeq(cs, LAMBDA c : c.parses)

\* target_unknown is tried again after a pause; any other error is final,
\* and so is a reply without candidates.
Negotiate ==
  /\ phase = "negotiate"
  /\ \/ /\ ~cancelled
        /\ \E cs \in Reply :
             /\ todo' = CandidatesToUDPAddrs(SortCandidates(cs))
             /\ Phase(IF cs = <<>> THEN "closed" ELSE "punch", 0)
     \/ ~cancelled /\ tries + 1 < Attempts /\ Phase("negotiate", tries + 1) /\ UNCHANGED todo
     \/ Phase("closed", 0) /\ UNCHANGED todo
  /\ KeepRest

\* The burst of packets: a write that fails and a cancelled context are
\* only logged.
Punch == phase = "punch" /\ Phase("dial", 0) /\ UNCHANGED todo /\ KeepRest

\* The candidates are dialled in order.
Dial ==
  /\ phase = "dial"
  /\ \/ todo # <<>> /\ ~cancelled /\ Phase("hello", 0) /\ todo' = <<>>
     \/ todo # <<>> /\ Phase("dial", 0) /\ todo' = Tail(todo)
     \/ todo = <<>> /\ Phase("closed", 0) /\ UNCHANGED todo
  /\ KeepRest

\* The same for one address: -addr, and openDirectInternal.
DialDirect == Advance(IF Cli THEN "direct" ELSE "start", {"hello"})

\* ClientHello, ServerHello and the protocol version.
Handshake == Cli /\ Advance("hello", {"up"})
DoHello == ~Cli /\ Advance("hello", {"up"})

\* The idle timeout of QUIC: both ends learn that the connection is gone.
NetLost == phase = "up" /\ Phase("lost", 0) /\ UNCHANGED todo /\ KeepRest

\* SIGINT or SIGTERM: only the context is cancelled.
Interrupt ==
  /\ Cli /\ phase # "closed" /\ ~cancelled /\ cancelled' = TRUE
  /\ UNCHANGED <<app, phase, tries, todo>> /\ KeepRest

\* Session.Close: the context, the connection and the socket.
SessionClose ==
  /\ ~Cli /\ phase \in {"up", "lost"} /\ Phase("closed", 0) /\ UNCHANGED todo /\ KeepRest

-----------------------------------------------------------------------------
(* One request and its answer.                                              *)

Go(t, p, s) == pc' = [pc EXCEPT ![t] = p] /\ at' = [at EXCEPT ![t] = s]
Return(t) == Go(t, "idle", 0)
KeepConn == UNCHANGED connVars
CliEnds(b) ==
  /\ phase' = IF Cli /\ b THEN "closed" ELSE phase
  /\ UNCHANGED <<app, tries, todo, cancelled>>
Ready(t, p) == pc[t] = p /\ phase \in {"up", "lost"}

\* OpenStream, and the request is written on the new stream; or one of the
\* two fails.
Open(t, q, p) ==
  /\ Up /\ ~cancelled /\ Len(str) < app.streams
  /\ str' = Append(str, Stream(q))
  /\ Go(t, p, Len(str) + 1)

OpenFails(t) == (~Up \/ cancelled) /\ Return(t) /\ UNCHANGED str

\* A request whose failure the caller survives.
Ask(t, q, p) ==
  /\ Open(t, q, p) \/ OpenFails(t)
  /\ KeepConn /\ UNCHANGED <<sessVars, hostVars, envVars>>

\* Session.Exec holds Session.mu to its end.
Exec(t) ==
  /\ ~Cli /\ Ready(t, "idle") /\ mu = None /\ mu' = t
  /\ Go(t, "execopen", 0)
  /\ KeepConn /\ UNCHANGED <<lastID, shown, str, hostVars, envVars>>

Unlock(t) == mu' = IF mu = t THEN None ELSE mu

ExecOpen(t) ==
  /\ pc[t] = "execopen"
  /\ \/ Open(t, Req("exec", 0, None), "exec") /\ UNCHANGED mu
     \/ OpenFails(t) /\ Unlock(t)
  /\ KeepConn /\ UNCHANGED <<lastID, shown, hostVars, envVars>>

\* A line of the REPL.
RunOnce ==
  app.prog = "repl" /\ Ready(Main, "idle") /\ Ask(Main, Req("exec", 0, None), "exec")

\* One response.  A stream that ends without Done is a clean end.
ExecRead(t) ==
  LET s == at[t]
      d == str[s].down
      End(r) == /\ str' = [str EXCEPT ![s].res = r, ![s].fin = TRUE, ![s].down = <<>>]
                /\ Unlock(t) /\ Return(t)
  IN
  /\ pc[t] = "exec"
  /\ \/ Up /\ d # <<>> /\ Head(d) = "out"
        /\ str' = [str EXCEPT ![s].down = Tail(d)] /\ UNCHANGED <<mu, pc, at>>
     \/ Up /\ d # <<>> /\ Head(d) = "done" /\ End("ok")
     \/ Up /\ d = <<>> /\ str[s].hfin /\ End("ok")
     \/ ~Up /\ End("error")
  /\ KeepConn /\ UNCHANGED <<lastID, shown, hostVars, envVars>>

\* Session.ListPTYs and Session.KillPTY, of a handle that was listed.
ListPTYs(t) == ~Cli /\ Ready(t, "idle") /\ Ask(t, Req("list", 0, None), "file")

KillPTY(t) ==
  /\ ~Cli /\ Ready(t, "idle")
  /\ \E sh \in shown : Ask(t, Req("kill", 0, sh), "file")

\* GetCWD, ListSessionFiles and ReadSessionFile name the tab by its id.
TabCall(t) ==
  /\ ~Cli /\ Ready(t, "idle")
  /\ \E i \in 1 .. lastID : Ask(t, Req("tab", i, None), "file")

\* The list of -pty-list and of the picker: without it the program ends.
CliList ==
  /\ app.prog \in {"list", "picker"} /\ Ready(Main, "idle") /\ PtyStrs = {}
  /\ \/ Open(Main, Req("list", 0, None), "file") /\ CliEnds(FALSE)
     \/ OpenFails(Main) /\ CliEnds(TRUE)
  /\ UNCHANGED <<sessVars, hostVars, envVars>>

\* [X<n>] at the prompt of the picker; an error is only printed.
CliKill ==
  /\ Ready(Main, "prompt")
  /\ \E sh \in shown : Ask(Main, Req("kill", 0, sh), "file")

\* [R]efresh, an empty line, or one that makes no sense.
Refresh ==
  /\ Ready(Main, "prompt") /\ Return(Main)
  /\ KeepConn /\ UNCHANGED <<sessVars, str, hostVars, envVars>>

\* One response is read and the stream is closed.
FileRead(t) ==
  LET s == at[t]
      list == str[s].kind = "list"
      ok == Up /\ str[s].down # <<>>
  IN
  /\ pc[t] = "file" /\ (ok \/ ~Up)
  /\ shown' = IF ok /\ list THEN Head(str[s].down) ELSE shown
  /\ str' = [str EXCEPT ![s].fin = TRUE, ![s].down = <<>>]
  /\ Go(t, IF ok /\ list /\ app.prog = "picker" THEN "prompt" ELSE "idle", 0)
  /\ CliEnds(list /\ (app.prog = "list" \/ ~ok))
  /\ UNCHANGED <<mu, lastID, hostVars, envVars>>

\* exit, quit or the end of the input; [Q]uit.
Quit ==
  /\ \/ app.prog = "repl" /\ Ready(Main, "idle")
     \/ Ready(Main, "prompt")
  /\ Return(Main) /\ CliEnds(TRUE)
  /\ UNCHANGED <<sessVars, str, hostVars, envVars>>

-----------------------------------------------------------------------------
(* Opening a PTY.                                                           *)

\* Mutation of NextID: the counter is read and not advanced.
NextIDSame == mu = None /\ lastID' = 1 /\ UNCHANGED <<mu, shown>>

\* Session.nextPTYID takes the lock that Exec holds.
NextID == mu = None /\ lastID' = lastID + 1 /\ UNCHANGED <<mu, shown>>

\* OpenPTY, and OpenPTYReattach with a handle that the app has kept.
OpenPTY(t) ==
  /\ ~Cli /\ Ready(t, "idle") /\ lastID < app.streams
  /\ NextID
  /\ \/ \E want \in {None} \cup born : Open(t, Req("pty", lastID', want), "idle")
     \/ OpenFails(t)
  /\ KeepConn /\ UNCHANGED <<hostVars, envVars>>

\* dispatchPTY: what peersh-cli asks for, a new shell (None) or a handle.
Dispatch ==
  CASE app.prog = "reattach" -> Shell
    [] app.prog = "new"      -> {None}
    [] app.prog = "picker" /\ pc[Main] = "prompt" -> {None} \cup shown
    [] OTHER -> {}

\* runPTY sends no id, and ends the program when the stream is over.
RunPTY ==
  /\ \E p \in {"idle", "prompt"} : Ready(Main, p)
  /\ PtyStrs = {}
  /\ \E want \in Dispatch :
       \/ Open(Main, Req("pty", 0, want), "wait") /\ CliEnds(FALSE)
       \/ OpenFails(Main) /\ CliEnds(TRUE)
  /\ UNCHANGED <<sessVars, hostVars, envVars>>

-----------------------------------------------------------------------------
(* PTYSession: Write, Resize and SendNotificationConfig, Close, pump.       *)

\* p.closed is checked under p.mu, which is released before writeMu is
\* taken.
Write(t) ==
  /\ ~Cli /\ Ready(t, "idle") /\ writes < app.writes /\ writes' = writes + 1
  /\ \E s \in PtyStrs : ~str[s].closed /\ Go(t, "lock", s)
  /\ KeepConn /\ UNCHANGED <<sessVars, str, hostVars, printed>>

\* The goroutines of runPTY for what is typed and for resizes.
Send(t) ==
  /\ Cli /\ Ready(t, "idle") /\ writes < app.writes /\ writes' = writes + 1
  /\ \E s \in PtyStrs : Go(t, "lock", s)
  /\ KeepConn /\ UNCHANGED <<sessVars, str, hostVars, printed>>

\* Mutation of WriteLock: the lock is not taken.
WriteLockNot(t) ==
  /\ pc[t] = "lock"
  /\ Go(t, "length", at[t])
  /\ KeepConn /\ UNCHANGED <<sessVars, str, hostVars, envVars>>

WriteLock(t) ==
  LET s == at[t] IN
  /\ pc[t] = "lock" /\ str[s].wmu = None
  /\ str' = [str EXCEPT ![s].wmu = t]
  /\ Go(t, "length", s)
  /\ KeepConn /\ UNCHANGED <<sessVars, hostVars, envVars>>

\* wire.Write: the length, then the payload.  A write to a stream that is
\* closed fails, and the rest of the frame is not written.  What the host
\* will not read any more is dropped.
WirePart(t) ==
  LET s == at[t]
      part == [part |-> pc[t], by |-> t]
      last == pc[t] = "payload"
  IN
  /\ pc[t] \in {"length", "payload"}
  /\ \/ /\ Up /\ ~str[s].fin
        /\ str' = [str EXCEPT ![s].up = IF str[s].hpc = "done" THEN @ ELSE Append(@, part),
                              ![s].wmu = IF last THEN None ELSE @]
        /\ IF last THEN Return(t) ELSE Go(t, "payload", s)
     \/ /\ ~Up \/ str[s].fin
        /\ str' = [str EXCEPT ![s].wmu = None]
        /\ Return(t)
  /\ KeepConn /\ UNCHANGED <<sessVars, hostVars, envVars>>

\* Mutation of PtyClose: the pump is awaited before the stream is closed.
PtyCloseWaits(t) ==
  /\ ~Cli /\ pc[t] = "idle"
  /\ \E s \in PtyStrs :
       /\ ~str[s].closed
       /\ str' = [str EXCEPT ![s].closed = TRUE]
       /\ Go(t, "join", s)
  /\ KeepConn /\ UNCHANGED <<sessVars, hostVars, envVars>>

\* Close sets p.closed, closes the write side and waits for the pump.
PtyClose(t) ==
  /\ ~Cli /\ pc[t] = "idle"
  /\ \E s \in PtyStrs :
       /\ ~str[s].closed
       /\ str' = [str EXCEPT ![s].closed = TRUE, ![s].fin = TRUE]
       /\ Go(t, "join", s)
  /\ KeepConn /\ UNCHANGED <<sessVars, hostVars, envVars>>

Join(t) ==
  /\ pc[t] = "join" /\ str[at[t]].pump = "done"
  /\ Return(t)
  /\ KeepConn /\ UNCHANGED <<sessVars, str, hostVars, envVars>>

\* OnExit is called, and the pump returns.
PumpDone(s) ==
  str' = [str EXCEPT ![s].down = <<>>, ![s].pump = "done", ![s].exits = @ + 1]

Reading(s) == s \in PtyStrs /\ str[s].pump = "reading"
Over(s) == ~Up \/ (str[s].down = <<>> /\ str[s].hfin)
KeepAll == UNCHANGED <<connVars, sessVars, pc, at, hostVars, envVars>>

\* Mutation of Pump: after a refusal the pump reads on.
PumpReadsOn(s) ==
  LET d == str[s].down IN
  /\ ~Cli /\ Reading(s) /\ Up /\ d # <<>>
  /\ IF Head(d) = "exit" THEN PumpDone(s)
     ELSE str' = [str EXCEPT ![s].down = Tail(d),
                             ![s].exits = @ + IF Head(d) = "refused" THEN 1 ELSE 0]
  /\ KeepAll

\* One frame: an acknowledgement or data, or one that ends the stream.
Pump(s) ==
  LET d == str[s].down IN
  /\ ~Cli /\ Reading(s) /\ Up /\ d # <<>>
  /\ \/ Head(d) \in {"refused", "exit"} /\ PumpDone(s)
     \/ Head(d) \in {"ack", "data"} /\ str' = [str EXCEPT ![s].down = Tail(d)]
  /\ KeepAll

\* Mutation of PumpFails: an error of the connection is read past.
PumpFailsNot(s) ==
  /\ ~Cli /\ Reading(s) /\ Up /\ str[s].down = <<>> /\ str[s].hfin
  /\ PumpDone(s) /\ KeepAll

\* The stream ends, or the connection.
PumpFails(s) == ~Cli /\ Reading(s) /\ Over(s) /\ PumpDone(s) /\ KeepAll

\* The loop of runPTY.  At its end the deferred calls close the stream and
\* the connection.
CliPump(s) ==
  LET d == str[s].down
      end == Over(s) \/ (d # <<>> /\ Head(d) \in {"refused", "exit"})
  IN
  /\ Cli /\ Reading(s) /\ (end \/ d # <<>>)
  /\ IF end
     THEN /\ str' = [str EXCEPT ![s].down = <<>>, ![s].pump = "done",
                                ![s].exits = @ + 1, ![s].fin = TRUE]
          /\ Return(Main)
     ELSE str' = [str EXCEPT ![s].down = Tail(d)] /\ UNCHANGED <<pc, at>>
  /\ CliEnds(end)
  /\ UNCHANGED <<sessVars, hostVars, envVars>>

-----------------------------------------------------------------------------
(* The host: serveStream and what it dispatches to.                         *)

KeepClient == UNCHANGED <<connVars, sessVars, pc, at>>

\* Frame f is written to the streams of S; no client that has stopped
\* reading a stream will read it.
Sent(S, f) ==
  [s \in Opened |-> IF s \in S /\ str[s].pump = "reading"
                    THEN [str[s] EXCEPT !.down = Append(@, f)] ELSE str[s]]

\* The handler returns, and its deferred calls run.
Ended(s, d) ==
  [str EXCEPT ![s].hpc = "done", ![s].hfin = TRUE, ![s].up = <<>>,
              ![s].down = IF str[s].pump = "done" THEN @ ELSE @ \o d]

\* The reattach is refused, or the shell cannot be started.
HostRefuses(s) ==
  /\ s \in PtyStrs /\ str[s].hpc = "new" /\ Up
  /\ \/ str[s].want # None /\ str[s].want \notin alive /\ str' = Ended(s, <<"refused">>)
     \/ str[s].want = None /\ str' = Ended(s, <<"exit">>)
  /\ KeepClient /\ UNCHANGED <<hostVars, envVars>>

\* Manager.Attach or Register: from here on the sink of the stream is fed.
HostAttach(s) ==
  /\ s \in PtyStrs /\ str[s].hpc = "new" /\ Up
  /\ \E sh \in Shell :
       /\ IF str[s].want = None THEN sh \notin born ELSE sh = str[s].want /\ sh \in alive
       /\ alive' = alive \cup {sh} /\ born' = born \cup {sh}
       /\ str' = [str EXCEPT ![s].hpc = "attached", ![s].shell = sh]
  /\ KeepClient /\ UNCHANGED <<reg, envVars>>

\* ptyRegistry.Register, and the acknowledgement.
HostAck(s) ==
  /\ s \in PtyStrs /\ str[s].hpc = "attached"
  /\ str' = [Sent({s}, "ack") EXCEPT ![s].hpc = "reading"]
  /\ reg' = IF str[s].id = 0 THEN reg ELSE [reg EXCEPT ![str[s].id] = str[s].shell]
  /\ KeepClient /\ UNCHANGED <<alive, born, envVars>>

\* A whole frame is read and applied to the shell.  The handler blocks here
\* while the shell does not take its input.
HostRead(s) ==
  /\ s \in PtyStrs /\ str[s].hpc = "reading" /\ Up /\ Len(str[s].up) >= 2
  /\ str' = [str EXCEPT ![s].up = Tail(Tail(@))]
  /\ KeepClient /\ UNCHANGED <<hostVars, envVars>>

\* The client has closed the stream, inside a frame or after one, or the
\* connection is gone: Manager.Detach, which waits while the sink of another
\* client is written to, ptyRegistry.Unregister, and the stream is closed.
\* The shell lives on.
HostEnds(s) ==
  /\ s \in PtyStrs /\ str[s].hpc = "reading"
  /\ ~Up \/ (str[s].fin /\ Len(str[s].up) < 2)
  /\ str' = Ended(s, <<>>)
  /\ reg' = IF str[s].id = 0 THEN reg ELSE [reg EXCEPT ![str[s].id] = None]
  /\ KeepClient /\ UNCHANGED <<alive, born, envVars>>

\* No request can be read from the stream.
HostDrops(s) ==
  /\ s \in Opened /\ str[s].hpc = "new" /\ ~Up
  /\ str' = Ended(s, <<>>)
  /\ KeepClient /\ UNCHANGED <<hostVars, envVars>>

\* serveExecStream.  Without a PowerShell the answer is Done, and nothing
\* runs; with one, a line, the end of the command, or a command that cannot
\* be run or whose output cannot be read: then the stream is only closed.
HostExec(s) ==
  /\ s \in Opened /\ str[s].kind = "exec" /\ str[s].hpc = "new" /\ Up
  /\ \/ ~app.pwsh /\ str' = Ended(s, <<"done">>) /\ UNCHANGED printed
     \/ /\ app.pwsh /\ printed < app.output /\ printed' = printed + 1
        /\ str' = [str EXCEPT ![s].down = Append(@, "out")]
     \/ app.pwsh /\ str' = [Ended(s, <<"done">>) EXCEPT ![s].ran = TRUE] /\ UNCHANGED printed
     \/ app.pwsh /\ str' = Ended(s, <<>>) /\ UNCHANGED printed
  /\ KeepClient /\ UNCHANGED <<hostVars, writes>>

\* serveFilesStream: one answer, after which the host closes the stream.
Asked(s, k) == s \in Opened /\ str[s].kind = k /\ str[s].hpc = "new" /\ Up

HostList(s) ==
  /\ Asked(s, "list") /\ str' = Ended(s, <<alive>>)
  /\ KeepClient /\ UNCHANGED <<hostVars, envVars>>

\* Drop closes the shell, if there is one: its streams see it exit.
HostKill(s) ==
  LET sh == str[s].want IN
  /\ Asked(s, "kill")
  /\ alive' = alive \ {sh}
  /\ str' = [Sent(IF sh \in alive THEN Bound(sh) ELSE {}, "exit") EXCEPT
               ![s].hpc = "done", ![s].hfin = TRUE, ![s].down = <<{}>>]
  /\ KeepClient /\ UNCHANGED <<born, reg, envVars>>

\* The shell is found by the id, or is not; its files are its own affair.
HostTab(s) ==
  /\ Asked(s, "tab") /\ str' = Ended(s, <<{reg[str[s].id]}>>)
  /\ KeepClient /\ UNCHANGED <<hostVars, envVars>>

\* A shell prints, or its process ends: every sink is given the frame.
ShellPrints(sh) ==
  /\ sh \in alive /\ Bound(sh) # {} /\ printed < app.output
  /\ printed' = printed + 1 /\ str' = Sent(Bound(sh), "data")
  /\ KeepClient /\ UNCHANGED <<hostVars, writes>>

ShellExits(sh) ==
  /\ sh \in alive
  /\ alive' = alive \ {sh} /\ str' = Sent(Bound(sh), "exit")
  /\ KeepClient /\ UNCHANGED <<born, reg, envVars>>

-----------------------------------------------------------------------------
\* The program has ended, and the host has noticed.
Ends ==
  /\ phase = "closed" /\ \A s \in Opened : str[s].hpc = "done"
  /\ \A t \in Caller : pc[t] = "idle"
  /\ UNCHANGED vars

Connect ==
  \/ Start \/ Discover \/ Key \/ FirstToken \/ ListHosts \/ PickHost
  \/ Negotiate \/ Punch \/ Dial \/ DialDirect \/ Handshake \/ DoHello

\* What mobile-core offers to its callers, and what peersh-cli does.
Call(t) ==
  \/ Exec(t) \/ ListPTYs(t) \/ KillPTY(t) \/ TabCall(t)
  \/ OpenPTY(t) \/ Write(t) \/ PtyClose(t)
CliStep ==
  \/ RunOnce \/ CliList \/ CliKill \/ Refresh \/ Quit \/ RunPTY
  \/ \E t \in Thread : Send(t)

\* The steps of a call that has begun.
Step(t) ==
  ExecOpen(t) \/ ExecRead(t) \/ FileRead(t) \/ WriteLock(t) \/ WirePart(t) \/ Join(t)

Reader(s) == Pump(s) \/ PumpFails(s) \/ CliPump(s)

Handler(s) ==
  \/ HostAttach(s) \/ HostRefuses(s) \/ HostAck(s) \/ HostRead(s) \/ HostEnds(s)
  \/ HostDrops(s) \/ HostList(s) \/ HostKill(s) \/ HostTab(s)

Next ==
  \/ Connect \/ NetLost \/ Interrupt \/ SessionClose \/ CliStep \/ Ends
  \/ \E t \in Thread : Call(t)
  \/ \E t \in Caller : Step(t)
  \/ \E s \in 1 .. MaxStream : Reader(s) \/ Handler(s) \/ HostExec(s)
  \/ \E sh \in Shell : ShellPrints(sh) \/ ShellExits(sh)

\* The goroutines of the client that can run do run, and a connection that
\* is up delivers.  Nothing is assumed of the host: its handlers may block
\* in a write to a shell, or wait for a lock that such a write holds.
Spec ==
  /\ Init /\ [][Next]_vars
  /\ \A t \in Caller : WF_vars(Step(t))
  /\ \A s \in 1 .. MaxStream : WF_vars(Reader(s))

-----------------------------------------------------------------------------
\* The types of the variables.
TypeOK ==
  /\ app \in App /\ tries \in 0 .. Attempts
  /\ phase \in {"start", "stun", "key", "token", "hosts", "choose", "negotiate", "punch",
               "dial", "direct", "hello", "up", "lost", "closed"}
  /\ mu \in Caller \cup {None} /\ lastID \in 0 .. app.streams
  /\ Len(str) <= app.streams /\ alive \subseteq born /\ shown \subseteq born
  /\ \A t \in Caller : pc[t] # "idle" /\ at[t] # 0 => at[t] \in Opened

\* PTYHandler.OnExit "is called exactly once when the child process
\* terminates or the stream tears down" (PTYSession.pump), whatever way the
\* exit of the shell, a refusal, Close and the loss of the connection
\* overtake each other.
ExitOnce ==
  \A s \in PtyStrs : str[s].exits = IF str[s].pump = "done" THEN 1 ELSE 0

\* Between the length of a frame and its payload nothing else is written to
\* the stream, with any number of writers and a Close in between
\* (PTYSession.writeMu; send of runPTY): the host never takes the payload
\* of one frame for that of another.
FramesWhole ==
  \A s \in PtyStrs : \A i \in 1 .. Len(str[s].up) :
    str[s].up[i] = [part |-> IF i % 2 = 1 THEN "length" ELSE "payload",
                    by |-> str[s].up[IF i % 2 = 1 THEN i ELSE i - 1].by]

\* While the handler of a tab is serving it, the file requests for the id
\* of the tab are answered from its shell (ptyRegistry), though tabs of one
\* connection open, reattach to a common shell and close in any order.
TabHasItsShell ==
  \A s \in PtyStrs :
    str[s].hpc = "reading" /\ str[s].id # 0 => reg[str[s].id] = str[s].shell

\* The host has ended a stream whose write side is closed, or the
\* connection is gone.
Answered(s) == ~Up \/ (s \in PtyStrs /\ str[s].fin => str[s].hfin)

\* PTYSession.Close closes the write side and waits for the pump
\* (peersh.go:711-712): on condition that the host ends, sooner or later,
\* each stream so closed, every call of Close returns, whatever is still on
\* its way to the client and whatever the other threads write and close.
CloseReturns ==
  (\A s \in 1 .. MaxStream : []<>Answered(s)) => \A t \in Thread : []<>(pc[t] # "join")

\* Once the connection is closed no call is left waiting for the host, and
\* no pump is left running.
ClosedReleases ==
  phase = "closed" ~> /\ \A t \in Caller : pc[t] = "idle"
                      /\ \A s \in Opened : str[s].pump # "reading"

\* Output.OnDone: "errMessage is "" on clean success, non-empty on failure".
\* A call of Session.Exec that ends without an error has had its command run.
DoneHonest == \A s \in Opened : str[s].res = "ok" => str[s].ran
=============================================================================
