------------------------------ MODULE ExecHost ------------------------------
(***************************************************************************)
(* The one-shot command path of peershd: pwsh.SessionManager, pwsh.Host    *)
(* with Exec and Output, and the handlers serveConn and serveExecStream.   *)
(*                                                                         *)
(* A session, its Host and its random id are one element of Session.  A    *)
(* line of output is the number it has among the lines of its command; the *)
(* line that holds the sentinel of command e is End(e).  The host has a    *)
(* PowerShell (without one no session is ever created).  A write to a live *)
(* connection returns: its client reads.                                   *)
(***************************************************************************)
EXTENDS Naturals, Sequences

CONSTANTS
  Conn,         \* QUIC connections
  Session,      \* sessions that can ever be started
  Exec,         \* Exec streams that clients can ever open
  NoSession, NoConn, NoExec,
  Limits,       \* clamped idle timeouts that clients ask for, in ticks
  MaxLimit,     \* bound: the longest of them
  MaxLines,     \* bound: lines of output of one command
  Buf           \* capacity of stdoutCh and stderrCh (256)

ASSUME ExecAssumption ==
  /\ NoSession \notin Session /\ NoConn \notin Conn /\ NoExec \notin Exec
  /\ MaxLimit \in Nat /\ Limits \subseteq 0 .. MaxLimit
  /\ MaxLines \in Nat /\ Buf \in Nat \ {0}

VARIABLES
  \* SessionManager, guarded by its mu
  stopped,   \* the context of peershd is cancelled
  closed,    \* SessionManager.closed
  sessions,  \* the keys of SessionManager.sessions
  attached,  \* managedSession.attached
  limit,     \* managedSession.idleTimeout
  idle,      \* ticks since managedSession.lastActivity, saturating
  \* Host
  child,     \* the PowerShell process
  closing,   \* progress of Host.Close
  execMu,    \* holder of Host.execMu
  active,    \* Host.active
  stdin,     \* commands written to the process and not finished
  printed,   \* lines that a command has printed to stdout
  pipe,      \* the line that a pumpLines goroutine has to deliver, if any
  chan,      \* stdoutCh and stderrCh
  \* serveConn and serveExecStream
  pc,        \* control point of the handler of a connection
  live,      \* the host has not noticed an end of the connection
  sess,      \* its session
  epc,       \* control point of the handler of an Exec stream
  owner,     \* the connection of the Exec stream
  got        \* stdout lines written to the Exec stream

mgrVars  == <<stopped, closed, sessions, attached, limit, idle>>
lockVars == <<execMu, active>>
procVars == <<child, stdin, printed, pipe, chan>>
connVars == <<pc, live, sess>>
execVars == <<epc, owner, got>>
vars     == <<mgrVars, closing, lockVars, procVars, connVars, execVars>>

Kind == {"out", "err"}
Line(e, n) == [cmd |-> e, n |-> n]
End(e)     == [cmd |-> e, n |-> 0]

\* Host.closed
Closed(s) == closing[s] \in {"ending", "draining", "joined"}

\* The session that an Exec stream runs in.
Sess(e) == sess[owner[e]]

Init ==
  /\ stopped = FALSE /\ closed = FALSE /\ sessions = {}
  /\ attached = [s \in Session |-> FALSE]
  /\ limit = [s \in Session |-> 0]
  /\ idle = [s \in Session |-> 0]
  /\ child = [s \in Session |-> "none"]
  /\ closing = [s \in Session |-> "no"]
  /\ execMu = [s \in Session |-> NoExec]
  /\ active = [s \in Session |-> FALSE]
  /\ stdin = [s \in Session |-> <<>>]
  /\ printed = [e \in Exec |-> 0]
  /\ pipe = [s \in Session |-> [k \in Kind |-> <<>>]]
  /\ chan = [s \in Session |-> [k \in Kind |-> <<>>]]
  /\ pc = [c \in Conn |-> "hello"]
  /\ live = [c \in Conn |-> TRUE]
  /\ sess = [c \in Conn |-> NoSession]
  /\ epc = [e \in Exec |-> "idle"]
  /\ owner = [e \in Exec |-> NoConn]
  /\ got = [e \in Exec |-> <<>>]

-----------------------------------------------------------------------------
(* SessionManager.AttachOrCreate and serveConn.                             *)

\* expiredLocked
Expired(s) == ~attached[s] /\ idle[s] > limit[s]

Attach(s, t) ==
  /\ attached' = [attached EXCEPT ![s] = TRUE]
  /\ limit' = [limit EXCEPT ![s] = t]
  /\ idle' = [idle EXCEPT ![s] = 0]

\* The manager is closed or Start fails: serveConn closes the connection.
HelloRefused(c) ==
  /\ pc[c] = "hello"
  /\ pc' = [pc EXCEPT ![c] = "done"]
  /\ UNCHANGED <<mgrVars, closing, lockVars, procVars, live, sess, execVars>>

\* Mutation of Reattach: the caller is not given the session it attached to.
ReattachForgets(c, s, t) ==
  /\ pc[c] = "hello" /\ ~closed
  /\ s \in sessions /\ ~Expired(s)
  /\ Attach(s, t)
  /\ pc' = [pc EXCEPT ![c] = "reply"]
  /\ UNCHANGED <<stopped, closed, sessions, closing, lockVars, procVars, live, sess, execVars>>

\* The id is known and its session has not expired.
Reattach(c, s, t) ==
  /\ pc[c] = "hello" /\ ~closed
  /\ s \in sessions /\ ~Expired(s)
  /\ Attach(s, t)
  /\ sess' = [sess EXCEPT ![c] = s]
  /\ pc' = [pc EXCEPT ![c] = "reply"]
  /\ UNCHANGED <<stopped, closed, sessions, closing, lockVars, procVars, live, execVars>>

\* No id, or one that is unknown or expired: Start runs without the lock.
StartFresh(c, s) ==
  /\ pc[c] = "hello" /\ ~closed
  /\ child[s] = "none"
  /\ child' = [child EXCEPT ![s] = "running"]
  /\ sess' = [sess EXCEPT ![c] = s]
  /\ pc' = [pc EXCEPT ![c] = "insert"]
  /\ UNCHANGED <<mgrVars, closing, lockVars, stdin, printed, pipe, chan, live, execVars>>

\* Mutation of Insert: closed is not checked a second time.
InsertUnchecked(c, t) ==
  LET s == sess[c] IN
  /\ pc[c] = "insert"
  /\ sessions' = IF closed THEN sessions ELSE sessions \cup {s}
  /\ Attach(s, t) /\ pc' = [pc EXCEPT ![c] = "reply"]
  /\ UNCHANGED <<stopped, closed, closing, lockVars, procVars, live, sess, execVars>>

\* The lock is taken again; a manager closed meanwhile gets the Host closed.
Insert(c, t) ==
  LET s == sess[c] IN
  /\ pc[c] = "insert"
  /\ IF closed
     THEN /\ closing' = [closing EXCEPT ![s] = "owed"]
          /\ pc' = [pc EXCEPT ![c] = "done"]
          /\ UNCHANGED <<sessions, attached, limit, idle>>
     ELSE /\ sessions' = sessions \cup {s} /\ Attach(s, t)
          /\ pc' = [pc EXCEPT ![c] = "reply"]
          /\ UNCHANGED closing
  /\ UNCHANGED <<stopped, closed, lockVars, procVars, live, sess, execVars>>

\* ServerHello.  If it cannot be written, serveConn returns before it has
\* deferred Detach.
Reply(c) ==
  /\ pc[c] = "reply"
  /\ pc' = [pc EXCEPT ![c] = IF live[c] THEN "serve" ELSE "done"]
  /\ UNCHANGED <<mgrVars, closing, lockVars, procVars, live, sess, execVars>>

\* The client leaves or the network fails, and the host notices (external).
ConnDrop(c) ==
  /\ pc[c] \in {"insert", "reply", "serve"} /\ live[c]
  /\ live' = [live EXCEPT ![c] = FALSE]
  /\ UNCHANGED <<mgrVars, closing, lockVars, procVars, pc, sess, execVars>>

\* AcceptStream fails; the deferred Detach.
ConnEnds(c) ==
  /\ pc[c] = "serve" /\ (~live[c] \/ stopped)
  /\ pc' = [pc EXCEPT ![c] = "done"]
  /\ live' = [live EXCEPT ![c] = FALSE]
  /\ IF sess[c] \in sessions
     THEN /\ attached' = [attached EXCEPT ![sess[c]] = FALSE]
          /\ idle' = [idle EXCEPT ![sess[c]] = 0]
     ELSE UNCHANGED <<attached, idle>>
  /\ UNCHANGED <<stopped, closed, sessions, limit, closing, lockVars, procVars, sess, execVars>>

-----------------------------------------------------------------------------
(* SessionManager.Sweep and Close, Host.Close, the clock.                   *)

Sweep ==
  LET expired == {s \in sessions : Expired(s)} IN
  /\ expired # {}
  /\ sessions' = sessions \ expired
  /\ closing' = [s \in Session |-> IF s \in expired THEN "owed" ELSE closing[s]]
  /\ UNCHANGED <<stopped, closed, attached, limit, idle, lockVars, procVars, connVars, execVars>>

\* peershd is told to stop.
Stop ==
  /\ ~stopped
  /\ stopped' = TRUE
  /\ UNCHANGED <<closed, sessions, attached, limit, idle, closing, lockVars, procVars,
                 connVars, execVars>>

\* The accept loop has returned; the deferred Close takes all sessions.
ManagerClose ==
  /\ stopped /\ ~closed
  /\ closed' = TRUE
  /\ sessions' = {}
  /\ closing' = [s \in Session |-> IF s \in sessions THEN "queued" ELSE closing[s]]
  /\ UNCHANGED <<stopped, attached, limit, idle, lockVars, procVars, connVars, execVars>>

\* Host.Close up to the wait: in a goroutine of its own after Sweep, one after
\* the other in SessionManager.Close.
HostClose(s) ==
  /\ \/ closing[s] = "owed" /\ closing' = [closing EXCEPT ![s] = "ending"]
     \/ /\ closing[s] = "queued" /\ \A t \in Session : closing[t] # "draining"
        /\ closing' = [closing EXCEPT ![s] = "draining"]
  /\ UNCHANGED <<mgrVars, lockVars, procVars, connVars, execVars>>

\* The process has ended and both pumpLines have returned.
HostJoin(s) ==
  /\ closing[s] \in {"ending", "draining"}
  /\ child[s] = "exited" /\ \A k \in Kind : pipe[s][k] = <<>>
  /\ closing' = [closing EXCEPT ![s] = "joined"]
  /\ UNCHANGED <<mgrVars, lockVars, procVars, connVars, execVars>>

Tick ==
  /\ \E s \in Session : idle[s] <= MaxLimit
  /\ idle' = [s \in Session |-> IF idle[s] <= MaxLimit THEN idle[s] + 1 ELSE idle[s]]
  /\ UNCHANGED <<stopped, closed, sessions, attached, limit, closing, lockVars, procVars,
                 connVars, execVars>>

-----------------------------------------------------------------------------
(* The PowerShell process (external) and pumpLines.                         *)

SetPipe(s, k, l) == pipe' = [pipe EXCEPT ![s][k] = l]

\* The command at the head of stdin prints a line (those on stderr are not told
\* apart); a full pipe blocks it.
PrintLine(s, k) ==
  LET e == Head(stdin[s]) IN
  /\ child[s] = "running" /\ stdin[s] # <<>> /\ pipe[s][k] = <<>>
  /\ printed[e] < MaxLines
  /\ printed' = [printed EXCEPT ![e] = IF k = "out" THEN @ + 1 ELSE @]
  /\ SetPipe(s, k, <<Line(e, IF k = "out" THEN printed[e] + 1 ELSE 1)>>)
  /\ UNCHANGED <<mgrVars, closing, lockVars, child, stdin, chan, connVars, execVars>>

\* The command is over: Write-Output prints the sentinel.
Finish(s) ==
  LET e == Head(stdin[s]) IN
  /\ child[s] = "running" /\ stdin[s] # <<>> /\ pipe[s]["out"] = <<>>
  /\ SetPipe(s, "out", <<End(e)>>)
  /\ stdin' = [stdin EXCEPT ![s] = Tail(@)]
  /\ UNCHANGED <<mgrVars, closing, lockVars, child, printed, chan, connVars, execVars>>

\* It ends: by itself, on the "exit" of Close, killed by Close or by the context.
ChildExit(s) ==
  /\ child[s] = "running"
  /\ child' = [child EXCEPT ![s] = "exited"]
  /\ UNCHANGED <<mgrVars, closing, lockVars, stdin, printed, pipe, chan, connVars, execVars>>

\* pumpLines delivers its line when the channel has room.
PumpLine(s, k) ==
  /\ pipe[s][k] # <<>> /\ Len(chan[s][k]) < Buf
  /\ chan' = [chan EXCEPT ![s][k] = @ \o pipe[s][k]]
  /\ SetPipe(s, k, <<>>)
  /\ UNCHANGED <<mgrVars, closing, lockVars, child, stdin, printed, connVars, execVars>>

\* Wait closes the pipes: a line not read by then is lost.
PipeLost(s, k) ==
  /\ Closed(s) /\ child[s] = "exited" /\ pipe[s][k] # <<>>
  /\ SetPipe(s, k, <<>>)
  /\ UNCHANGED <<mgrVars, closing, lockVars, child, stdin, printed, chan, connVars, execVars>>

-----------------------------------------------------------------------------
(* serveExecStream, Host.Exec, Output.Recv.                                 *)

\* A client opens an Exec stream on its connection.
OpenExec(e, c) ==
  /\ epc[e] = "idle"
  /\ pc[c] = "serve" /\ live[c]
  /\ owner' = [owner EXCEPT ![e] = c]
  /\ epc' = [epc EXCEPT ![e] = "lock"]
  /\ UNCHANGED <<mgrVars, closing, lockVars, procVars, connVars, got>>

\* Mutation of ExecLock: execMu is not taken.
ExecLockNot(e) ==
  LET s == Sess(e) IN
  /\ epc[e] = "lock"
  /\ IF Closed(s)
     THEN epc' = [epc EXCEPT ![e] = "failed"] /\ UNCHANGED lockVars
     ELSE /\ epc' = [epc EXCEPT ![e] = "write"]
          /\ execMu' = [execMu EXCEPT ![s] = e] /\ active' = [active EXCEPT ![s] = TRUE]
  /\ UNCHANGED <<mgrVars, closing, procVars, connVars, owner, got>>

\* execMu, then ErrClosed, ErrBusy, or the Exec is active.
ExecLock(e) ==
  LET s == Sess(e) IN
  /\ epc[e] = "lock" /\ execMu[s] = NoExec
  /\ IF Closed(s) \/ active[s]
     THEN epc' = [epc EXCEPT ![e] = "failed"] /\ UNCHANGED lockVars
     ELSE /\ epc' = [epc EXCEPT ![e] = "write"]
          /\ execMu' = [execMu EXCEPT ![s] = e] /\ active' = [active EXCEPT ![s] = TRUE]
  /\ UNCHANGED <<mgrVars, closing, procVars, connVars, owner, got>>

\* The command and its sentinel go to stdin; an error gives both flags back.
ExecWrite(e) ==
  LET s == Sess(e) IN
  /\ epc[e] = "write"
  /\ \/ /\ child[s] = "running" /\ ~Closed(s)
        /\ stdin' = [stdin EXCEPT ![s] = Append(@, e)]
        /\ epc' = [epc EXCEPT ![e] = "recv"] /\ UNCHANGED lockVars
     \/ /\ child[s] = "exited" \/ Closed(s)
        /\ epc' = [epc EXCEPT ![e] = "failed"]
        /\ execMu' = [execMu EXCEPT ![s] = NoExec] /\ active' = [active EXCEPT ![s] = FALSE]
        /\ UNCHANGED stdin
  /\ UNCHANGED <<mgrVars, closing, child, printed, pipe, chan, connVars, owner, got>>

\* Recv takes a line and the handler writes it; a write that fails ends the
\* handler, which leaves the Output as it is.
RecvLine(e, k) ==
  LET s == Sess(e)
      l == Head(chan[s][k])
  IN
  /\ epc[e] = "recv" /\ chan[s][k] # <<>> /\ ~(k = "out" /\ l = End(e))
  /\ chan' = [chan EXCEPT ![s][k] = Tail(@)]
  /\ IF live[owner[e]]
     THEN got' = [got EXCEPT ![e] = IF k = "out" THEN Append(@, l) ELSE @] /\ UNCHANGED epc
     ELSE epc' = [epc EXCEPT ![e] = "abandoned"] /\ UNCHANGED got
  /\ UNCHANGED <<mgrVars, closing, lockVars, child, stdin, printed, pipe, connVars, owner>>

\* The sentinel: release unlocks execMu first ...
RecvEnd(e) ==
  LET s == Sess(e) IN
  /\ epc[e] = "recv" /\ chan[s]["out"] # <<>> /\ Head(chan[s]["out"]) = End(e)
  /\ chan' = [chan EXCEPT ![s]["out"] = Tail(@)]
  /\ execMu' = [execMu EXCEPT ![s] = NoExec]
  /\ epc' = [epc EXCEPT ![e] = "released"]
  /\ UNCHANGED <<mgrVars, closing, active, child, stdin, printed, pipe, connVars, owner, got>>

\* ... and then clears active; the handler writes Done.
MarkIdle(e) ==
  /\ epc[e] = "released"
  /\ active' = [active EXCEPT ![Sess(e)] = FALSE]
  /\ epc' = [epc EXCEPT ![e] = IF live[owner[e]] THEN "done" ELSE "failed"]
  /\ UNCHANGED <<mgrVars, closing, execMu, procVars, connVars, owner, got>>

\* Recv returns the error of the cancelled context.
RecvCancelled(e) ==
  /\ epc[e] = "recv" /\ stopped
  /\ epc' = [epc EXCEPT ![e] = "abandoned"]
  /\ UNCHANGED <<mgrVars, closing, lockVars, procVars, connVars, owner, got>>

-----------------------------------------------------------------------------
ConnStep(c) == Reply(c) \/ ConnEnds(c) \/ \E t \in Limits : Insert(c, t)

ClientStep(c) ==
  \/ HelloRefused(c) \/ ConnDrop(c)
  \/ \E s \in Session : StartFresh(c, s) \/ \E t \in Limits : Reattach(c, s, t)
  \/ \E e \in Exec : OpenExec(e, c)

ExecStep(e) ==
  \/ ExecLock(e) \/ ExecWrite(e) \/ RecvEnd(e) \/ MarkIdle(e) \/ RecvCancelled(e)
  \/ \E k \in Kind : RecvLine(e, k)

HostStep(s) == HostClose(s) \/ HostJoin(s) \/ \E k \in Kind : PumpLine(s, k)

Next ==
  \/ \E c \in Conn : ConnStep(c) \/ ClientStep(c)
  \/ \E e \in Exec : ExecStep(e)
  \/ \E s \in Session :
       HostStep(s) \/ Finish(s) \/ ChildExit(s) \/ \E k \in Kind : PrintLine(s, k) \/ PipeLost(s, k)
  \/ Sweep \/ Stop \/ ManagerClose \/ Tick

Spec == Init /\ [][Next]_vars

\* The goroutines of the host run, the sweeper and the clock too; a command
\* that can print its sentinel ends; a process whose Host is closed is killed.
Fairness ==
  /\ \A c \in Conn : WF_vars(ConnStep(c))
  /\ \A e \in Exec : WF_vars(ExecStep(e))
  /\ \A s \in Session : /\ WF_vars(HostClose(s) \/ HostJoin(s)) /\ WF_vars(Finish(s))
                        /\ \A k \in Kind : WF_vars(PumpLine(s, k))
                        /\ WF_vars(Closed(s) /\ ChildExit(s))
  /\ WF_vars(Sweep) /\ WF_vars(Tick)

FairSpec == Spec /\ Fairness

-----------------------------------------------------------------------------
(* Properties.                                                              *)

LineSet == [cmd: Exec, n: Nat]

TypeOK ==
  /\ stopped \in BOOLEAN /\ closed \in BOOLEAN
  /\ sessions \subseteq Session
  /\ attached \in [Session -> BOOLEAN]
  /\ limit \in [Session -> 0 .. MaxLimit]
  /\ idle \in [Session -> 0 .. MaxLimit + 1]
  /\ child \in [Session -> {"none", "running", "exited"}]
  /\ closing \in [Session -> {"no", "owed", "ending", "queued", "draining", "joined"}]
  /\ execMu \in [Session -> Exec \cup {NoExec}]
  /\ active \in [Session -> BOOLEAN]
  /\ stdin \in [Session -> Seq(Exec)]
  /\ printed \in [Exec -> Nat]
  /\ pipe \in [Session -> [Kind -> Seq(LineSet)]]
  /\ chan \in [Session -> [Kind -> Seq(LineSet)]]
  /\ pc \in [Conn -> {"hello", "insert", "reply", "serve", "done"}]
  /\ live \in [Conn -> BOOLEAN]
  /\ sess \in [Conn -> Session \cup {NoSession}]
  /\ \A c \in Conn : pc[c] \in {"insert", "reply", "serve"} => sess[c] \in Session
  /\ epc \in [Exec -> {"idle", "lock", "write", "recv", "released", "done", "failed", "abandoned"}]
  /\ owner \in [Exec -> Conn \cup {NoConn}]
  /\ \A e \in Exec : epc[e] # "idle" => owner[e] \in Conn /\ sess[owner[e]] \in Session
  /\ got \in [Exec -> Seq(LineSet)]

\* A connection has started the session and has not taken the lock again.
Inserting(s) == \E c \in Conn : pc[c] = "insert" /\ sess[c] = s

\* Every process that was started is in the table, on its way into it, or its
\* Host is being closed, and only one of the three: a session that is handed out
\* is not being closed, and Close leaves no PowerShell behind although Start runs
\* outside the lock (AttachOrCreate, Sweep, Close).
Tracked ==
  \A s \in Session :
    /\ child[s] # "none" => s \in sessions \/ Inserting(s) \/ closing[s] # "no"
    /\ s \in sessions => closing[s] = "no" /\ ~Inserting(s) /\ ~closed
    /\ Inserting(s) => closing[s] = "no"

\* A session not started is nowhere, and one connection inserts it: with Tracked,
\* the inductive invariant of the proofs.
FreshOK ==
  /\ \A s \in Session : child[s] = "none" =>
       s \notin sessions /\ ~Inserting(s) /\ closing[s] = "no"
  /\ \A c, d \in Conn : pc[c] = "insert" /\ pc[d] = "insert" /\ sess[c] = sess[d] => c = d

TrackInv == TypeOK /\ FreshOK /\ Tracked

\* The stdout lines on an Exec stream are those of its own command, in order
\* and without a gap, and the stream is done only when it has all of them,
\* although sessions are shared, abandoned and resumed (Exec, Recv, release).
OwnOutput ==
  \A e \in Exec :
    /\ \A i \in DOMAIN got[e] : got[e][i] = Line(e, i)
    /\ epc[e] = "done" => Len(got[e]) = printed[e]

-----------------------------------------------------------------------------
(* What comments of the code say and the code does not do.                  *)

\* "ErrBusy is returned by Exec when another Exec on the same Host has not yet
\* reported io.EOF": while peershd runs, Exec returns (Exec, ErrBusy).
ExecReturns == \A e \in Exec : epc[e] = "lock" ~> epc[e] # "lock" \/ stopped
=============================================================================
