------------------------------- MODULE PtyHost -------------------------------
(***************************************************************************)
(* The persisted pseudo-terminals of peershd: ptyhost.Manager,             *)
(* ptyhost.Session with its session-lifetime Pump, and the per-stream      *)
(* handler servePTYStream that binds a QUIC stream to a Session.           *)
(*                                                                         *)
(* Every action is one critical section (m.mu, sinkMu or writeMu) or one   *)
(* blocking call of a goroutine, so all interleavings that the locks allow *)
(* are behaviours of this specification.  A chunk of output is its number, *)
(* 1, 2, 3, ... in the order the child produced it, and one unit of the    *)
(* ring; chunks of other sizes are a matter of RingBuffer alone.  A        *)
(* Session, its Manager entry and its reattach handle are one element of   *)
(* Handle: the 80-bit random handles of newHandle do not collide.  All     *)
(* clients of one peershd share one Owner (serveConn passes selfUserID),   *)
(* so the owner comparisons always succeed and are left out.               *)
(***************************************************************************)
EXTENDS Naturals, Sequences, FiniteSets, RingBuffer

CONSTANTS
  Handle,       \* sessions that can ever be opened
  Stream,       \* PTY streams that clients can ever open
  SlowStream,   \* streams whose client may stop reading (flow control fills)
  TypingStream, \* streams whose client sends frames, not all well-formed
  MayStop,      \* whether peershd may be told to stop
  NoHandle,     \* not a Handle
  NoStream,     \* not a Stream
  MaxChunk,     \* bound: chunks of output a child produces
  RingCap,      \* Manager.ringSize, in chunks
  IdleTimeout   \* Manager.timeout, in ticks

ASSUME ConstAssumption ==
  /\ NoHandle \notin Handle
  /\ NoStream \notin Stream
  /\ IsFiniteSet(Stream)
  /\ SlowStream \subseteq Stream /\ TypingStream \subseteq Stream
  /\ MayStop \in BOOLEAN
  /\ MaxChunk \in Nat
  /\ RingCap \in Nat \ {0}
  /\ IdleTimeout \in Nat

VARIABLES
  \* Manager, guarded by m.mu
  mgrClosed,    \* Manager.closed
  entries,      \* the handles in Manager.entries
  attachCount,  \* entry.attachCount, also of entries already deleted
  idle,         \* ticks since entry.lastSeen, saturating at IdleTimeout + 1
  toClose,      \* handles whose Session.Close a Drop or Close still owes
  sweeping,     \* handles whose Session.Close the sweeper still owes
  \* Session
  child,        \* the process under the pseudo-console
  closed,       \* Session.closed
  sinks,        \* Session.sinks: the map from token to sink, as a set of pairs
  nextSink,     \* Session.nextSink
  ring,         \* entry.ring
  out,          \* number of chunks dispatched so far
  pump,         \* control point of the Pump goroutine
  fan,          \* sinks the current dispatch has not reached yet
  writing,      \* the sink that the current dispatch is writing to
  \* servePTYStream
  pc,           \* control point of the handler of a stream
  sess,         \* the Session that the stream is bound to
  token,        \* AttachToken.SinkID
  replay,       \* AttachResult.Replay
  wire,         \* frames written to the stream, oldest first
  peer          \* what the client side of the stream does

mgrVars    == <<mgrClosed, entries, attachCount, idle, toClose, sweeping>>
sinkVars   == <<sinks, nextSink>>
outVars    == <<ring, out>>
pumpVars   == <<pump, fan, writing>>
procVars   == <<child, closed>>
sessVars   == <<sinkVars, outVars, pumpVars, procVars>>
bindVars   == <<sess, token, replay>>
streamVars == <<pc, bindVars, wire, peer>>
vars       == <<mgrVars, sessVars, streamVars>>

Frame == [kind: {"ack", "reject", "replay", "data", "exit"}, chunks: Seq(Nat)]

AckFrame       == [kind |-> "ack",    chunks |-> <<>>]
RejectFrame    == [kind |-> "reject", chunks |-> <<>>]
ExitFrame      == [kind |-> "exit",   chunks |-> <<>>]
ReplayFrame(r) == [kind |-> "replay", chunks |-> r]
DataFrame(n)   == [kind |-> "data",   chunks |-> <<n>>]

PumpStates == {"none", "read", "data", "exit", "remove", "done"}
HandlerStates == {"idle", "regSink", "regCount", "attSink", "attCount", "resize",
                  "ack", "loop", "input", "write", "detach", "rmSink", "uncount",
                  "closed"}

\* Where the handler is about to use the Session it holds.
Registering == {"regSink", "regCount"}
HoldsSession == Registering \cup {"attSink", "attCount", "resize", "input", "write",
                                 "rmSink", "uncount"}

\* The ring buffers a Manager makes.
Ring == [cap: {RingCap}, buf: Seq(Nat), head: Nat, full: BOOLEAN]

TypeOK ==
  /\ mgrClosed \in BOOLEAN
  /\ entries \subseteq Handle
  /\ attachCount \in [Handle -> Nat]
  /\ idle \in [Handle -> 0 .. IdleTimeout + 1]
  /\ toClose \subseteq Handle /\ sweeping \subseteq Handle
  /\ child \in [Handle -> {"none", "running", "exited"}]
  /\ closed \in [Handle -> BOOLEAN]
  /\ sinks \in [Handle -> SUBSET (Nat \X Stream)]
  /\ nextSink \in [Handle -> Nat]
  /\ ring \in [Handle -> Ring]
  /\ out \in [Handle -> Nat]
  /\ pump \in [Handle -> PumpStates]
  /\ fan \in [Handle -> SUBSET Stream]
  /\ writing \in [Handle -> Stream \cup {NoStream}]
  /\ pc \in [Stream -> HandlerStates]
  /\ sess \in [Stream -> Handle \cup {NoHandle}]
  /\ token \in [Stream -> Nat]
  /\ replay \in [Stream -> Seq(Nat)]
  /\ wire \in [Stream -> Seq(Frame)]
  /\ peer \in [Stream -> {"up", "stalled", "fin", "gone"}]
  /\ \A s \in Stream : pc[s] \in HoldsSession => sess[s] \in Handle

Init ==
  /\ mgrClosed = FALSE
  /\ entries = {}
  /\ attachCount = [h \in Handle |-> 0]
  /\ idle = [h \in Handle |-> 0]
  /\ toClose = {} /\ sweeping = {}
  /\ child = [h \in Handle |-> "none"]
  /\ closed = [h \in Handle |-> FALSE]
  /\ sinks = [h \in Handle |-> {}]
  /\ nextSink = [h \in Handle |-> 0]
  /\ ring = [h \in Handle |-> newRingBuffer(RingCap)]
  /\ out = [h \in Handle |-> 0]
  /\ pump = [h \in Handle |-> "none"]
  /\ fan = [h \in Handle |-> {}]
  /\ writing = [h \in Handle |-> NoStream]
  /\ pc = [s \in Stream |-> "idle"]
  /\ sess = [s \in Stream |-> NoHandle]
  /\ token = [s \in Stream |-> 0]
  /\ replay = [s \in Stream |-> <<>>]
  /\ wire = [s \in Stream |-> <<>>]
  /\ peer = [s \in Stream |-> "up"]

-----------------------------------------------------------------------------
(* Helpers.                                                                *)

\* sinkMu is free: only Pump keeps it across steps, while it fans a frame out.
SinkMuFree(h) == pump[h] \notin {"data", "exit"}

\* Session.mu is free: only a Session.Write keeps it across a blocking call.
MuFree(h) == \A s \in Stream : sess[s] = h => pc[s] # "write"

\* The sinks a dispatch iterates over.
SinkStreams(h) == {p[2] : p \in sinks[h]}

\* Mutation of AddSink: nextSink is not advanced, so tokens are shared.
AddSinkSameToken(h, s) ==
  /\ sinks' = [sinks EXCEPT ![h] = {p \in @ : p[1] # 1} \cup {<<1, s>>}]
  /\ token' = [token EXCEPT ![s] = 1]
  /\ UNCHANGED nextSink

\* addSinkLocked: a fresh token, installed in the map under that token.
AddSink(h, s) ==
  LET t == nextSink[h] + 1 IN
  /\ nextSink' = [nextSink EXCEPT ![h] = t]
  /\ sinks' = [sinks EXCEPT ![h] = {p \in @ : p[1] # t} \cup {<<t, s>>}]
  /\ token' = [token EXCEPT ![s] = t]

\* wire.Write: blocks while the client does not read; fails, and the frame is
\* lost, once the connection is gone or the host has closed the stream.
CanWrite(s) == peer[s] # "stalled"
Written(s, f) ==
  IF peer[s] = "gone" \/ pc[s] = "closed" THEN wire[s] ELSE Append(wire[s], f)

-----------------------------------------------------------------------------
(* servePTYStream, fresh open: ptyhost.Open, then Manager.Register.        *)

\* ptyhost.Open fails: the only frame is an exit frame.
OpenFails(s) ==
  /\ pc[s] = "idle"
  /\ CanWrite(s)
  /\ pc' = [pc EXCEPT ![s] = "closed"]
  /\ wire' = [wire EXCEPT ![s] = Written(s, ExitFrame)]
  /\ UNCHANGED <<mgrVars, sessVars, bindVars, peer>>

\* Open spawns the child, Register inserts the entry with attachCount 0.
RegisterInsert(s, h) ==
  /\ pc[s] = "idle"
  /\ child[h] = "none"
  /\ ~mgrClosed
  /\ child' = [child EXCEPT ![h] = "running"]
  /\ entries' = entries \cup {h}
  /\ idle' = [idle EXCEPT ![h] = 0]
  /\ sess' = [sess EXCEPT ![s] = h]
  /\ pc' = [pc EXCEPT ![s] = "regSink"]
  /\ UNCHANGED <<mgrClosed, attachCount, toClose, sweeping, closed, sinkVars,
                 outVars, pumpVars, token, replay, wire, peer>>

\* Mutation of RegisterClosed: the closed check does not return.
RegisterClosedGoesOn(s, h) ==
  /\ pc[s] = "idle"
  /\ child[h] = "none"
  /\ mgrClosed
  /\ child' = [child EXCEPT ![h] = "running"]
  /\ pc' = [pc EXCEPT ![s] = "regSink"]
  /\ UNCHANGED <<mgrVars, closed, sinkVars, outVars, pumpVars, bindVars, wire,
                 peer>>

\* Register on a closed Manager returns an empty result without an error: the
\* handler goes on to acknowledge, with no Session and an untracked child.
RegisterClosed(s, h) ==
  /\ pc[s] = "idle"
  /\ child[h] = "none"
  /\ mgrClosed
  /\ child' = [child EXCEPT ![h] = "running"]
  /\ pc' = [pc EXCEPT ![s] = "ack"]
  /\ UNCHANGED <<mgrVars, closed, sinkVars, outVars, pumpVars, bindVars, wire,
                 peer>>

\* SetRingAppend and AddSink.
RegisterSink(s) ==
  LET h == sess[s] IN
  /\ pc[s] = "regSink"
  /\ SinkMuFree(h)
  /\ AddSink(h, s)
  /\ pc' = [pc EXCEPT ![s] = "regCount"]
  /\ UNCHANGED <<mgrVars, outVars, pumpVars, procVars, sess, replay, wire, peer>>

\* attachCount++ under m.mu, then the Pump goroutine is started.
RegisterCount(s) ==
  LET h == sess[s] IN
  /\ pc[s] = "regCount"
  /\ attachCount' = [attachCount EXCEPT ![h] = @ + 1]
  /\ idle' = [idle EXCEPT ![h] = 0]
  /\ pump' = [pump EXCEPT ![h] = "read"]
  /\ pc' = [pc EXCEPT ![s] = "ack"]
  /\ UNCHANGED <<mgrClosed, entries, toClose, sweeping, sinkVars, outVars, fan,
                 writing, procVars, bindVars, wire, peer>>

-----------------------------------------------------------------------------
(* servePTYStream, reattach: Manager.Attach.                               *)

\* The handle is unknown or the Manager closed: a refusal ends the stream.
AttachReject(s, h) ==
  /\ pc[s] = "idle"
  /\ child[h] # "none"
  /\ mgrClosed \/ h \notin entries
  /\ CanWrite(s)
  /\ pc' = [pc EXCEPT ![s] = "closed"]
  /\ wire' = [wire EXCEPT ![s] = Written(s, RejectFrame)]
  /\ UNCHANGED <<mgrVars, sessVars, bindVars, peer>>

\* The lookup under m.mu; the lock is released with only a pointer kept.
AttachLookup(s, h) ==
  /\ pc[s] = "idle"
  /\ ~mgrClosed
  /\ h \in entries
  /\ sess' = [sess EXCEPT ![s] = h]
  /\ pc' = [pc EXCEPT ![s] = "attSink"]
  /\ UNCHANGED <<mgrVars, sessVars, token, replay, wire, peer>>

\* Mutation of AttachSink: sinkMu is not taken, so the sink may join a range
\* over the map that is under way.
AttachSinkUnlocked(s) ==
  LET h == sess[s] IN
  /\ pc[s] = "attSink"
  /\ replay' = [replay EXCEPT ![s] = Snapshot(ring[h])]
  /\ AddSink(h, s)
  /\ fan' = [fan EXCEPT ![h] = IF SinkMuFree(h) THEN @ ELSE @ \cup {s}]
  /\ pc' = [pc EXCEPT ![s] = "attCount"]
  /\ UNCHANGED <<mgrVars, outVars, pump, writing, procVars, sess, wire, peer>>

\* AddSinkWithSnapshot: ring snapshot and sink in one critical section.
AttachSink(s) ==
  LET h == sess[s] IN
  /\ pc[s] = "attSink"
  /\ SinkMuFree(h)
  /\ replay' = [replay EXCEPT ![s] = Snapshot(ring[h])]
  /\ AddSink(h, s)
  /\ pc' = [pc EXCEPT ![s] = "attCount"]
  /\ UNCHANGED <<mgrVars, outVars, pumpVars, procVars, sess, wire, peer>>

\* attachCount++ under m.mu (on the entry, even if it was deleted meanwhile).
\* Then the handler sets the client's window size: Session.Resize takes s.mu and
\* so waits for a Write of another client.
AttachCount(s) ==
  LET h == sess[s] IN
  /\ pc[s] = "attCount"
  /\ attachCount' = [attachCount EXCEPT ![h] = @ + 1]
  /\ idle' = [idle EXCEPT ![h] = 0]
  /\ pc' = [pc EXCEPT ![s] = IF MuFree(h) THEN "ack" ELSE "resize"]
  /\ UNCHANGED <<mgrClosed, entries, toClose, sweeping, sessVars, bindVars, wire, peer>>

\* s.mu is free again for the Resize.
AttachResize(s) ==
  /\ pc[s] = "resize"
  /\ MuFree(sess[s])
  /\ pc' = [pc EXCEPT ![s] = "ack"]
  /\ UNCHANGED <<mgrVars, sessVars, bindVars, wire, peer>>

-----------------------------------------------------------------------------
(* servePTYStream, both paths.                                             *)

\* Ack and, if there is one, the replay, under one hold of writeMu.
AckReplay(s) ==
  /\ pc[s] = "ack"
  /\ CanWrite(s)
  /\ wire' = [wire EXCEPT ![s] =
       IF replay[s] = <<>> \/ peer[s] = "gone" THEN Written(s, AckFrame)
       ELSE Append(Written(s, AckFrame), ReplayFrame(replay[s]))]
  /\ pc' = [pc EXCEPT ![s] = "loop"]
  /\ UNCHANGED <<mgrVars, sessVars, bindVars, peer>>

\* Mutation of ReadEnds: the end of the stream is not taken for its end.
ReadEndsOnlyGone(s) ==
  /\ pc[s] = "loop"
  /\ peer[s] = "gone"
  /\ pc' = [pc EXCEPT ![s] = "detach"]
  /\ UNCHANGED <<mgrVars, sessVars, bindVars, wire, peer>>

\* The read loop ends: end of stream, connection lost or context cancelled.
ReadEnds(s) ==
  /\ pc[s] = "loop"
  /\ peer[s] \in {"fin", "gone"}
  /\ pc' = [pc EXCEPT ![s] = "detach"]
  /\ UNCHANGED <<mgrVars, sessVars, bindVars, wire, peer>>

\* A frame from the client: one that does not parse ends the loop, an Input or a
\* Resize goes to the Session.  (After RegisterClosed there is none: an Input
\* would dereference nil in a peershd that is about to exit.)
ReadFrame(s) ==
  /\ pc[s] = "loop"
  /\ s \in TypingStream /\ peer[s] \in {"up", "stalled"}
  /\ \/ pc' = [pc EXCEPT ![s] = "detach"]
     \/ sess[s] # NoHandle /\ pc' = [pc EXCEPT ![s] = "input"]
  /\ UNCHANGED <<mgrVars, sessVars, bindVars, wire, peer>>

\* Session.Write and Session.Resize take s.mu; a Write to an open Session keeps
\* it during p.Write, a failed one is logged and the loop goes on.
InputLock(s) ==
  /\ pc[s] = "input"
  /\ MuFree(sess[s])
  /\ \/ ~closed[sess[s]] /\ pc' = [pc EXCEPT ![s] = "write"]
     \/ pc' = [pc EXCEPT ![s] = "loop"]
  /\ UNCHANGED <<mgrVars, sessVars, bindVars, wire, peer>>

\* p.Write returns, when the child takes its input or its console breaks (external).
InputTaken(s) ==
  /\ pc[s] = "write"
  /\ pc' = [pc EXCEPT ![s] = "loop"]
  /\ UNCHANGED <<mgrVars, sessVars, bindVars, wire, peer>>

\* Manager.Detach, first hold of m.mu; an entry that is gone ends it there.
DetachLookup(s) ==
  /\ pc[s] = "detach"
  /\ pc' = [pc EXCEPT ![s] = IF sess[s] \in entries THEN "rmSink" ELSE "closed"]
  /\ UNCHANGED <<mgrVars, sessVars, bindVars, wire, peer>>

\* RemoveSink under sinkMu.
DetachSink(s) ==
  LET h == sess[s] IN
  /\ pc[s] = "rmSink"
  /\ SinkMuFree(h)
  /\ sinks' = [sinks EXCEPT ![h] = {p \in @ : p[1] # token[s]}]
  /\ pc' = [pc EXCEPT ![s] = "uncount"]
  /\ UNCHANGED <<mgrVars, nextSink, outVars, pumpVars, procVars, bindVars, wire,
                 peer>>

\* Mutation of DetachCount: one Detach clears the count of everybody.
DetachCountClears(s) ==
  LET h == sess[s] IN
  /\ pc[s] = "uncount"
  /\ attachCount' = [attachCount EXCEPT ![h] = 0]
  /\ idle' = [idle EXCEPT ![h] = 0]
  /\ pc' = [pc EXCEPT ![s] = "closed"]
  /\ UNCHANGED <<mgrClosed, entries, toClose, sweeping, sessVars, bindVars, wire, peer>>

\* attachCount-- under m.mu; the last one out starts the idle clock.
DetachCount(s) ==
  LET h == sess[s] IN
  /\ pc[s] = "uncount"
  /\ attachCount' = [attachCount EXCEPT ![h] = IF @ > 0 THEN @ - 1 ELSE 0]
  /\ idle' = [idle EXCEPT ![h] = IF attachCount'[h] = 0 THEN 0 ELSE @]
  /\ pc' = [pc EXCEPT ![s] = "closed"]
  /\ UNCHANGED <<mgrClosed, entries, toClose, sweeping, sessVars, bindVars, wire, peer>>

-----------------------------------------------------------------------------
(* The client side of a stream (external).                                 *)

\* The client closes its direction, stalls, resumes, or the connection dies; of a
\* closed stream it only matters that a write under way comes to an end.
PeerStep(s) ==
  /\ pc[s] # "idle"
  /\ pc[s] = "closed" => peer[s] = "stalled" /\ \E h \in Handle : writing[h] = s
  /\ \/ peer[s] = "up" /\ peer' = [peer EXCEPT ![s] = "fin"]
     \/ peer[s] \in {"up", "stalled", "fin"} /\ peer' = [peer EXCEPT ![s] = "gone"]
     \/ peer[s] = "up" /\ s \in SlowStream /\ peer' = [peer EXCEPT ![s] = "stalled"]
     \/ peer[s] = "stalled" /\ peer' = [peer EXCEPT ![s] = "up"]
  /\ UNCHANGED <<mgrVars, sessVars, pc, bindVars, wire>>

-----------------------------------------------------------------------------
(* Manager.Drop, Manager.Sweep, Manager.Close and the Session.Close calls   *)
(* they make after releasing m.mu; the clock.                               *)

\* handleKillPTY -> Drop.
Drop(h) ==
  /\ h \in entries
  /\ entries' = entries \ {h}
  /\ toClose' = toClose \cup {h}
  /\ UNCHANGED <<mgrClosed, attachCount, idle, sweeping, sessVars, streamVars>>

\* Mutations of Expired: attachCount is not looked at; its test is inverted.
ExpiredAttachedToo == {h \in entries : idle[h] > IdleTimeout}
ExpiredInverted == {h \in entries : attachCount[h] # 0 /\ idle[h] > IdleTimeout}

\* The entries Sweep evicts.
Expired == {h \in entries : attachCount[h] = 0 /\ idle[h] > IdleTimeout}

\* The one sweeper comes back only when all its Session.Close have returned.
Sweep ==
  /\ Expired # {} /\ sweeping = {}
  /\ entries' = entries \ Expired
  /\ sweeping' = Expired
  /\ UNCHANGED <<mgrClosed, attachCount, idle, toClose, sessVars, streamVars>>

ManagerClose ==
  /\ MayStop /\ ~mgrClosed
  /\ mgrClosed' = TRUE
  /\ entries' = {}
  /\ toClose' = toClose \cup entries
  /\ UNCHANGED <<attachCount, idle, sweeping, sessVars, streamVars>>

\* Mutation of CloseSession: the pseudo-console is left open.
CloseSessionLeaks(h) ==
  /\ h \in toClose \cup sweeping
  /\ MuFree(h)
  /\ toClose' = toClose \ {h} /\ sweeping' = sweeping \ {h}
  /\ UNCHANGED <<mgrClosed, entries, attachCount, idle, sessVars, streamVars>>

\* Session.Close, idempotent: it waits for s.mu, and so for a Write that the
\* child does not take.
CloseSession(h) ==
  /\ h \in toClose \cup sweeping
  /\ MuFree(h)
  /\ toClose' = toClose \ {h} /\ sweeping' = sweeping \ {h}
  /\ closed' = [closed EXCEPT ![h] = TRUE]
  /\ UNCHANGED <<mgrClosed, entries, attachCount, idle, sinkVars, outVars,
                 pumpVars, child, streamVars>>

\* Time passes (external); only the distance of an entry to IdleTimeout matters.
Tick ==
  LET Ageing == {h \in entries : idle[h] <= IdleTimeout} IN
  /\ Ageing # {}
  /\ idle' = [h \in Handle |-> IF h \in Ageing THEN idle[h] + 1 ELSE idle[h]]
  /\ UNCHANGED <<mgrClosed, entries, attachCount, toClose, sweeping, sessVars,
                 streamVars>>

-----------------------------------------------------------------------------
(* Session.Pump.                                                            *)

\* The child exits by itself or because Close killed it (external).
ChildExit(h) ==
  /\ child[h] = "running"
  /\ child' = [child EXCEPT ![h] = "exited"]
  /\ UNCHANGED <<mgrVars, closed, sinkVars, outVars, pumpVars, streamVars>>

\* Watcher 1: Wait returned, so Session.Close closes the pseudo-console.
ChildWatcher(h) ==
  /\ pump[h] # "none"
  /\ child[h] = "exited"
  /\ ~closed[h] /\ MuFree(h)
  /\ closed' = [closed EXCEPT ![h] = TRUE]
  /\ UNCHANGED <<mgrVars, child, sinkVars, outVars, pumpVars, streamVars>>

\* The range over the sink map moves on to one of the sinks S, in any order, or
\* ends; then sinkMu is released and Pump is at control point after.
FanOut(h, S, during, after) ==
  \/ \E s \in S : /\ writing' = [writing EXCEPT ![h] = s]
                  /\ fan' = [fan EXCEPT ![h] = S \ {s}]
                  /\ pump' = [pump EXCEPT ![h] = during]
  \/ /\ S = {}
     /\ writing' = [writing EXCEPT ![h] = NoStream]
     /\ fan' = [fan EXCEPT ![h] = {}]
     /\ pump' = [pump EXCEPT ![h] = after]

\* Mutation of PumpData: the ring is written only while nobody is attached.
PumpDataRingIfDetached(h) ==
  /\ pump[h] = "read"
  /\ out[h] < MaxChunk
  /\ out' = [out EXCEPT ![h] = @ + 1]
  /\ ring' = [ring EXCEPT ![h] = IF sinks[h] = {} THEN RingWrite(@, <<out[h] + 1>>) ELSE @]
  /\ FanOut(h, SinkStreams(h), "data", "read")
  /\ UNCHANGED <<mgrVars, sinkVars, procVars, streamVars>>

\* Read returns a chunk (possibly one buffered before Close); dispatchData takes
\* sinkMu, mirrors the chunk into the ring and starts the fan-out.
PumpData(h) ==
  /\ pump[h] = "read"
  /\ out[h] < MaxChunk
  /\ out' = [out EXCEPT ![h] = @ + 1]
  /\ ring' = [ring EXCEPT ![h] = RingWrite(@, <<out[h] + 1>>)]
  /\ FanOut(h, SinkStreams(h), "data", "read")
  /\ UNCHANGED <<mgrVars, sinkVars, procVars, streamVars>>

\* Read has failed on the closed pseudo-console and Watcher 1 has delivered the
\* exit status; dispatchExit takes sinkMu and starts the fan-out.
PumpExit(h) ==
  /\ pump[h] = "read"
  /\ child[h] = "exited" /\ closed[h]
  /\ FanOut(h, SinkStreams(h), "exit", "remove")
  /\ UNCHANGED <<mgrVars, sinkVars, outVars, procVars, streamVars>>

\* Mutation of SinkWrite: Pump reads on after dispatchExit.
SinkWriteReadsOn(h) ==
  LET s == writing[h] IN
  /\ s # NoStream
  /\ CanWrite(s)
  /\ wire' = [wire EXCEPT ![s] =
       Written(s, IF pump[h] = "data" THEN DataFrame(out[h]) ELSE ExitFrame)]
  /\ FanOut(h, fan[h], pump[h], "read")
  /\ UNCHANGED <<mgrVars, sinkVars, outVars, procVars, pc, bindVars, peer>>

\* The sink closure: writeMu, then wire.Write; its error is swallowed.
SinkWrite(h) ==
  LET s == writing[h] IN
  /\ s # NoStream
  /\ CanWrite(s)
  /\ wire' = [wire EXCEPT ![s] =
       Written(s, IF pump[h] = "data" THEN DataFrame(out[h]) ELSE ExitFrame)]
  /\ FanOut(h, fan[h], pump[h], IF pump[h] = "data" THEN "read" ELSE "remove")
  /\ UNCHANGED <<mgrVars, sinkVars, outVars, procVars, pc, bindVars, peer>>

\* Register's goroutine deletes the entry if it is still there.
PumpRemove(h) ==
  /\ pump[h] = "remove"
  /\ entries' = entries \ {h}
  /\ pump' = [pump EXCEPT ![h] = "done"]
  /\ UNCHANGED <<mgrClosed, attachCount, idle, toClose, sweeping, sinkVars, outVars,
                 fan, writing, procVars, streamVars>>

-----------------------------------------------------------------------------
HandlerStep(s) ==
  \/ RegisterSink(s) \/ RegisterCount(s) \/ AttachSink(s) \/ AttachCount(s)
  \/ AttachResize(s) \/ AckReplay(s) \/ ReadEnds(s) \/ InputLock(s)
  \/ DetachLookup(s) \/ DetachSink(s) \/ DetachCount(s)

PumpStep(h) == PumpExit(h) \/ SinkWrite(h) \/ PumpRemove(h)

ClientStep(s) ==
  \/ OpenFails(s) \/ ReadFrame(s) \/ InputTaken(s) \/ PeerStep(s)
  \/ \E h \in Handle :
       RegisterInsert(s, h) \/ RegisterClosed(s, h) \/ AttachReject(s, h) \/ AttachLookup(s, h)

Next ==
  \/ \E s \in Stream : ClientStep(s) \/ HandlerStep(s)
  \/ \E h \in Handle :
       \/ PumpStep(h) \/ PumpData(h) \/ ChildWatcher(h) \/ ChildExit(h)
       \/ Drop(h) \/ CloseSession(h)
  \/ Sweep \/ ManagerClose \/ Tick

Spec == Init /\ [][Next]_vars

(***************************************************************************)
(* Fairness.  The goroutines of the host keep running: the handler of a    *)
(* stream, the Pump and its watcher, the caller of Drop/Sweep/Close, the   *)
(* 60-second sweeper and the clock.  Where typing clients may take s.mu    *)
(* again and again, the one that waits for it is strongly fair: a          *)
(* sync.Mutex that is free again and again reaches every waiter.  A child  *)
(* whose pseudo-console is closed terminates.  Clients, children and their *)
(* output promise nothing, nor does p.Write.                               *)
(***************************************************************************)
Fairness ==
  /\ \A s \in Stream : WF_vars(HandlerStep(s)) /\ SF_vars(AttachResize(s))
  /\ \A h \in Handle :
       /\ WF_vars(PumpStep(h))
       /\ SF_vars(ChildWatcher(h)) /\ SF_vars(CloseSession(h))
       /\ WF_vars(closed[h] /\ ChildExit(h))
  /\ WF_vars(Sweep)
  /\ WF_vars(Tick)

FairSpec == Spec /\ Fairness

-----------------------------------------------------------------------------
(* Properties.                                                              *)

\* The last chunk in the scrollback that the stream was given at attach.
SnapAt(s) == IF replay[s] = <<>> THEN 0 ELSE replay[s][Len(replay[s])]

\* Positions of the live data frames of a stream, and the chunk in one.
DataAt(s) == {i \in DOMAIN wire[s] : wire[s][i].kind = "data"}
ChunkAt(s, i) == wire[s][i].chunks[1]

\* The stream is bound to its Session: its sink is installed.
Bound == {"regCount", "attCount", "resize", "ack", "loop", "input", "write", "detach",
          "rmSink"}

\* The stream has been counted in attachCount and not uncounted yet.
Counted == {"resize", "ack", "loop", "input", "write", "detach", "rmSink", "uncount"}

\* The dispatch under way has not reached the stream yet.
InFlight(h, s) == pump[h] = "data" /\ (s \in fan[h] \/ writing[h] = s)

\* What a reattach would replay is the end of what the child printed, RingCap
\* chunks of it, in order and without a gap, whoever was attached meanwhile
\* (dispatchData, ringBuffer.write, snapshot).
RingIsTail ==
  \A h \in Handle :
    LET r == Snapshot(ring[h]) IN
    /\ Len(r) = IF out[h] < RingCap THEN out[h] ELSE RingCap
    /\ \A i \in DOMAIN r : r[i] = out[h] - Len(r) + i

\* "A concurrent attach either sees this chunk in the ring snapshot OR receives
\* it via the new sink, never both": the live frames of a stream are strictly
\* increasing chunks, all later than its snapshot (dispatchData,
\* AddSinkWithSnapshot).
LiveFollowsSnapshot ==
  \A s \in Stream : \A i \in DataAt(s) :
    /\ ChunkAt(s, i) > SnapAt(s)
    /\ \A j \in DataAt(s) : i < j => ChunkAt(s, i) < ChunkAt(s, j)

\* "... and never neither": a bound stream whose connection is alive has been
\* sent every chunk after its snapshot, save the one whose dispatch is under
\* way (dispatchData holds sinkMu across ring write and fan-out).
NoChunkMissed ==
  \A s \in Stream :
    pc[s] \in Bound /\ sess[s] # NoHandle /\ peer[s] # "gone" =>
      \A n \in SnapAt(s) + 1 .. out[sess[s]] :
        \/ \E i \in DataAt(s) : ChunkAt(s, i) = n
        \/ n = out[sess[s]] /\ InFlight(sess[s], s)

\* attachCount of a live entry is the number of streams counted in, whatever
\* attaches and detaches interleave between the lookup under m.mu, the sink
\* change under sinkMu and the count change under m.mu (Attach, Detach).
AttachCountExact ==
  \A h \in entries :
    attachCount[h] = Cardinality({s \in Stream : sess[s] = h /\ pc[s] \in Counted})

\* Pump sends a stream no live data after its exit frame, and no second exit frame
\* (PTYHandler.OnExit is "called exactly once").  The stream's own handler may:
\* a stream that attaches while its session exits can get its ack and its replay
\* after the exit frame.
NoLiveAfterExit ==
  \A s \in Stream : \A i, j \in DOMAIN wire[s] :
    i < j /\ wire[s][i].kind = "exit" => wire[s][j].kind \notin {"data", "exit"}

\* "A successful Attach NEVER displaces previously-bound streams", and "a stale
\* RemoveSink call cannot remove a later sink": a sink leaves the map only in
\* its own stream's Detach (addSinkLocked, RemoveSink).
NoDisplacement ==
  [][\A h \in Handle : \A p \in sinks[h] \ sinks'[h] :
       pc[p[2]] = "rmSink" /\ pc'[p[2]] = "uncount" /\ sess[p[2]] = h]_vars

\* Sweep never evicts a Session that a stream is counted into: however long
\* the client is silent, an attached shell stays (Sweep).
SweepSparesAttached ==
  [][Sweep => \A s \in Stream : pc[s] \in Counted => sess[s] \notin Expired]_vars

\* What the host cannot bring about: every write to the console of a shell returns
\* at some time, and in the end every client reads or is gone.
ShellsTakeInput == \A h \in Handle : []<>MuFree(h)
ClientsRead     == \A s \in Stream : <>[]CanWrite(s)

\* A Session that Drop, Sweep or Close took out of the map ends, if it takes its
\* input and its clients read: its child terminates, Pump returns, nothing of it
\* is left running.  (Neither the leaving of the map nor the end of Pump is ever
\* undone, so "again and again there is none that has not ended" is leads-to.)
Ended(h) == h \notin entries /\ pump[h] # "none" => pump[h] = "done"
EvictedEnds == ShellsTakeInput /\ ClientsRead => []<>(\A h \in Handle : Ended(h))

\* A Session that nobody is attached to is reaped or reattached, unless the
\* sweeper hangs in the Session.Close of a shell that does not read (Sweep).
IdleReaped ==
  ShellsTakeInput => \A h \in Handle : []<>(h \notin entries \/ attachCount[h] > 0)

\* Once the client has closed its direction or is gone, the handler detaches and
\* closes the stream, if the shell takes its input and the other clients of the
\* Session read; PTYSession.Close waits for that (servePTYStream).
StreamEnds ==
  ShellsTakeInput /\ ClientsRead =>
    []<>(\A s \in Stream : peer[s] \in {"fin", "gone"} /\ pc[s] # "idle" => pc[s] = "closed")

-----------------------------------------------------------------------------
(* The inductive invariant behind LiveFollowsSnapshot and NoChunkMissed.    *)

\* A sink is its own stream's, under a token no other sink has.
SinkTableOK ==
  \A h \in Handle : \A p \in sinks[h] :
    /\ p[1] <= nextSink[h]
    /\ sess[p[2]] = h /\ token[p[2]] = p[1]
    /\ pc[p[2]] \in Bound \cup {"closed"}
    /\ \A q \in sinks[h] : p[1] = q[1] => p = q

\* The sink of a bound stream is installed; an unbound one has seen nothing.
BoundOK ==
  \A s \in Stream :
    /\ pc[s] \in Bound /\ sess[s] # NoHandle => <<token[s], s>> \in sinks[sess[s]]
    /\ pc[s] = "idle" => sess[s] = NoHandle
    /\ pc[s] \in {"idle", "regSink", "attSink"} => wire[s] = <<>> /\ replay[s] = <<>>

\* Nothing refers to an unopened Session; one stream registers it and Pump
\* starts, and output begins, only at the end of that.
OpenOK ==
  /\ \A h \in Handle :
       /\ child[h] = "none" => /\ h \notin entries /\ pump[h] = "none"
                              /\ \A s \in Stream : sess[s] # h
       /\ pump[h] = "none" => out[h] = 0
  /\ \A s \in Stream : pc[s] \in Registering =>
       /\ pump[sess[s]] = "none"
       /\ \A u \in Stream : pc[u] \in Registering /\ sess[u] = sess[s] => u = s

\* While Pump fans out, sinkMu keeps the sinks it has still to reach installed.
FanOK ==
  \A h \in Handle :
    /\ SinkMuFree(h) => fan[h] = {} /\ writing[h] = NoStream
    /\ ~SinkMuFree(h) => writing[h] \in SinkStreams(h)
    /\ fan[h] \subseteq SinkStreams(h) \ {writing[h]}

\* Nothing on the wire is ahead of the Session, nor level with it while the
\* dispatch under way has not reached the stream.
LiveOK ==
  \A s \in Stream :
    /\ sess[s] = NoHandle => DataAt(s) = {}
    /\ \A i \in DataAt(s) : ChunkAt(s, i) \in Nat
    /\ sess[s] # NoHandle =>
         /\ SnapAt(s) <= out[sess[s]]
         /\ InFlight(sess[s], s) => SnapAt(s) < out[sess[s]]
         /\ \A i \in DataAt(s) :
              /\ ChunkAt(s, i) <= out[sess[s]]
              /\ InFlight(sess[s], s) => ChunkAt(s, i) < out[sess[s]]

BindInv == SinkTableOK /\ BoundOK /\ OpenOK /\ FanOK
RingOK == \A h \in Handle : RingShape(ring[h])
StreamInv == TypeOK /\ BindInv /\ RingOK /\ RingIsTail /\ LiveOK /\ LiveFollowsSnapshot /\ NoChunkMissed

-----------------------------------------------------------------------------
(* What comments of the code say and the code does not do.                  *)

\* "Replay the ring buffer right after the ack, before any in-flight Pump
\* dispatch reaches the wire."
ReplayBeforeLive ==
  \A s \in Stream : \A i \in DataAt(s), j \in DOMAIN wire[s] :
    wire[s][j].kind = "replay" => j < i

\* "OnExit is called exactly once when the child process terminates or the
\* stream tears down": a stream bound to a Session whose Pump has ended gets
\* an exit frame, unless the stream itself goes.
ExitReachesBound ==
  \A s \in Stream, h \in Handle :
    (sess[s] = h /\ pc[s] = "loop" /\ pump[h] = "done")
      ~> (\E i \in DOMAIN wire[s] : wire[s][i].kind = "exit") \/ peer[s] # "up"

\* "A single broken stream does not ... starve the other attached sinks": a
\* client that reads gets the frame being fanned out.
HealthyNotStarved ==
  \A h \in Handle, s \in Stream :
    (s \in fan[h] /\ peer[s] = "up") ~> (s \notin fan[h] \/ peer[s] # "up")

\* "Drop removes a Session immediately, closing the underlying PTY and surfacing
\* PTYExit to whatever sinks remain": even if the shell does not take its input, as
\* long as all clients read and the console of a dead shell fails.
DroppedEnds ==
  ClientsRead /\ (\A h \in Handle : []<>(child[h] = "exited" => MuFree(h)))
    => []<>(\A h \in Handle : Ended(h))
=============================================================================
