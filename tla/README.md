# Verification of peersh

peersh gives a phone or a command line client a remote shell on a Windows or macOS host:
a signaling server introduces the two devices, they punch through NAT, and a QUIC
connection then carries pseudo-terminals, one-shot commands and file requests. This
directory holds TLA+ models of the parts of peersh whose correctness rests on interleavings,
TLC runs on small instances, and TLAPS proofs for all sizes.

`tlc -config X.cfg M` checks a run of the table below; `tlapm M.tla` checks the proofs of a
`*Proofs` module. `PROJECT.json` lists runs, properties, theorems, mutants (changed definitions that
break a property), the lines each definition models, hazards and findings.

## 1. The system

| Part | State it keeps | Operations | Talks to |
|---|---|---|---|
| `windows/ptyhost` Manager | `entries`, `attachCount`, `lastSeen`, `closed` under `m.mu`; a ring per entry | Register, Attach, Detach, Drop, Sweep, Close, List | stream handlers, Session |
| `windows/ptyhost` Session | `sinks`, `nextSink` under `sinkMu`; pseudo-console, child and `closed` under `mu` | Pump (one goroutine per session), AddSink, AddSinkWithSnapshot, RemoveSink, Write, Resize, Close | writes to the streams of all attached clients |
| `windows/ptyhost` ringBuffer | `buf`, `cap`, `head`, `full` | write, snapshot | Manager, Session |
| `peershd` servePTYStream | a handler goroutine per stream, `writeMu` | open or reattach, ack, replay, read loop, detach | Manager, mobile-core and the CLI over QUIC |
| `core/auth/psk` | nonce cache under its lock | Authenticate, MemoryNonceCache.Add | signaling handshake, store |
| `server/ws` | a goroutine per WebSocket | handshake, registration, dispatch, idle timeout | clients, registry, auth, rate limiter |
| `server/room` | `devices` under an RWMutex | Register, Forward, Unregister | writes to other connections' sockets |
| `core/signaling` client | read pump, `incoming`, `closeOnce` | Dial, SendConnect, Recv, Close | host loop, mobile-core, CLI |
| `server/ratelimit` | `entries`: token buckets with a time stamp | Allow with refill and prune, Reset | `server/ws` |
| `windows/firebase` WakeListener | an event stream, the channel `out` | consume, dispatch, reconnect | Realtime Database, wake pump |
| `peershd` wake pump, runSignaling | the current WebSocket window, grants | dial on wake, serve Connects, delete, drain | signaling client, `windows/peerauth` |
| `windows/peerauth` | one-shot grants with a TTL | Allow, Check, Sweep | signaling loop, `serveConn` |
| `windows/pwsh` | sessions with `attached`, `execMu` | Attach, Detach, Exec, Sweep | stream handlers |
| `mobile-core` | Session (`mu`, `lastPTYID`), PTYSession (`mu`, `writeMu`, `pumpDone`) | connect with retries, Exec, PTY open/write/close, file requests | server, host |
| `peersh-cli` | the same without an object: a mode, one connection, `writeMu` | connect, REPL, list, picker, PTY mode | server, host |
| `peershd` files | `ptyRegistry` of a connection | list, kill, files of a tab | mobile-core, CLI |
| files of the host | device key, refresh token, executable | load, generate, rotate, update | peershd, `peershd update`, peersh-cli |
| files of the server | SQLite: migrations, PSK and user rows; configuration | serve, psk add, revoke, list | PSK authentication |
| notifications, cwd tracker, Cloud Functions, mobile app | see `PROJECT.json` | | |

What is hard in it:

- the Manager never holds `m.mu` and `sinkMu` together, so Attach and Detach each run in three
  critical sections, and everything (output, exit, sweep, kill, another attach) fits between;
- Pump writes to every client's stream synchronously while it holds `sinkMu`, and Write writes to
  the console while it holds `Session.mu`, which Close needs: either write may block;
- the scrollback is a ring that any chunk may wrap, fill to the edge or exceed;
- the registry picks a target connection under its lock and writes to it without it;
- a connection that was replaced ends after its successor has registered;
- Authenticate uses one clock reading on both sides of a store lookup;
- timeouts (idle close, sweep, TTLs, retries) race with late activity;
- a wake request goes through a stream that breaks, a bounded channel and a drain that throws
  events away;
- files are written in place, without locks, by processes that may be killed anywhere;
- no command on the database is a transaction;
- a frame is two writes, and several threads write to one stream.

What makes the parts correct: a terminal stream is gap-free and duplicate-free over any
sequence of attaches; nobody displaces another client; the count that protects a session from
the sweeper is exact; evicted sessions end. The registry holds exactly the live connections; a
Connect reaches only the device it names with a true sender; every server goroutine ends. A
signed Register is accepted once. A wake request is served or stays; one Connect lets in one
connection. The limiter behaves as if it forgot nothing. A host keeps its identity, its token and
its executable over crashes; a revoked secret stays revoked. The client's callbacks fire once, its
frames are whole, and its calls return.

## 2. Modules

### RingBuffer (MCRingBuffer, PtyHostProofs)

`ringBuffer` of `windows/ptyhost/manager.go` as operators on its four fields: `RingWrite` has the
branches of `write` (the chunk fits; the first one that does not fills the buffer and overwrites
with the rest; `Overwrite` is the wrap at `head`, a chunk that ends at the edge, and one as long
as the buffer), `Copy` is Go's `copy`, `Snapshot` is `snapshot`. That the buffer keeps the most recent
output is stated apart from them: `RingKeepsTail` of MCRingBuffer, where chunks of every size are
written in every order, and the theorem `RingTakesAnyChunk`. PtyHost uses the same operators for the
ring of a session.

### PtyHost (MCPtyHost, PtyHostProofs)

Models `windows/ptyhost/manager.go`, `windows/ptyhost/ptyhost.go` and `servePTYStream` in
`windows/cmd/peershd/main.go`. One action is one critical section of `m.mu`, `sinkMu`, `Session.mu`
or `writeMu`, or one blocking call:

| Code | Actions |
|---|---|
| `ptyhost.Open`, `Manager.Register` | `OpenFails`, `RegisterInsert`, `RegisterClosed`, `RegisterSink`, `RegisterCount` |
| `Manager.Attach`, and the Resize after it | `AttachReject`, `AttachLookup`, `AttachSink`, `AttachCount`, `AttachResize` |
| ack and replay, read loop | `AckReplay`, `ReadFrame`, `ReadEnds` |
| `Session.Write`, `Session.Resize` | `InputLock` (`s.mu`), `InputTaken` (`p.Write` returns, external) |
| `Manager.Detach` | `DetachLookup`, `DetachSink`, `DetachCount` |
| `Drop`, `Sweep`, `Close`, and the `Session.Close` they call after unlocking | `Drop`, `Sweep`, `ManagerClose`, `CloseSession` |
| `Session.Pump`, `dispatchData`, `dispatchExit`, watchers | `PumpData`, `PumpExit`, `SinkWrite`, `ChildWatcher`, `PumpRemove` |
| the child, the clock, the client | `ChildExit`, `Tick`, `PeerStep` (external) |

Abstractions. A chunk of output is its number, so "which output, in which order" is kept and
its bytes are not; the ring holds chunks, each of one unit (chunks of other sizes are MCRingBuffer's).
A session, its entry and its random 80-bit handle
are one element of `Handle`: handles do not collide. All clients of one peershd have the same
owner (`serveConn` passes `selfUserID`), so the owner comparisons succeed. `lastSeen` becomes
`idle`, the ticks since, saturating just past the timeout. A client can read, stop reading
(`stalled`, only streams in `SlowStream`), close its direction, or be gone; a write blocks
while it is stalled. Streams in `TypingStream` send frames: an Input or a Resize, which the handler
passes to the Session, or one that does not parse, which ends its loop. A handler in `write` is inside
`p.Write` and holds `Session.mu` (`MuFree`), so `Session.Close`, a Resize and another Write wait for
the console. What input does to the child is not followed, nor are the titles of List.

### PskAuth (MCPskAuth, AdmissionProofs)

Models `core/auth/psk/psk.go`. `Start` is Authenticate up to the store lookup (nonce length,
clock reading, skew check), `LookupFails` its error returns, `AddNonce` the rest: the lazy
cleanup and insertion of `MemoryNonceCache.Add` with the *old* clock reading, and the HMAC
comparison. `Restart` empties the process-local cache. The clock has `Sub` ticks per second
because the skew check truncates to seconds and the cache does not. The HMAC is a flag: a
genuine copy passes, an altered one does not. A call reaches the cache at most `MaxLag` ticks
after its clock reading (the handshake has a deadline).

The assumption `Window >= 2*ClockSkew*Sub + Sub - 1 + MaxLag` is what the code's defaults
satisfy (60 s skew, 5 min window, 10 s handshake deadline) and what `config.Validate` does not
require; the run takes the smallest window the assumption allows, and the mutant that drops
entries one tick earlier is caught, so the assumption is tight.

### Signaling (MCSignaling, SignalingProofs)

Models `server/ws/handler.go`, `server/room/registry.go` and `core/signaling/client.go`
together. Per connection there is a server goroutine (`pc`), a socket in each direction (`up`,
`down`), and a client (`cli`).

| Code | Actions |
|---|---|
| `handshake` | `SrvHello`, `HandshakeFails`, `Accept`, `SendAck` |
| `Registry.Register` and the notice to the replaced connection | `Install`, `SendDone` |
| `readFrameWithIdleTimeout`, `dispatch` | `Dispatch`, `IdleTimeout`, `ReadError` |
| `Registry.Forward` | `Forward` picks the target, `SendDone` writes to it |
| deferred `Unregister`, `Close` | `Unregister`, `SrvClose` |
| `Dial` | `Dial`, `DialHello`, `DialAck`, `DialFails` |
| `readPump`, `SendConnect`, `Recv`, `Close` | `PumpRead`, `PumpFails`, `SendConnect`, `Recv`, `Close` |
| the network | `NetCut` (external) |

Abstractions. The identity a connection authenticates as is chosen in `Init`; authentication,
App Check, device-id and rate-limit decisions are free choices (`HandshakeFails`, the first
disjunct of `Dispatch`). The ten seconds of the handshake may end at any of its reads and writes, the
RegisterAck's among them; they do not cover the writes of a registered connection. `Cap` is the number of frames a socket
takes before a write blocks; the read limit allows frames of up to 1 MiB, so a small number is
realistic. `Claims` are the `from_device_id` values clients write. `by` (in a forwarded
Connect) and `replaced` are history: no action reads them.

### ExecHost (MCExecHost, ExecHostProofs)

Models `windows/pwsh/manager.go`, `windows/pwsh/pwsh.go`, and `serveConn`, `doHandshake` and
`serveExecStream` in `windows/cmd/peershd/main.go`, on a host that has a PowerShell.

| Code | Actions |
|---|---|
| `doHandshake`, `AttachOrCreate` | `HelloRefused`, `Reattach`, `StartFresh` (unlocked), `Insert`, `Reply` |
| `serveConn`, `Detach` | `OpenExec`, `ConnEnds` |
| `Sweep`, `SessionManager.Close`, `Host.Close` | `Sweep`, `ManagerClose`, `HostClose`, `HostJoin` |
| `Exec`, `Recv`, `release`, `serveExecStream` | `ExecLock`, `ExecWrite`, `RecvLine`, `RecvEnd`, `MarkIdle`, `RecvCancelled` |
| `pumpLines` | `PumpLine` |
| the process, its pipes, the connection, the stop signal | `PrintLine`, `Finish`, `ChildExit`, `PipeLost`, `ConnDrop`, `Stop` (external but for the stop) |

Abstractions. A line is its number within its command; the random sentinel of a command is
`End(e)`, different for every Exec. The operating system's pipe and the line a pump has read
are one slot, which is lost if `Wait` closes the pipe first. Idle timeouts are the clamped
values, in ticks. Lines on stderr are not told apart: the package comment says that they may
appear in the next command's output.

### TokenBucket and RateLimit (AdmissionProofs)

`TokenBucket` is what `server/ratelimit` promises: every key has a bucket that is refilled all the
time, and nothing is forgotten. `RateLimit` is `Bucket.Allow`: the lazy refill from `entry.last`,
the prune of entries that have been idle for longer than ten minutes, and the token. The mapping
gives a key the level that Allow would find in its bucket; a key without an entry has a full one.
A token is `Refill` units and a tick adds one, so levels are exact numbers where the code has
floating point. `Watch` begins an observation anywhere; `RateBound` is about every observation.
That a pruned bucket would have been full needs `IdleTTL + 1 >= Capacity * Refill`
(`LimitAssumption`): the defaults satisfy it, `ratelimit.New` does not ask for it, and the mutant
that prunes one tick earlier breaks the refinement. The definitions of `RateLimit` that every
specification has begin with `Limit` (`LimitSpec`), because AdmissionProofs extends it together
with PskAuth.

### PeerAuth and Rendezvous (RendezvousProofs)

How a client reaches a host, composed of several parts. `PeerAuth` has `windows/peerauth` as
operators on the map of grants; `Rendezvous` has the rest:

| Code | Actions |
|---|---|
| `fireWakeRequest` and its counterpart in the app | `FireWake` |
| WakeListener: `consume`, `dispatch`, `maybeEmit`, `run` | `Listen`, `Frame`, `Emit`, `EmitDone`, `StreamEnds`, `StreamExpires`, `Relisten` |
| `runWakePump`, `handleWakeBatch`, `drainWakeChannel`, and `runSignaling` of PSK mode | `PumpTake`, `HostDial`, `HostDialFails`, `HostRecv`, `HostRecvFails`, `HostReply`, `WindowExpires`, `DeleteWake`, `Drain` |
| the signaling server, reduced to the host's registration | `ServerIdle`, `ServerUnregister` |
| `openSignalingInternal`, `negotiateConnectWithRetry`, the dials of the candidates | `Begin`, `ClientConnect`, `ClientRetry`, `ClientFails`, `QuicDial` |
| `serveConn`: `Authz.Check`; `RunSweeper` | `QuicAccept`, `Sweep` |
| the network, the supervisor, the clock | `HostCut`, `QuicLost`, `Restart`, `Tick` (external) |

Abstractions. The server is not modelled again: `reg` says whether a Connect to the host would be
forwarded to a connection that the host reads (`live`), to one it has left (`zombie`), or is
answered with target_unknown. A wake request is its client and session; the snapshot and the put
and patch frames of the event stream are sets of requests. A backoff is long (200 ms) against the
drain of a channel of eight; `Relisten` waits for it. The limits of the server are free refusals.
`dials` counts the handshakes of a client that serveConn has not seen yet: a client dials the
candidates of one reply in turn and leaves a dial after two seconds, so several may complete, and
late, when it has long asked again. A DeadlineExceeded of the token, of Listen or of the stream ends
the listener (`lst = "done"`). A client may ask again and again, without a bound; only its first
`MaxSessions` wake requests are written.

### SignalStore (MCSignalStore, SignalStoreProofs)

Models `peersh-signaling` (`serve`, `psk add`, `psk revoke`, `psk list`), `server/admin`,
`server/config` as far as the store goes, and `core/store/sqlite` with its migrations, as
processes that share one database file. One SQL statement is one step.

| Code | Actions |
|---|---|
| `config.Load`, `validate` | `config`, `StoreBackend`, `BootstrapPSKs`, `Validate`, `BadConfig` |
| `runPSK`, `runServe` | `Command`, `Serve`, `Listening`, `Dies` |
| `sqlite.Open`, `runMigrations` | `OpenDB`, `Apply`, `Record` |
| `AddPSK`, `RevokePSK`, `ListPSKs` | `AddLookup`, `AddPut`, `AddUser`, `RevokeLookup`, `RevokePut`, `List` |
| `applyBootstrapPSKs` | `Seed` |
| an ephemeral file system | `Wiped` (external) |
| `Authenticate`, as far as the rows go | `Lookup` (`Admits`), `Accept`, `Answer` |

A secret is a number. A Register in flight (`call`) has read its record and is accepted in a later
step, whatever happened to the row in between. `retired` and `printed` record what the commands told
the operator, and `late` of a call whether its secret was reported as revoked before it began.

### HostMachine (MCHostMachine, HostMachineProofs)

The files of one machine (`key.pem`, the token file, the executable with `.new` and `.old`) and
the processes that share them: peershd from its start to its exit, `peershd update`, and
peersh-cli, which uses the token file of peershd. A file is truncated in one step and written in
another; `Kill` fits between any two steps.

| Code | Actions |
|---|---|
| `main`, `runWithCtx`, `run`, `program.Stop` | `Start`, `Bind`, `Listen`, `NoFirebase`, `RegisterDevice`, `LoginOnly`, `Kill` |
| `LoadOrGenerateKey`, `writeKey` | `LoadKey`, `WriteKey` |
| `NewRefreshSource`, `New`, `Pair`, `GoogleSignIn` | `LoadToken`, `Credentials`, `Claim`, `Browse`, `SignIn` |
| `Token` of both sources, `exchangeRefreshTokenForIDToken`, `writeTokenFile` | `Call`, `Token`, `Exchange`, `Reply`, `WriteToken`, `RequestFails`, `WriteFails` |
| `runUpdate` and its helpers | `FetchLatestRelease`, `Compare`, `PickAssets`, `Download`, `Verify`, `Keep`, `Install`, `Clean` |

Google is what the code expects of it: an exchange may issue a new refresh token and may end the
old one. A program replaces the token in its memory first and writes the file second, once: after
`WriteFails` a running host goes on with a token that is nowhere on disk. `FileReplaced` is an action
property over all of it, kills, failed writes and two writers included; that the file is *usable*
does not hold (`TokenLost`). An answer and the write after it take at most `MaxDelay <= Margin`
(two minutes): the code sets no timeout for its requests, so that is an assumption on the network. The
service account's token lives 58 minutes of an hour, and two less in the cache.

### Client (MCClient, ClientProofs)

Both programs that use a host, over one QUIC connection, and the host's side of its streams.

| Code | Actions |
|---|---|
| `run` of peersh-cli up to the connection, `core/punching` | `Start`, `Discover`, `Key`, `FirstToken`, `ListHosts`, `PickHost`, `Negotiate`, `SortCandidates`, `Punch`, `Dial`, `Handshake`, `Interrupt` |
| `openDirectInternal`, `doHello`, `Session.Close` | `DialDirect`, `DoHello`, `SessionClose` |
| `Session.Exec`, `runOnce`, `repl` | `Exec`, `ExecOpen`, `ExecRead`, `RunOnce`, `Quit` |
| `ListPTYs`, `KillPTY`, `GetCWD`, `ListSessionFiles`, `ReadSessionFile`, the picker | `ListPTYs`, `KillPTY`, `TabCall`, `CliList`, `CliKill`, `Refresh`, `FileRead` |
| `OpenPTY`, `OpenPTYReattach`, `dispatchPTY`, `runPTY` | `OpenPTY`, `RunPTY` |
| `PTYSession.Write`, `Resize`, `SendNotificationConfig`, `wire.Write`, `Close`, `pump` | `Write`, `Send`, `WriteLock`, `WirePart`, `PtyClose`, `Join`, `Pump`, `PumpFails`, `CliPump` |
| `serveStream`, `servePTYStream`, `serveExecStream`, `serveFilesStream` | `HostAttach`, `HostRefuses`, `HostAck`, `HostRead`, `HostEnds`, `HostDrops`, `HostExec`, `HostList`, `HostKill`, `HostTab` |
| the QUIC idle timeout, the shells | `NetLost`, `ShellPrints`, `ShellExits` |

Abstractions. What happens behind a stream is in PtyHost and ExecHost; here a shell is attached
to, prints and exits in one step. A frame that several threads may write is two elements of its
stream, its length and its payload. Files are answered by naming the shell they belong to. `pwsh` says
whether the host has a PowerShell: without one `serveExecStream` answers an Exec with a Done at once,
although nothing ran; with one the command runs and ends in a Done, or the stream ends without
(Exec or Recv failed). The host's handlers may hang at every step, as they do in PtyHost.

## 3. Runs

| Run | Checks | Result |
|---|---|---|
| `pty_safety` | two streams, one session: `TypeOK`, `RingIsTail`, `LiveFollowsSnapshot`, `NoChunkMissed`, `AttachCountExact`, `NoLiveAfterExit`, `NoDisplacement`, `SweepSparesAttached`, with clients that may stall | holds |
| `ring` | `RingKeepsTail`, for chunks of every size | holds |
| `pty_live` | `EvictedEnds`, `IdleReaped`, `StreamEnds` under `FairSpec`, with a client that may stall and one that types | holds |
| `psk_replay` | `NoReplay` and its inductive invariant `PskInv` | holds |
| `sig_safety` | `TypeOK`, `RegistryLive`, `StaysReachable`, `RoutedTruly`, `AckBeforeConnect` | holds |
| `exec_safety` | `TypeOK`, `Tracked`, `OwnOutput` | holds |
| `limit_refines` | `RateBound`, and `Implements`: RateLimit refines TokenBucket | holds |
| `rendezvous` | `OneGrantOneConn`, the action property `WakeKept`, and `EveryWakeSurfaces`, `PumpReturns` under `FairSpec` | holds |
| `store` | `SchemaComplete`, `RevokeLasts`, `PrintedWorks` | holds |
| `machine` | `IdStable`, `Installed`, and the action properties `TokenFresh`, `FileReplaced` | holds |
| `client` | `ExitOnce`, `FramesWhole`, `TabHasItsShell`, and `CloseReturns`, `ClosedReleases` | holds |
| `exec_silent` | `DoneHonest`: OnDone's "errMessage is "" on clean success, non-empty on failure" | violated |

`exec_silent`: when Exec or Recv fails on the host, `serveExecStream` returns without a Done
response. Its stream ends, `execLocked` takes io.EOF for the end of the command, and the app is
told of a clean success of a command that did not run. The configuration has the app alone, on a host
with a PowerShell. (On a host without one the Done itself says nothing of it, `main.go:1138-1143`; a run
with such a host would violate `DoneHonest` too.)

`NoLiveAfterExit` is about what Pump sends: a stream that attaches while its session exits can be
given the exit frame first and its ack and replay after it. `LiveFollowsSnapshot` and
`NoChunkMissed` are about bound streams; what a stream misses that attached to a session which was
already gone is `PtyExitLost`.

One more configuration holds and is checked by hand: `SignalingLive` (MCSignaling) shows `HandlerEnds`
under `LiveSpec`, that every goroutine of the server ends, where sockets do not fill up; that they must
not is `SigIdleBlocked`.

The modules of the second group (`limit_refines` to `exec_silent`) define a `TypeOK` too; it adds
nothing to what their properties say of the code and is in no configuration.

### Counterexample configurations

Further sentences of the repository that the code does not keep. Each configuration checks one
property, and TLC finds it violated (`tlc -config X.cfg M`):

| Configuration, module | Property | Sentence |
|---|---|---|
| `PtyReplayOrder`, MCPtyHost | `ReplayBeforeLive` | "Replay the ring buffer right after the ack, before any in-flight Pump dispatch reaches the wire" (`windows/cmd/peershd/main.go:1044`) |
| `PtyExitLost`, MCPtyHost | `ExitReachesBound` | OnExit is "called exactly once when the child process terminates ..." (`mobile-core/peersh.go:490`) |
| `PtyDeaf`, MCPtyHost | `DroppedEnds` | "Drop removes a Session immediately, closing the underlying PTY and surfacing PTYExit to whatever sinks remain" (`windows/ptyhost/manager.go:277`) |
| `PtyStarved`, MCPtyHost | `HealthyNotStarved` | a broken stream does not "starve the other attached sinks" (`windows/ptyhost/ptyhost.go:34`) |
| `SigCloseLeaks`, MCSignaling | `CloseShutsDown` | "Close shuts down the WebSocket and read pump" (`core/signaling/client.go:241`) |
| `SigIdleBlocked`, MCSignaling | `IdleCapped` | IdleTimeout "caps how long a registered connection may sit ..." (`server/ws/handler.go:68`) |
| `ExecStuck`, MCExecHost | `ExecReturns` | "ErrBusy is returned by Exec when another Exec on the same Host has not yet reported io.EOF" (`windows/pwsh/pwsh.go:55`) |
| `HostOffline`, Rendezvous | `HeldOpen` | "In PSK mode the host holds it open continuously" (`docs/design/architecture.md`) |
| `PskUnrevoked`, MCSignalStore | `RevokedRefused` | "A revoked PSK must not authenticate." (`docs/design/data-model.md`) |
| `PskRotate`, MCSignalStore | `CanRotate` | "revoke first if you need to rotate" (`docs/deploy/self-hosting.md`) |
| `AddRaced`, MCSignalStore | `AddRefuses` | "It refuses to overwrite an existing record for the same user_id" (`server/admin/admin.go:34-35`) |
| `TokenLost`, MCHostMachine | `FileUsable` | "persists a refresh token; subsequent runs need no prompt" (`docs/deploy/macos-host.md:56`) |
| `KeyReplaced`, MCHostMachine | `IdStable`, with reads of `key.pem` that may fail | "If dir already contains KeyFile, the key is loaded." (`core/transport/peertls/peertls.go`) |
| `KeyRaced`, MCHostMachine | `IdStable`, with two peershd that start at one time | the same |
| `UpdateRaced`, MCHostMachine | `Installed`, with two updates at one time | "Atomic swap" (`windows/cmd/peershd/update.go:19`) |
| `CloseHangs`, MCClient | `CloseAlways` | that Close returns: it waits without a deadline (`mobile-core/peersh.go:712`) |
| `CloseKeepsShell`, MCClient | `CloseEndsShell` | "Close terminates the PTY ... The host's pseudo-console pump observes EOF and tears down the child." (`mobile-core/peersh.go:701-702`) |

What they show:

- *Replay order.* The sink is installed (Register, Attach) before the handler takes `writeMu`
  for ack and replay. Pump can write through it in that window: a newer chunk precedes the
  replay of older ones (and, in the same window, a data frame precedes the ack, which a
  comment calls the first frame). No chunk is lost or doubled; only the order on the wire is
  not the promised one.
- *Lost exit.* Attach looks up its entry, the session's Pump dispatches the exit and removes
  the entry, Attach then adds its sink: the reattach is acknowledged and no exit frame comes.
- *Deaf shell.* A handler inside `p.Write` holds `Session.mu` for as long as the console does not take
  its input. `Session.Close`, which Drop and the watcher of the child call, waits for it: the session is
  out of the map, its child runs, and its streams stay. The same wait stops the sweeper.
- *Starvation.* A sink is called under `sinkMu`; a client that stops reading blocks it, and
  with it every other stream, Attach and Detach of that session.
- *Close leaks.* `readPump` treats a ServerError as the end (its comment says it
  continues), and `recordCloseErr` spends the `sync.Once` that `Close` needs, so the later
  `Close` does not close the WebSocket. The server closes it after its idle timeout.
- *Idle close blocked.* On the idle timeout the handler writes a ServerError without a
  deadline, before it unregisters. If the frozen client's socket is full, it stays there.
- *Exec stuck.* An Exec keeps `execMu` until its Output has reported the sentinel. A handler
  that returns early (its client is gone) or whose PowerShell ended never gets there, and the
  next Exec of the session, by any connection, waits for the lock instead of getting ErrBusy.
- *Host offline.* A PSK host sends a frame only when it answers a Connect. After 60 s without
  one the server closes it as idle, `Recv` fails and `runSignaling` returns; nothing dials again.
- *Unrevoked.* `applyBootstrapPSKs` writes the rows of its users at every start of the server
  and clears `revoked_at`. `RevokeLasts` is therefore stated for the other users.
- *No rotation.* `AddPSK` refuses a user whose row exists, revoked or not, and `RevokePSK` keeps
  the row: after a revoke no new secret can be added.
- *Add raced.* `AddPSK` looks for a row and puts its own in two statements, and the put is an upsert.
  Two `psk add` for one user that overlap both find none, both print a secret, and the first one's
  does not work. `PrintedWorks` is therefore stated for commands of one user that do not overlap.
- *Token lost.* A rotated token is in memory when its write fails, or stops half way: the host
  serves on with it, does not write it again, and its next start finds the old token or none.
- *Key replaced.* Any error of `os.ReadFile` leads to a new key, which overwrites the old one.
- *Key raced.* The key is generated and written before the port is bound. Of two peershd started
  at one time on a machine without a key, the one that fails to bind may have written the file
  last; the other serves under a key that is gone at its next start.
- *Update raced.* Two updates share `<exe>.new`. One may truncate or remove it between the other's
  checksum and renames, which then install a partial file, or none.
- *Close hangs.* The handler on the host sits in `sess.Write` (`main.go:1070`) for a shell that does not
  read, so it does not see the end of the stream, and PTYSession.Close waits for a pump that nobody lets
  go until the connection ends. `CloseReturns` is therefore conditional on the host's answer.
- *Close keeps the shell.* The host detaches the stream; the shell lives on until it exits, is killed
  or is idle for the Manager's timeout.

### Bounds

- `pty_safety`: one session, two streams, `RingCap = 1`, `MaxChunk = 2`, `IdleTimeout = 0`.
  Two chunks with a ring of one are the smallest instance in which the ring wraps and a
  reattach sees a truncated history; two streams give every pair of concurrent Register,
  Attach and Detach; sessions share only the Manager's map, of which the actions touch one
  entry each (ManagerClose and Sweep touch several; the proofs cover that). A stream handler
  runs once, so a stream stands for one use of it. Deadlock is not checked for PtyHost: the
  streams and sessions of an instance are used up and then nothing more happens.
- `ring`: capacities 1 to 6, chunks of 0 to 14 units (more than twice the largest capacity), 40
  units in all: every head, every wrap, and every chunk that fits, ends at the edge or exceeds the
  buffer, several times over.
- `pty_live`: one session; the client of one stream may stop reading, so that Pump blocks in the exit
  fan-out and others wait for `sinkMu`, and that of the other types, so that a handler may stay in
  `p.Write` under `Session.mu`. peershd does not stop (`MayStop = FALSE`), so that sessions end by Drop
  and Sweep alone. Output is left out (`MaxChunk = 0`): a fan-out of data blocks as one of the exit
  does, and the session goes on after it. The same in `PtyExitLost`, `PtyStarved` and `PtyDeaf`.
- `psk_replay`: 2 ticks per second, skew 1 s, lag 1 tick, the smallest window (6 ticks), time to
  tick 8, so a nonce expires and a replay after it is tried.
- `sig_safety`: two connections with every combination of two users and two devices (so the same
  device twice, two devices of one user, and two users), sockets of two frames, one Connect per
  connection. Three connections (a successor of a successor) are left to the proofs, which
  hold for any number. All connections end in `Finished`, so deadlock is checked.
- `SignalingLive`: sockets that never fill (`Cap = 8`) and no network failure; that a full socket
  breaks the property is `SigIdleBlocked`.
- `exec_safety`: one session shared by two connections, two commands of up to two lines on
  stdout, channels of one line. That is enough for a command after an abandoned one, a second
  connection on the session of the first, a full channel and a shutdown between Start and
  insertion. A finished or stuck system has no step left, so deadlock is not checked.
- `ExecStuck`: commands without output; the lock is what matters.
- `limit_refines`: two keys (the prune of one happens in a call for the other), a burst of 2, a
  token every 2 ticks, and the shortest `IdleTTL` the assumption allows; observations of up to 5
  ticks, longer than it takes to fill a bucket and to prune it.
- `rendezvous`: one client, whose first two sessions write a wake request and which goes on to ask
  without a bound, so that a request of an old session, a second wake during a window, a new Connect
  beside an unused grant, and a window that Connects keep open for ever occur; a channel of one
  event, which a second one finds full; one Connect on its way; two handshakes under way at a time
  (`MaxDials`); grants of no tick and windows of one, an idle timeout of two, and two attempts, so that
  each expires or is used up in either order. Both modes are checked.
- `store`: two psk commands at a time and the server; two users, of whom one is configured, two
  drawn secrets, a migration of two statements; one Register in flight; four configurations, among them an entry that
  does not decode, one that does not parse, and the Firestore backend.
- `machine`: a peershd and a peersh-cli with one token file, or an update; an ID token lives
  three ticks with a margin of one; two keys and three refresh tokens that exist at one time
  (a number whose bearer is gone is drawn again, so their sequence is unbounded). One peershd
  at a time: a second one fails to bind port 7777 (what it may do before that is `KeyRaced`); and
  one update at a time (two are `UpdateRaced`).
- `client`: two threads with two streams, or with two writes on one stream; each mode of
  peersh-cli, and its REPL on a host without PowerShell; one shell, which may be alive, dead or not yet born at the start; replies with
  two addresses and one that does not parse, or none.

Symmetry is used in runs of safety properties only, over sets whose elements the model treats
alike (in `pty_safety` both streams may stall).

### Fairness

`PtyHost!FairSpec`: the Go runtime keeps running goroutines that are not blocked, so each
handler step, Pump with its watcher, the 60-second sweeper and the clock are weakly fair; a child
whose pseudo-console is closed terminates. Whoever waits for `Session.mu` (each owed `Session.Close`,
the watcher, a Resize after Attach) is strongly fair: typing clients may take the mutex again and
again, and a `sync.Mutex` that is free again and again reaches every waiter. Nothing is assumed of
`p.Write`, of clients, of a child whose console is open, or of output; the properties state what they
need of these as premises: `ShellsTakeInput`, that each write to a console returns, and `ClientsRead`, that
a client that has stopped reading reads again or is gone (the idle timeout of QUIC ends a connection
that does not answer; one whose application does not read stays, which is `PtyStarved`).
`Signaling!LiveSpec`: only the server's goroutines are fair (the timers of the handshake and of the
idle close are among their steps); a client may freeze anywhere. `ExecHost!FairSpec`: the host's goroutines, the sweeper and the clock
run, a command ends unless its process does, and a process whose Host is closed is killed (Close
does so after three seconds).

`Rendezvous!FairSpec`: the goroutines of the listener and of the pump run and the clock ticks
(weak fairness). A stream that is opened again and again succeeds at some time and delivers its
first frame (strong fairness of `Listen` with success and of `Frame`): the listener retries for
ever, and the database answers an open stream with a snapshot at once; each stream meets its
deadline (`StreamExpires`). peershd is not restarted for ever. Nothing is assumed of clients, of the
server, of dials or of deletions. In particular a client may send a Connect every few seconds
(`DevicePerMinute` is 30, `server/config/config.go:162`), each of which moves the end of the window to five
seconds from its reply (`main.go:766-768`): `PumpReturns` and `EveryWakeSurfaces` except a pump that serves
Connects again and again.

`Client!Spec`: calls that have begun, and pumps, run. Nothing is assumed of callers, commands,
shells, the network, or the host, whose handlers may block in a write to a shell or wait for a lock that
such a write holds. `CloseReturns` has the host's answer as its premise (`Answered`);
`ClosedReleases` has none.

## 4. Proofs

Every safety invariant, every action property and the refinement that a run checks is stated by a
theorem of this section, for every number of sessions, streams, connections, clients, keys,
processes, statements and threads, and for every capacity. The assumptions are the `ASSUME`s of the
modules: the "no value" constants are not values, capacities are positive, the set of streams is
finite, and four relations between numbers that the code's defaults satisfy:

| Assumption | What it asks |
|---|---|
| `PskAssumption` | the nonce window covers twice the skew, one truncated second and the lag of a call |
| `LimitAssumption` | a bucket that is pruned would have been full |
| `MachineAssumption` | an answer and its write take no longer than the margin; two margins are shorter than a token's life |
| `RendezvousAssumption` | at least one attempt, a channel of at least one event |

Two theorems of HostMachineProofs (`UpdateInstalls`, `KeyLasts`) are conditional; the conditions are named there, and the
counterexample configurations `UpdateRaced`, `KeyRaced` and `KeyReplaced` show that they are needed.

All proofs have one shape: an inductive invariant, a lemma per conjunct with a step per action (or
per kind of action, where many actions leave the conjunct's variables alone), and the properties
as consequences. TLC checked each invariant on a small instance before it was proved.

*PtyHostProofs.* `NoChunkMissed` and `LiveFollowsSnapshot` are not inductive: that a dispatch
reaches a stream depends on its sink being in the map, and that it reaches it once on the map
not changing meanwhile. `BindInv` says who owns which sink (`SinkTableOK`, `BoundOK`), that Pump
does not run before registration is over (`OpenOK`), and that the streams a fan-out has still to
reach keep their sinks (`FanOK`, which is where `sinkMu` enters). `LiveOK` bounds what is on the
wire by the session's output, strictly while a dispatch is on its way. `StreamInv` conjoins them;
`BindCorrect`, `StreamCorrect`, `NeverTwice`, `NeverNeither`, `RingCorrect` and the action
property `NeverDisplaced` follow. `CountCorrect` counts the streams between their `++` and `--`
with the cardinality theorems; the guard `> 0` of the decrement never matters because of it.
`SweepSpares` follows from it. `NoLiveLate` needs `ExitInv`: once a stream has its exit frame, Pump
is past the step in which it could write to that stream, because `dispatchExit` visits each sink
once and Pump sends no data after it. It says nothing of the ack and replay that the stream's own handler
may write later.

`RingCorrect` is two things. `RingTakesAnyChunk` is about `RingWrite` alone: for a buffer of any capacity
with the shape `RingShape` and a chunk of any length, the branches of the code leave a buffer of that
shape whose snapshot is the last `cap` units of the old one followed by the chunk (`OverwriteTail` does
the cases of `head` in a full buffer). With it each dispatch of Pump keeps `RingIsTail`, and nothing else
touches a ring.

*AdmissionProofs*, on PskAuth. `PskInv` records that a call's clock reading is recent and was within
the skew, and that an accepted request is still cached or the clock has passed its acceptance by more
than the window. Two readings within the skew of one `signed_at` are at most `SkewSpan` ticks apart,
so with the lag the entry cannot have been dropped when the second copy arrives
(`NeverReplayed`). It holds for the life of one server; a restart forgets the cache.

*AdmissionProofs*, on RateLimit. `RateBound` says nothing of what is left in a bucket; `Budget`
does: what a key was admitted, plus its level, is at most the burst plus the time of the observation
(`NeverOver`). `AllowLevel` and `TickLevel` say what each operation does to the levels, pruned
entries included; with them every step is a step of TokenBucket or a stutter
(`LimiterImplements`). The prune is the step that needs `LimitAssumption`.

*SignalingProofs.* `SigInv` adds to the properties that a connection somebody may write to has
been sent its ack and that this ack is still ahead of any Connect (`AckOnWay`), and that an
undialled connection has no goroutine (`DialFresh`). `RegistryCorrect`, `ServedIsReachable`,
`AlwaysRouted` and `AckComesFirst` follow. The stale write after `RUnlock` is safe because a
connection keeps its identity for life.

*ExecHostProofs.* `Tracked` needs to know that a session not yet started is nowhere and that only
one connection inserts it (`FreshOK`); `TrackInv` conjoins them with the types.
`AlwaysTracked` follows. `OutputIsOwn` needs `OutInv`: `execMu` has one holder, which keeps it until
its Output has ended (an abandoned one for good, which is why its leftover lines reach nobody);
without a holder that has written its command, stdin, pipe and channel are empty (`FreeOK`); with one,
they hold the lines that come next, in order, and then its sentinel, and lack something only after
the process has ended (`Flow`). `OneRelease` covers the step of `release` between the unlock and the
write of `active`.

*RendezvousProofs.* `GrantedOnce` is inductive with the types. `WakesKept` is not a matter of the
delete alone: the request of a window must not come back into the database after it was found
missing there. `WrittenOnce` says why it cannot: whatever is in the database, the stream, the channel
or the pump has been written, by a session that has begun, and sessions write once. `Served` follows
the pump from the registration to the delete.

*SignalStoreProofs.* `Migrated` says that a process has executed no more statements than have taken
effect, which holds although others execute them at the same time because each statement is
idempotent and none is undone (`MigrationComplete`). `Buried` is about rows: a retired secret is in no
row that is not revoked, which needs `Secrets`, because it must not be drawn again. `Fresh` is about
Registers in flight: one that read its record when its secret had not been reported as revoked may be
accepted later, and one that began after that has read no such record (`RevocationLasts`). `Current` says
that no psk add which has missed the row is left once another, which did not overlap with it, has
printed (`PrintedSecretWorks`).

*HostMachineProofs.* Each part says where a process may be (`Control`) and what that says of one
file. `Tokens`: a new refresh token is accepted by Google and known to one process alone until it is on the
disk, and a process that is about to write the file holds one (`TokenFileReplaced`, without a condition
on kills, failures or overlaps). `Updating`: what was verified is what is installed, and the executable is moved
away only when its successor lies there (`UpdateInstalls`, for one update at a time: a second one
would write the same `.new` between Verify and Install of the first, as `UpdateRaced` shows). `Keyed`: a key is written
only where nobody has served with another (`KeyLasts`, for one peershd at a time whose reads of an
existing key do not fail; `KeyRaced` and `KeyReplaced` show what happens otherwise). `Timely`
accounts for the life of an ID token from the answer through the cache to its use (`TokenNotExpired`).

*ClientProofs.* `Writers` and `Frames` tie the middle of a frame to the holder of `writeMu`: the bytes
under way to the host end with a whole frame, unless that thread has written a length, and a closed
stream takes no more (`NoTornFrame`). `Tabs` says that no two tabs of one connection have the same
id, so that none unregisters the shell of another (`TabServed`); the generation of ids in `lastID`
is what makes it inductive. `Exits` counts (`OnExitOnce`).

Only model-checked: the liveness properties (`EvictedEnds`, `IdleReaped`, `StreamEnds`,
`EveryWakeSurfaces`, `PumpReturns`, `CloseReturns`, `ClosedReleases`), which rest on
fairness and so on `ENABLED`, out of the prover's reach; `HandlerEnds` of the side configuration
`SignalingLive`, for the same reason; and the properties of counterexample configurations, which do
not hold. `RingKeepsTail` is a run over many chunks; its step is `RingTakesAnyChunk`.

## 5. Not modelled

- Operating-system integration: pseudo-consoles and shells, installation of the service and of
  the logon task, metrics; the terminal output of the CLI.
- Parsing and formatting without shared state: protobuf messages and their generated code,
  the framing's decoder, certificates and hashes, the JSON of the event stream, the cwd
  tracker's escape sequences, and the settings of the configuration that touch nothing modelled.
- Token verification of Firebase, which Signaling has as a verdict; the Cloud Functions, of
  which a claim is a call that succeeds or fails; the memory and Firestore stores.
- Notifications: timers of one session that decide whether a push message is asked for.
- The Dart app, above mobile-core.
- File contents and directory listings of the file requests.

## 6. Plan

- An abstract broadcast log, one append-only sequence per session of which every attached client
  sees a suffix, with PtyHost proved to implement it from `StreamInv`.
- The joint promise of Signaling and Rendezvous: that `reg`, Rendezvous's reduced server, is what
  `RegistryLive` says of the detailed one.
- Models: notifications (cooldown and idle window).
