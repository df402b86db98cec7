------------------------------ MODULE MCClient ------------------------------
(***************************************************************************)
(* Model checking of Client.                                               *)
(***************************************************************************)
EXTENDS Client

CONSTANTS t1, t2, h1

Program(p, s, w, o) ==
  [prog |-> p, pwsh |-> TRUE, streams |-> s, writes |-> w, output |-> o]

\* Two streams of the app, or two writers on one; the modes of peersh-cli.
MCApp ==
  {Program("mobile", 2, 0, 0), Program("mobile", 1, 2, 1),
   Program("repl", 2, 0, 1), Program("reattach", 1, 0, 1), Program("list", 1, 0, 0),
   Program("new", 1, 2, 1), Program("picker", 2, 0, 1), Program("login", 0, 0, 0),
   [Program("repl", 1, 0, 0) EXCEPT !.pwsh = FALSE]}

\* The app alone, on a host that has PowerShell: with two streams, and with
\* one that is written to.
MobileOnly == {Program("mobile", 2, 0, 0)}
OneTab == {Program("mobile", 1, 1, 0)}

\* Two addresses and a name that is none, and no candidate at all.
MCReply ==
  {<<>>, <<[type |-> "host", v6 |-> FALSE, parses |-> TRUE],
           [type |-> "host", v6 |-> TRUE, parses |-> FALSE],
           [type |-> "srflx", v6 |-> FALSE, parses |-> TRUE]>>}

\* The handlers of the host run, but a shell need not read what is typed:
\* sess.Write (main.go:1070) may never return.
DeafSpec ==
  /\ Spec
  /\ \A s \in 1 .. MaxStream :
       WF_vars(HostAttach(s) \/ HostRefuses(s) \/ HostAck(s) \/ HostEnds(s) \/ HostDrops(s))

\* Close returns without a condition on the host.
CloseAlways == \A t \in Thread : []<>(pc[t] # "join")

\* "Close terminates the PTY [...] The host's pseudo-console pump observes
\* EOF and tears down the child" (peersh.go:701-702).
CloseEndsShell ==
  \A s \in PtyStrs : str[s].closed /\ str[s].hpc = "done" => str[s].shell \notin alive
=============================================================================
