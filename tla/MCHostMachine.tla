---------------------------- MODULE MCHostMachine ----------------------------
(***************************************************************************)
(* Model checking of HostMachine.                                          *)
(***************************************************************************)
EXTENDS HostMachine, TLC

CONSTANTS p1, p2

\* The host and a client that shares its token file; an update.
MCMays ==
  {p1 :> {"host"} @@ p2 :> {"cli"}, p1 :> {"update"} @@ p2 :> {}}

HostOnly == {p1 :> {"host"}}

\* Two peershd, of which only one will get the port.
TwoHosts == {p1 :> {"host"} @@ p2 :> {"host"}}

\* Two `peershd update` at one time.
TwoUpdates == {p1 :> {"update"} @@ p2 :> {"update"}}
=============================================================================
