----------------------------- MODULE MCExecHost -----------------------------
(***************************************************************************)
(* Model checking of ExecHost.                                             *)
(***************************************************************************)
EXTENDS ExecHost, TLC

Symmetry == Permutations(Conn) \cup Permutations(Exec)
=============================================================================
