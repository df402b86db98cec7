------------------------------ MODULE MCPskAuth ------------------------------
(***************************************************************************)
(* Model checking of PskAuth, with the smallest window that the assumption *)
(* allows.                                                                 *)
(***************************************************************************)
EXTENDS PskAuth, TLC

Symmetry == Permutations(Req) \cup Permutations(Call)
=============================================================================
