------------------------------ MODULE MCPtyHost ------------------------------
(***************************************************************************)
(* Model checking of PtyHost: streams are interchangeable in safety runs,  *)
(* as long as all of them, or none, may stall.                             *)
(***************************************************************************)
EXTENDS PtyHost, TLC

StreamSymmetry == Permutations(Stream)
=============================================================================
