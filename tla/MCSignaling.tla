----------------------------- MODULE MCSignaling -----------------------------
(***************************************************************************)
(* Model checking of Signaling.                                            *)
(***************************************************************************)
EXTENDS Signaling, TLC

Symmetry == Permutations(Conn) \cup Permutations(User) \cup Permutations(Device)
=============================================================================
