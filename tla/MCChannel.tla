----------------------------- MODULE MCChannel -----------------------------
(***************************************************************************)
(* Finite instances of Channel.                                            *)
(***************************************************************************)
EXTENDS Channel, TLC

Symmetry == Permutations(Coroutine) \cup Permutations(Thread)
=============================================================================
