---------------------------- MODULE MCEventLoop ----------------------------
(***************************************************************************)
(* Finite instances of EventLoop.                                          *)
(***************************************************************************)
EXTENDS EventLoop, TLC

Symmetry == Permutations(Coroutine) \cup Permutations(Fd)
=============================================================================
