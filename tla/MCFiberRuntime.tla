--------------------------- MODULE MCFiberRuntime ---------------------------
(***************************************************************************)
(* Instances of FiberRuntime for TLC.                                      *)
(***************************************************************************)
EXTENDS FiberInvariants, TLC

Symmetric == Permutations(Fibers) \cup Permutations(Futures)
=============================================================================
