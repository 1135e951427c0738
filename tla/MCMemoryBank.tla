---------------------------- MODULE MCMemoryBank ----------------------------
(***************************************************************************)
(* Instances of MemoryBank, and of its refinement, for TLC.                *)
(***************************************************************************)
EXTENDS MemoryBankRefinement, TLC

FewRanges == {<<1, 4>>}
FewValues == {{0, 1}}

Copies == Permutations(Banks)
=============================================================================
