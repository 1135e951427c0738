----------------------------- MODULE MCMachine -----------------------------
(***************************************************************************)
(* Instances of Machine for TLC.                                           *)
(***************************************************************************)
EXTENDS Machine
=============================================================================
