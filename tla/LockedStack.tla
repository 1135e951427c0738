---------------------------- MODULE LockedStack ----------------------------
(***************************************************************************)
(* What CallStack promises (src/src/machine/call_stack.hpp): a stack that  *)
(* means what its calls say, in the order they were made, and that whoever *)
(* holds the lock sees unchanged.  `meant' is the stack after the calls so *)
(* far, `seen' is what Top, Size and the iterators show.  A pop of nothing *)
(* under the lock cannot be refused any more and is fatal at the unlock.   *)
(***************************************************************************)
EXTENDS Sequences, SequencesExt

CONSTANT Frames

VARIABLES meant, seen, locked, doomed, ended

vars == <<meant, seen, locked, doomed, ended>>

Init ==
  /\ meant = <<>>
  /\ seen = <<>>
  /\ locked = FALSE
  /\ doomed = FALSE
  /\ ended = FALSE

Show == seen' = IF locked THEN seen ELSE meant'

Push(f) ==
  /\ ~ended
  /\ meant' = IF doomed THEN meant ELSE Append(meant, f)
  /\ Show
  /\ UNCHANGED <<locked, doomed, ended>>

Pop ==
  /\ ~ended
  /\ meant # <<>>
  /\ meant' = IF doomed THEN meant ELSE Front(meant)
  /\ Show
  /\ UNCHANGED <<locked, doomed, ended>>

PopNothing ==
  /\ ~ended
  /\ locked
  /\ meant = <<>>
  /\ doomed' = TRUE
  /\ UNCHANGED <<meant, seen, locked, ended>>

Lock ==
  /\ ~ended
  /\ ~locked
  /\ locked' = TRUE
  /\ UNCHANGED <<meant, seen, doomed, ended>>

Unlock ==
  /\ ~ended
  /\ locked
  /\ locked' = FALSE
  /\ seen' = meant
  /\ ended' = doomed
  /\ UNCHANGED <<meant, doomed>>

\* The owner replaces the stack, by a clone or by one that was saved.
Replace ==
  /\ ~ended
  /\ ~locked
  /\ meant' \in Seq(Frames)
  /\ Show
  /\ UNCHANGED <<locked, doomed, ended>>

Next ==
  \/ \E f \in Frames : Push(f)
  \/ Pop
  \/ PopNothing
  \/ Lock
  \/ Unlock
  \/ Replace

Spec == Init /\ [][Next]_vars
=============================================================================
