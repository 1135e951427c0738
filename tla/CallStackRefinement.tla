------------------------ MODULE CallStackRefinement ------------------------
(***************************************************************************)
(* CallStackClient implements LockedStack.  What the stack means is what   *)
(* remains of it when the delayed changes have been made; a client can     *)
(* look at it only when the destructor of the lock has returned, so while  *)
(* the changes are being applied it already shows what it means.           *)
(*                                                                         *)
(* The history variable stages holds what that takes: the stack as it is   *)
(* and as each delayed change would leave it, one after the other.         *)
(***************************************************************************)
EXTENDS CallStackClient

VARIABLE stages

Stage == [stack : Seq(Frames), doomed : BOOLEAN]

Undoomed(stack) == [stack |-> stack, doomed |-> FALSE]

\* A delayed change made to a stage, as far as it can be made.
Applied(s, change) ==
  IF s.doomed THEN s
  ELSE IF change.call = "push" THEN Undoomed(Append(s.stack, change.frame))
  ELSE IF s.stack = <<>> THEN [stack |-> s.stack, doomed |-> TRUE]
  ELSE Undoomed(Front(s.stack))

\* A change that is delayed adds a stage, one that is applied takes one away.
NextStages ==
  IF Len(cs'.delayed) > Len(cs.delayed)
    THEN Append(stages, Applied(Last(stages), Last(cs'.delayed)))
  ELSE IF Len(cs'.delayed) < Len(cs.delayed) THEN Tail(stages)
  ELSE IF cs.delayed = <<>> THEN <<Undoomed(cs'.stack)>>
  ELSE stages

StagesInit == Init /\ stages = <<Undoomed(<<>>)>>
StagesNext == Next /\ stages' = NextStages
StagesSpec == StagesInit /\ [][StagesNext]_<<vars, stages>>

Abstract == INSTANCE LockedStack WITH
  meant <- Last(stages).stack,
  seen <- IF Draining(cs) THEN Last(stages).stack ELSE cs.stack,
  locked <- cs.locked,
  doomed <- Last(stages).doomed,
  ended <- ~cs.locked /\ Last(stages).doomed

\* The whole point of the lock (call_stack.hpp): under it the stack is seen
\* as it was, after it as if every call had been made in its turn.
ImplementsLockedStack == Abstract!Spec
=============================================================================
