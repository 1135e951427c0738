-------------------------- MODULE CallStackClient --------------------------
(***************************************************************************)
(* One CallStack, a clone of it (the machine's savepoint_call_stack_) and  *)
(* any client that calls the member functions of CallStack in any order.   *)
(* Calls that throw change nothing and are left out, with one exception:   *)
(* a Pop under the lock that is one too many throws when the lock has been *)
(* released, inside a destructor, which ends the program.                  *)
(***************************************************************************)
EXTENDS CallStack

CONSTANTS
  Ops,          \* long operations
  Reals,        \* the types of the other frames
  MaxSize,      \* bound: frames on the stack
  MaxDelayed    \* bound: changes delayed under one lock

ASSUME ClientAssumption ==
  /\ "none" \notin Ops
  /\ "root" \in Reals
  /\ Reals \subseteq FrameTypes \ {"longop"}
  /\ MaxSize \in Nat
  /\ MaxDelayed \in Nat

Frames == {RealFrame(t) : t \in Reals} \cup {LongopFrame(o) : o \in Ops}

VARIABLES
  cs,      \* the call stack
  copy,    \* a clone of it
  ended    \* has std::terminate been called?

vars == <<cs, copy, ended>>

Init ==
  /\ cs = EmptyStack
  /\ copy = EmptyStack
  /\ ended = FALSE

\* The lock's destructor runs to its end before anything else is called.
Calling ==
  /\ ~ended
  /\ ~Draining(cs)
  /\ UNCHANGED ended

CallPush(f) ==
  /\ Calling
  /\ Len(cs.stack) + Len(cs.delayed) < MaxSize
  /\ Len(cs.delayed) < MaxDelayed
  /\ cs' = Push(cs, f)
  /\ UNCHANGED copy

CallPop ==
  /\ Calling
  /\ CanPop(cs)
  /\ Len(cs.delayed) < MaxDelayed
  /\ cs' = Pop(cs)
  /\ UNCHANGED copy

CallGetLock ==
  /\ Calling
  /\ CanLock(cs)
  /\ cs' = GetLock(cs)
  /\ UNCHANGED copy

Unlock ==
  /\ Calling
  /\ cs.locked
  /\ cs' = Release(cs)
  /\ UNCHANGED copy

ApplyDelayedModifications ==
  /\ ~ended
  /\ Draining(cs)
  /\ ~Underflows(cs)
  /\ cs' = ApplyNext(cs)
  /\ UNCHANGED <<copy, ended>>

Terminate ==
  /\ ~ended
  /\ Underflows(cs)
  /\ ended' = TRUE
  /\ UNCHANGED <<cs, copy>>

CallClone ==
  /\ Calling
  /\ CanClone(cs)
  /\ copy' = Clone(cs)
  /\ UNCHANGED cs

\* call_stack_ = savepoint_call_stack_.Clone(), or what load restores.
Assign ==
  /\ Calling
  /\ ~cs.locked
  /\ cs' = Clone(copy)
  /\ UNCHANGED copy

Next ==
  \/ \E f \in Frames : CallPush(f)
  \/ CallPop
  \/ CallGetLock
  \/ Unlock
  \/ ApplyDelayedModifications
  \/ Terminate
  \/ CallClone
  \/ Assign

Spec == Init /\ [][Next]_vars

(***************************************************************************)
(* Properties.                                                             *)
(***************************************************************************)

\* Every state is well formed (the members of CallStack).
TypeOK ==
  /\ cs \in StacksOf(Frames)
  /\ copy \in StacksOf(Frames)
  /\ ended \in BOOLEAN

\* FindTopRealFrame relies on real_frames_ holding exactly the indices of the
\* frames that are not long operations, in order, whatever calls were delayed
\* and whichever stack was cloned into this one (CallStack::Push and Pop).
RealFramesIndexed == IndexesRealFrames(cs) /\ IndexesRealFrames(copy)
=============================================================================
