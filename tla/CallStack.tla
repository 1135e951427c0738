----------------------------- MODULE CallStack -----------------------------
(***************************************************************************)
(* The class CallStack (src/src/machine/call_stack.cpp): a call stack of   *)
(* the RealLive machine as a value, its member functions as operators on   *)
(* it.  While the stack is locked, Push and Pop are only remembered; the   *)
(* destructor of the lock clears the flag and applies them one after the   *)
(* other.  The class also keeps the indices of the frames that are not     *)
(* long operations, so that FindTopRealFrame does not have to search.      *)
(*                                                                         *)
(* A frame is its type and its long operation ("none" in a real frame).    *)
(* Indices count from 0, as in the code.  A delayed change is a record     *)
(* instead of a lambda.                                                    *)
(***************************************************************************)
EXTENDS Integers, Sequences, SequencesExt

FrameTypes == {"root", "gosub", "farcall", "longop"}

IsReal(f) == f.type # "longop"

RealFrame(t) == [type |-> t, op |-> "none"]

LongopFrame(o) == [type |-> "longop", op |-> o]

EmptyStack ==
  [stack |-> <<>>, real |-> <<>>, locked |-> FALSE, delayed |-> <<>>]

PushCall(f) == [call |-> "push", frame |-> f]
PopCall == [call |-> "pop", frame |-> RealFrame("root")]

\* A stack with other frames, and one with another lock and other changes.
WithFrames(cs, stack, real) ==
  [stack |-> stack, real |-> real, locked |-> cs.locked, delayed |-> cs.delayed]

WithLock(cs, locked, delayed) ==
  [stack |-> cs.stack, real |-> cs.real, locked |-> locked, delayed |-> delayed]

\* The end of Push once the stack is known to be unlocked.
PushNow(cs, f) ==
  WithFrames(cs, Append(cs.stack, f),
    IF IsReal(f) THEN Append(cs.real, Len(cs.stack)) ELSE cs.real)

Delay(cs, change) == WithLock(cs, TRUE, Append(cs.delayed, change))

Push(cs, f) == IF cs.locked THEN Delay(cs, PushCall(f)) ELSE PushNow(cs, f)

\* Pop throws on an empty stack that is not locked.
CanPop(cs) == cs.locked \/ cs.stack # <<>>

\* Mutant of PopNow: compares with the size before the frame is removed.
PopIndexBefore(cs) ==
  WithFrames(cs, Front(cs.stack),
    IF cs.real # <<>> /\ Last(cs.real) = Len(cs.stack)
      THEN Front(cs.real) ELSE cs.real)

\* The end of Pop once the stack is known to be unlocked.
PopNow(cs) ==
  WithFrames(cs, Front(cs.stack),
    IF cs.real # <<>> /\ Last(cs.real) = Len(cs.stack) - 1
      THEN Front(cs.real) ELSE cs.real)

Pop(cs) == IF cs.locked THEN Delay(cs, PopCall) ELSE PopNow(cs)

\* Clone throws when the stack is locked; the copy has no lock.
CanClone(cs) == ~cs.locked

Clone(cs) == WithFrames(EmptyStack, cs.stack, cs.real)

\* The constructor of Lock throws if there is one already.
CanLock(cs) == ~cs.locked

GetLock(cs) == WithLock(cs, TRUE, cs.delayed)

\* The destructor of Lock, and one turn of ApplyDelayedModifications.
Release(cs) == WithLock(cs, FALSE, cs.delayed)

Draining(cs) == ~cs.locked /\ cs.delayed # <<>>

DropFirst(cs) == WithLock(cs, FALSE, Tail(cs.delayed))

\* Mutant of ApplyNext: the last change first.
ApplyLast(cs) ==
  LET change == Last(cs.delayed)
      rest == WithLock(cs, FALSE, Front(cs.delayed))
  IN  IF change.call = "push" THEN Push(rest, change.frame) ELSE Pop(rest)

ApplyNext(cs) ==
  LET change == Head(cs.delayed)
  IN  IF change.call = "push"
        THEN Push(DropFirst(cs), change.frame)
        ELSE Pop(DropFirst(cs))

\* The destructor must not let Pop's exception out: the program ends.
Underflows(cs) ==
  Draining(cs) /\ Head(cs.delayed).call = "pop" /\ cs.stack = <<>>

Top(cs) == Last(cs.stack)

FindTopRealFrame(cs) == cs.stack[Last(cs.real) + 1]

(***************************************************************************)
(* What real_frames_ must be at all times, and the types.                  *)
(***************************************************************************)

\* The indices are in order, they are those of real frames, and no real
\* frame is missing (CallStack::Push, Pop and load, which maintain them).
IndexesRealFrames(cs) ==
  /\ \A i \in DOMAIN cs.real :
       /\ cs.real[i] + 1 \in DOMAIN cs.stack
       /\ IsReal(cs.stack[cs.real[i] + 1])
  /\ \A i, j \in DOMAIN cs.real : i < j => cs.real[i] < cs.real[j]
  /\ \A k \in DOMAIN cs.stack :
       IsReal(cs.stack[k]) => \E i \in DOMAIN cs.real : cs.real[i] = k - 1

\* The call stacks over a set of frames.
StacksOf(F) ==
  [stack : Seq(F), real : Seq(Nat), locked : BOOLEAN,
   delayed : Seq([call : {"push", "pop"}, frame : F])]

=============================================================================
