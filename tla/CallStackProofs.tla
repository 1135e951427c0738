-------------------------- MODULE CallStackProofs --------------------------
(***************************************************************************)
(* CallStackClient for every set of long operations and frame types, every *)
(* size of the stack and every order of calls: the type, and the indices   *)
(* of the real frames of a call stack and of its clone.                    *)
(*                                                                         *)
(* The invariant is inductive as it stands; what each operation does is in *)
(* CallStackLemmas.                                                        *)
(***************************************************************************)
EXTENDS CallStackRefinement, CallStackLemmas

IInv == TypeOK /\ RealFramesIndexed

\* The root frame is one of the client's (ClientAssumption).
LEMMA RootIsAFrame == RealFrame("root") \in Frames
BY ClientAssumption DEF Frames

\* Every call keeps the invariant.
LEMMA StepKeeps ==
  ASSUME IInv, Next
  PROVE  IInv'
<1>1. /\ cs \in StacksOf(Frames) /\ IndexesRealFrames(cs)
      /\ copy \in StacksOf(Frames) /\ IndexesRealFrames(copy)
      /\ ended \in BOOLEAN
  BY DEF IInv, TypeOK, RealFramesIndexed
<1> SUFFICES /\ cs' \in StacksOf(Frames) /\ IndexesRealFrames(cs')
             /\ copy' \in StacksOf(Frames) /\ IndexesRealFrames(copy')
             /\ ended' \in BOOLEAN
  BY DEF IInv, TypeOK, RealFramesIndexed
<1>2. ASSUME NEW f \in Frames, CallPush(f)
      PROVE  cs' \in StacksOf(Frames) /\ IndexesRealFrames(cs')
  BY <1>1, <1>2, PushType, PushIndexes DEF CallPush
<1>3. CASE CallPop
  <2>1. CanPop(cs) /\ cs' = Pop(cs)
    BY <1>3 DEF CallPop
  <2>2. cs' \in StacksOf(Frames) /\ IndexesRealFrames(cs')
    BY <1>1, <2>1, RootIsAFrame, PopType, PopIndexes
  <2>3. QED
    BY <1>1, <1>3, <2>2 DEF CallPop, Calling
<1>4. CASE CallGetLock
  BY <1>1, <1>4, LockKeeps DEF CallGetLock, Calling
<1>5. CASE Unlock
  BY <1>1, <1>5, LockKeeps DEF Unlock, Calling
<1>6. CASE ApplyDelayedModifications
  <2>1. Draining(cs) /\ ~Underflows(cs) /\ cs' = ApplyNext(cs)
    BY <1>6 DEF ApplyDelayedModifications
  <2>2. cs' \in StacksOf(Frames) /\ IndexesRealFrames(cs')
    BY <1>1, <2>1, RootIsAFrame, ApplyNextKeeps
  <2>3. QED
    BY <1>1, <1>6, <2>2 DEF ApplyDelayedModifications
<1>7. CASE Terminate
  BY <1>1, <1>7 DEF Terminate
<1>8. CASE CallClone
  BY <1>1, <1>8, CloneKeeps DEF CallClone, Calling
<1>9. CASE Assign
  BY <1>1, <1>9, CloneKeeps DEF Assign, Calling
<1>10. CASE \E f \in Frames : CallPush(f)
  BY <1>1, <1>2, <1>10 DEF CallPush, Calling
<1>11. QED
  BY <1>3, <1>4, <1>5, <1>6, <1>7, <1>8, <1>9, <1>10 DEF Next

LEMMA Inductive == Spec => []IInv
<1>1. Init => IInv
  BY EmptyStackOK DEF Init, IInv, TypeOK, RealFramesIndexed
<1>2. IInv /\ [Next]_vars => IInv'
  <2>1. ASSUME IInv, UNCHANGED vars
        PROVE  IInv'
    BY <2>1 DEF IInv, TypeOK, RealFramesIndexed, vars
  <2>2. QED
    BY <2>1, StepKeeps
<1>3. QED
  BY <1>1, <1>2, PTL DEF Spec

\* Whatever is called, the members of CallStack stay well formed.
THEOREM StackTypeCorrect == Spec => []TypeOK
<1>1. IInv => TypeOK
  BY DEF IInv
<1>2. QED
  BY <1>1, Inductive, PTL

\* real_frames_ always holds exactly the indices of the real frames, in
\* order, so FindTopRealFrame finds the topmost one (CallStack::Push, Pop,
\* Clone and the destructor of Lock).
THEOREM RealFramesAreIndexed == Spec => []RealFramesIndexed
<1>1. IInv => RealFramesIndexed
  BY DEF IInv
<1>2. QED
  BY <1>1, Inductive, PTL

-----------------------------------------------------------------------------
(***************************************************************************)
(* The refinement.  The stages start with the stack as it is and follow    *)
(* the delayed changes, so the last of them is what the stack means.       *)
(***************************************************************************)

Changes == [call : {"push", "pop"}, frame : Frames]

StagesFollow ==
  /\ stages \in Seq(Stage)
  /\ Len(stages) = Len(cs.delayed) + 1
  /\ stages[1] = Undoomed(cs.stack)
  /\ \A i \in 1 .. Len(cs.delayed) : stages[i + 1] = Applied(stages[i], cs.delayed[i])

\* The last element after an Append and after a Tail.
LEMMA LastOfSeq ==
  ASSUME NEW S, NEW s \in Seq(S), s # <<>>, NEW e \in S
  PROVE  /\ Last(s) \in S /\ Last(s) = s[Len(s)]
         /\ Last(Append(s, e)) = e
         /\ Len(s) > 1 => Last(Tail(s)) = Last(s)
<1>1. Len(s) \in Nat \ {0}
  BY EmptySeq
<1>2. Last(s) = s[Len(s)] /\ s[Len(s)] \in S
  BY <1>1, ElementOfSeq DEF Last
<1>3. Last(Append(s, e)) = e
  BY <1>1, AppendProperties DEF Last
<1>4. ASSUME Len(s) > 1
      PROVE  Last(Tail(s)) = Last(s)
  <2>1. /\ Tail(s) \in Seq(S) /\ Len(Tail(s)) = Len(s) - 1
        /\ \A i \in 1 .. Len(s) - 1 : Tail(s)[i] = s[i + 1]
    BY <1>4, HeadTailProperties
  <2>2. QED
    BY <1>1, <1>2, <1>4, <2>1 DEF Last
<1>5. QED
  BY <1>2, <1>3, <1>4

\* What holds of the types of a call stack in use.
LEMMA StackParts ==
  ASSUME IInv
  PROVE  /\ cs.stack \in Seq(Frames) /\ cs.delayed \in Seq(Changes)
         /\ cs.locked \in BOOLEAN /\ Len(cs.delayed) \in Nat
         /\ cs.delayed = <<>> <=> Len(cs.delayed) = 0
<1>1. cs.stack \in Seq(Frames) /\ cs.delayed \in Seq(Changes) /\ cs.locked \in BOOLEAN
  BY DEF IInv, TypeOK, StacksOf, Changes
<1>2. QED
  BY <1>1, EmptySeq

\* The last stage is one.
LEMMA LastStage ==
  ASSUME IInv, StagesFollow
  PROVE  Last(stages) \in Stage
<1>1. stages \in Seq(Stage) /\ Len(stages) = Len(cs.delayed) + 1 /\ Len(cs.delayed) \in Nat
  BY StackParts DEF StagesFollow
<1>2. QED
  BY <1>1 DEF Last

\* A change leaves a stage.
LEMMA AppliedType ==
  ASSUME NEW s \in Stage, NEW change \in Changes
  PROVE  Applied(s, change) \in Stage
<1>1. s.stack \in Seq(Frames)
  BY DEF Stage
<1>2. Append(s.stack, change.frame) \in Seq(Frames)
  BY <1>1, AppendProperties DEF Changes
<1>3. s.stack # <<>> => Front(s.stack) \in Seq(Frames)
  BY <1>1, FrontOfSeq
<1>4. QED
  BY <1>1, <1>2, <1>3 DEF Applied, Undoomed, Stage

\* Under the lock a call adds a stage (CallStack::Push and Pop).
LEMMA DelayedStep ==
  ASSUME IInv, StagesFollow, NEW change \in Changes,
         cs'.stack = cs.stack, cs'.delayed = Append(cs.delayed, change),
         stages' = NextStages
  PROVE  /\ StagesFollow'
         /\ Last(stages)' = Applied(Last(stages), change)
<1> DEFINE n == Len(cs.delayed)
           new == Applied(Last(stages), change)
<1>1. cs.delayed \in Seq(Changes) /\ n \in Nat
  BY StackParts
<1>2. /\ cs'.delayed \in Seq(Changes) /\ Len(cs'.delayed) = n + 1
      /\ \A i \in 1 .. n : cs'.delayed[i] = cs.delayed[i]
      /\ cs'.delayed[n + 1] = change
  BY <1>1, AppendProperties
<1>3. stages \in Seq(Stage) /\ Len(stages) = n + 1 /\ stages # <<>>
  BY <1>1, EmptySeq DEF StagesFollow
<1>4. Last(stages) = stages[n + 1] /\ Last(stages) \in Stage
  BY <1>3, LastOfSeq
<1>5. new \in Stage
  BY <1>4, AppliedType
<1>6. Last(cs'.delayed) = change
  BY <1>1, <1>2 DEF Last
<1>7. stages' = Append(stages, new)
  BY <1>1, <1>2, <1>6 DEF NextStages
<1>8. /\ stages' \in Seq(Stage) /\ Len(stages') = n + 2
      /\ \A i \in 1 .. n + 1 : stages'[i] = stages[i]
      /\ stages'[n + 2] = new
  BY <1>1, <1>3, <1>5, <1>7, AppendProperties
<1>9. Last(stages)' = new
  BY <1>3, <1>5, <1>7, LastOfSeq
<1>10. ASSUME NEW i \in 1 .. n + 1
       PROVE  stages'[i + 1] = Applied(stages'[i], cs'.delayed[i])
  <2>1. CASE i = n + 1
    BY <1>1, <1>2, <1>4, <1>8, <2>1
  <2>2. CASE i \in 1 .. n
    <3>1. stages[i + 1] = Applied(stages[i], cs.delayed[i])
      BY <2>2 DEF StagesFollow
    <3>2. stages'[i + 1] = stages[i + 1] /\ stages'[i] = stages[i]
      BY <1>1, <1>8, <2>2
    <3>3. QED
      BY <1>2, <2>2, <3>1, <3>2
  <2>3. QED
    BY <1>1, <2>1, <2>2
<1>11. stages'[1] = Undoomed(cs'.stack)
  BY <1>1, <1>8 DEF StagesFollow
<1>12. QED
  BY <1>1, <1>2, <1>8, <1>9, <1>10, <1>11 DEF StagesFollow

\* Without delayed changes the only stage is the stack.
LEMMA PlainStep ==
  ASSUME IInv, StagesFollow, cs.delayed = <<>>,
         cs'.delayed = <<>>, cs'.stack \in Seq(Frames),
         stages' = NextStages
  PROVE  /\ StagesFollow'
         /\ Last(stages) = Undoomed(cs.stack)
         /\ Last(stages)' = Undoomed(cs'.stack)
<1>1. Len(cs.delayed) = 0 /\ Len(cs'.delayed) = 0
  BY StackParts
<1>2. stages' = <<Undoomed(cs'.stack)>>
  BY <1>1 DEF NextStages
<1>3. Undoomed(cs'.stack) \in Stage
  BY DEF Undoomed, Stage
<1>4. stages' \in Seq(Stage) /\ Len(stages') = 1 /\ stages'[1] = Undoomed(cs'.stack)
  BY <1>2, <1>3
<1>5. stages \in Seq(Stage) /\ Len(stages) = 1 /\ stages[1] = Undoomed(cs.stack)
  BY <1>1 DEF StagesFollow
<1>6. Last(stages) = Undoomed(cs.stack) /\ Last(stages)' = Undoomed(cs'.stack)
  BY <1>4, <1>5 DEF Last
<1>7. QED
  BY <1>1, <1>4, <1>6 DEF StagesFollow

\* A call that changes neither the stack nor the changes keeps the stages.
LEMMA KeptStep ==
  ASSUME IInv, StagesFollow,
         cs'.stack = cs.stack, cs'.delayed = cs.delayed,
         stages' = NextStages
  PROVE  StagesFollow' /\ Last(stages)' = Last(stages)
<1>1. CASE cs.delayed = <<>>
  BY <1>1, StackParts, PlainStep
<1>2. CASE cs.delayed # <<>>
  <2>1. stages' = stages
    BY <1>2, StackParts DEF NextStages
  <2>2. QED
    BY <2>1 DEF StagesFollow
<1>3. QED
  BY <1>1, <1>2

\* A turn of the lock's destructor moves on to the next stage.
LEMMA DrainStep ==
  ASSUME IInv, StagesFollow, Draining(cs), ~Underflows(cs),
         cs' = ApplyNext(cs), stages' = NextStages
  PROVE  StagesFollow' /\ Last(stages)' = Last(stages)
<1> DEFINE n == Len(cs.delayed)
           first == Head(cs.delayed)
<1>1. /\ cs \in StacksOf(Frames) /\ IndexesRealFrames(cs)
      /\ cs.stack \in Seq(Frames) /\ cs.delayed \in Seq(Changes)
      /\ n \in Nat \ {0} /\ cs.delayed # <<>> /\ cs.locked = FALSE
  BY StackParts DEF IInv, TypeOK, RealFramesIndexed, Draining
<1>2. /\ first \in Changes /\ first = cs.delayed[1]
      /\ Tail(cs.delayed) \in Seq(Changes) /\ Len(Tail(cs.delayed)) = n - 1
      /\ \A i \in 1 .. n - 1 : Tail(cs.delayed)[i] = cs.delayed[i + 1]
  BY <1>1, HeadTailProperties
<1>3. cs'.delayed = Tail(cs.delayed)
  BY <1>1, RootIsAFrame, ApplyNextKeeps
<1>4. cs'.stack = IF first.call = "push" THEN Append(cs.stack, first.frame) ELSE Front(cs.stack)
  BY <1>1 DEF ApplyNext, DropFirst, WithLock, Push, Pop, PushNow, PopNow, WithFrames
<1>5. first.call # "push" => cs.stack # <<>>
  BY <1>2 DEF Underflows, Changes
<1>6. Applied(Undoomed(cs.stack), first) = Undoomed(cs'.stack)
  BY <1>4, <1>5 DEF Applied, Undoomed
<1>7. /\ stages \in Seq(Stage) /\ Len(stages) = n + 1 /\ stages # <<>>
      /\ stages[1] = Undoomed(cs.stack)
      /\ \A i \in 1 .. n : stages[i + 1] = Applied(stages[i], cs.delayed[i])
  BY <1>1, EmptySeq DEF StagesFollow
<1>8. stages' = Tail(stages)
  BY <1>1, <1>2, <1>3 DEF NextStages
<1>9. /\ stages' \in Seq(Stage) /\ Len(stages') = n
      /\ \A i \in 1 .. n : stages'[i] = stages[i + 1]
  BY <1>1, <1>7, <1>8, HeadTailProperties
<1>10. stages'[1] = Undoomed(cs'.stack)
  <2>1. stages'[1] = stages[1 + 1] /\ stages[1 + 1] = Applied(stages[1], cs.delayed[1])
    BY <1>1, <1>7, <1>9
  <2>2. QED
    BY <1>2, <1>6, <1>7, <2>1
<1>11. ASSUME NEW i \in 1 .. n - 1
       PROVE  stages'[i + 1] = Applied(stages'[i], cs'.delayed[i])
  <2>1. stages'[i + 1] = stages[(i + 1) + 1] /\ stages'[i] = stages[i + 1]
    BY <1>1, <1>9
  <2>2. stages[(i + 1) + 1] = Applied(stages[i + 1], cs.delayed[i + 1])
    BY <1>1, <1>7
  <2>3. QED
    BY <1>2, <1>3, <2>1, <2>2
<1>12. Last(stages)' = Last(stages)
  <2>1. stages[1] \in Stage
    BY <1>1, <1>7
  <2>2. QED
    BY <1>1, <1>7, <1>8, <2>1, LastOfSeq
<1>13. QED
  BY <1>1, <1>2, <1>3, <1>9, <1>10, <1>11, <1>12 DEF StagesFollow

\* The frames of a pushed call are the client's, those of a popped one the root.
LEMMA CallsAreChanges ==
  /\ PopCall \in Changes
  /\ \A f \in Frames : PushCall(f) \in Changes
BY RootIsAFrame DEF PopCall, PushCall, Changes

\* A call on a stack that is free shows what it did at once.
LEMMA FreeStackShown ==
  ASSUME cs.locked = FALSE, cs.delayed = <<>>,
         cs'.locked = FALSE, cs'.delayed = <<>>,
         Last(stages) = Undoomed(cs.stack), Last(stages)' = Undoomed(cs'.stack)
  PROVE  /\ Last(stages).stack = cs.stack /\ Last(stages)'.stack = cs'.stack
         /\ Last(stages).doomed = FALSE /\ Last(stages)'.doomed = FALSE
         /\ Abstract!Show
         /\ ~(~cs.locked /\ Last(stages).doomed)
         /\ UNCHANGED <<cs.locked, Last(stages).doomed, ~cs.locked /\ Last(stages).doomed>>
<1>1. /\ Last(stages).stack = cs.stack /\ Last(stages).doomed = FALSE
      /\ Last(stages)'.stack = cs'.stack /\ Last(stages)'.doomed = FALSE
  BY DEF Undoomed
<1>2. ~Draining(cs) /\ ~Draining(cs)'
  BY DEF Draining
<1>3. Abstract!Show
  BY <1>1, <1>2 DEF Abstract!Show
<1>4. UNCHANGED <<cs.locked, Last(stages).doomed>>
  BY <1>1
<1>5. UNCHANGED (~cs.locked /\ Last(stages).doomed)
  BY <1>1
<1>6. QED
  BY <1>1, <1>3, <1>4, <1>5

\* A call on a stack that is locked shows nothing.
LEMMA LockedStackShown ==
  ASSUME cs.locked = TRUE, cs'.locked = TRUE, cs'.stack = cs.stack
  PROVE  /\ Abstract!Show
         /\ ~(~cs.locked /\ Last(stages).doomed)
         /\ UNCHANGED <<cs.locked, ~cs.locked /\ Last(stages).doomed>>
<1>1. ~Draining(cs) /\ ~Draining(cs)'
  BY DEF Draining
<1>2. Abstract!Show
  BY <1>1 DEF Abstract!Show
<1>3. UNCHANGED <<cs.locked, ~cs.locked /\ Last(stages).doomed>>
  OBVIOUS
<1>4. QED
  BY <1>2, <1>3

\* A push of the client is one of the abstract stack, locked or not.
LEMMA PushRefines ==
  ASSUME IInv, StagesFollow, NEW f \in Frames, CallPush(f), stages' = NextStages
  PROVE  StagesFollow' /\ Abstract!Push(f)
<1>1. /\ cs \in StacksOf(Frames) /\ cs.stack \in Seq(Frames) /\ cs.locked \in BOOLEAN
      /\ ~Draining(cs) /\ cs' = Push(cs, f)
  BY StackParts DEF IInv, TypeOK, CallPush, Calling
<1>2. CASE ~cs.locked
  <2>1. cs.delayed = <<>> /\ cs'.delayed = <<>> /\ cs'.locked = FALSE
    BY <1>1, <1>2, PushType DEF Draining
  <2>2. cs'.stack = Append(cs.stack, f) /\ cs'.stack \in Seq(Frames)
    <3>1. cs'.stack = Append(cs.stack, f)
      BY <1>1, <1>2, PushType
    <3>2. Append(cs.stack, f) \in Seq(Frames)
      BY <1>1, AppendProperties
    <3>3. QED
      BY <3>1, <3>2
  <2>3. StagesFollow' /\ Last(stages) = Undoomed(cs.stack) /\ Last(stages)' = Undoomed(cs'.stack)
    BY <2>1, <2>2, PlainStep
  <2>4. Abstract!Push(f)
    BY <1>1, <1>2, <2>1, <2>2, <2>3, FreeStackShown DEF Abstract!Push
  <2>5. QED
    BY <2>3, <2>4
<1>3. CASE cs.locked
  <2>1. /\ cs'.stack = cs.stack /\ cs'.locked = TRUE
        /\ cs'.delayed = Append(cs.delayed, PushCall(f))
    BY <1>1, <1>3, PushType
  <2>2. StagesFollow' /\ Last(stages)' = Applied(Last(stages), PushCall(f))
    BY <2>1, CallsAreChanges, DelayedStep
  <2>3. /\ Last(stages).doomed => Last(stages)' = Last(stages)
        /\ ~Last(stages).doomed => Last(stages)' = Undoomed(Append(Last(stages).stack, f))
    BY <2>2 DEF Applied, PushCall
  <2>4. Last(stages).doomed \in BOOLEAN
    BY LastStage DEF Stage
  <2>5. QED
    <3>1. /\ Last(stages)'.doomed = Last(stages).doomed
          /\ Last(stages)'.stack = IF Last(stages).doomed THEN Last(stages).stack
                                   ELSE Append(Last(stages).stack, f)
      <4>1. CASE Last(stages).doomed
        BY <2>3, <4>1
      <4>2. CASE ~Last(stages).doomed
        <5>1. /\ Last(stages)'.stack = Append(Last(stages).stack, f)
              /\ Last(stages)'.doomed = FALSE
          BY <2>3, <4>2 DEF Undoomed
        <5>2. QED
          BY <2>4, <4>2, <5>1
      <4>3. QED
        BY <4>1, <4>2
    <3>2. Abstract!Push(f)
      BY <1>3, <2>1, <3>1, LockedStackShown DEF Abstract!Push
    <3>3. QED
      BY <2>2, <3>2
<1>4. QED
  BY <1>1, <1>2, <1>3

\* Front means the same to both specifications.
LEMMA SameFront == ASSUME NEW s PROVE Abstract!Front(s) = Front(s)
BY DEF Front, Abstract!Front

\* So is a pop; one too many under the lock dooms the stack.
LEMMA PopRefines ==
  ASSUME IInv, StagesFollow, CallPop, stages' = NextStages
  PROVE  StagesFollow' /\ (Abstract!Pop \/ Abstract!PopNothing)
<1>1. /\ cs \in StacksOf(Frames) /\ cs.stack \in Seq(Frames) /\ cs.locked \in BOOLEAN
      /\ ~Draining(cs) /\ cs' = Pop(cs) /\ CanPop(cs)
  BY StackParts DEF IInv, TypeOK, CallPop, Calling
<1>2. CASE ~cs.locked
  <2>1. cs.delayed = <<>> /\ cs'.delayed = <<>> /\ cs'.locked = FALSE /\ cs.stack # <<>>
    BY <1>1, <1>2, RootIsAFrame, PopType DEF Draining, CanPop
  <2>2. cs'.stack = Front(cs.stack) /\ cs'.stack \in Seq(Frames)
    BY <1>1, <1>2, <2>1, RootIsAFrame, PopType, FrontOfSeq
  <2>3. StagesFollow' /\ Last(stages) = Undoomed(cs.stack) /\ Last(stages)' = Undoomed(cs'.stack)
    BY <2>1, <2>2, PlainStep
  <2>4. QED
    <3>1. Abstract!Pop
      <4>1. /\ Abstract!Show /\ ~(~cs.locked /\ Last(stages).doomed)
            /\ UNCHANGED <<cs.locked, Last(stages).doomed, ~cs.locked /\ Last(stages).doomed>>
            /\ Last(stages).stack = cs.stack /\ Last(stages).doomed = FALSE
            /\ Last(stages)'.stack = cs'.stack
        BY <1>2, <2>1, <2>3, FreeStackShown, <1>1
      <4>2. QED
        BY <2>1, <2>2, <4>1, SameFront DEF Abstract!Pop
    <3>2. QED
      BY <2>3, <3>1
<1>3. CASE cs.locked
  <2>1. /\ cs'.stack = cs.stack /\ cs'.locked = TRUE
        /\ cs'.delayed = Append(cs.delayed, PopCall)
    BY <1>1, <1>3 DEF Pop, Delay, WithLock
  <2>2. StagesFollow' /\ Last(stages)' = Applied(Last(stages), PopCall)
    BY <2>1, CallsAreChanges, DelayedStep
  <2>3. Last(stages) \in Stage /\ Last(stages).doomed \in BOOLEAN
    BY LastStage DEF Stage
  <2>4. CASE Last(stages).stack # <<>>
    <3>1. Last(stages)' = IF Last(stages).doomed THEN Last(stages)
                          ELSE Undoomed(Front(Last(stages).stack))
      BY <2>2, <2>4 DEF Applied, PopCall
    <3>2. /\ Last(stages)'.doomed = Last(stages).doomed
          /\ Last(stages)'.stack = IF Last(stages).doomed THEN Last(stages).stack
                                   ELSE Front(Last(stages).stack)
      <4>1. CASE Last(stages).doomed
        BY <3>1, <4>1
      <4>2. CASE ~Last(stages).doomed
        <5>1. /\ Last(stages)'.stack = Front(Last(stages).stack)
              /\ Last(stages)'.doomed = FALSE
          BY <3>1, <4>2 DEF Undoomed
        <5>2. QED
          BY <2>3, <4>2, <5>1
      <4>3. QED
        BY <4>1, <4>2
    <3>3. Abstract!Pop
      <4>1. UNCHANGED <<cs.locked, Last(stages).doomed, ~cs.locked /\ Last(stages).doomed>>
        BY <1>3, <2>1, <3>2, LockedStackShown
      <4>2. Abstract!Show /\ ~(~cs.locked /\ Last(stages).doomed)
        BY <1>3, <2>1, LockedStackShown
      <4>3. QED
        BY <2>4, <3>2, <4>1, <4>2, SameFront DEF Abstract!Pop
    <3>4. QED
      BY <2>2, <3>3
  <2>5. CASE Last(stages).stack = <<>>
    <3>1. Last(stages)' = IF Last(stages).doomed THEN Last(stages)
                          ELSE [stack |-> Last(stages).stack, doomed |-> TRUE]
      BY <2>2, <2>5 DEF Applied, PopCall
    <3>2. Last(stages)'.doomed = TRUE /\ Last(stages)'.stack = Last(stages).stack
      BY <2>3, <3>1
    <3>3. Abstract!PopNothing
      BY <1>3, <2>1, <2>5, <3>2 DEF Abstract!PopNothing, Draining
    <3>4. QED
      BY <2>2, <3>3
  <2>6. QED
    BY <2>4, <2>5
<1>4. QED
  BY <1>1, <1>2, <1>3

\* Every step of the client is one of the abstract stack or none.
LEMMA StepRefines ==
  ASSUME IInv, StagesFollow, [StagesNext]_<<vars, stages>>
  PROVE  StagesFollow' /\ [Abstract!Next]_Abstract!vars
<1>1. /\ cs \in StacksOf(Frames) /\ IndexesRealFrames(cs)
      /\ copy \in StacksOf(Frames) /\ IndexesRealFrames(copy)
      /\ cs.stack \in Seq(Frames) /\ cs.locked \in BOOLEAN
      /\ copy.stack \in Seq(Frames)
  BY StackParts DEF IInv, TypeOK, RealFramesIndexed, StacksOf
<1>2. CASE UNCHANGED <<vars, stages>>
  BY <1>2 DEF vars, StagesFollow, Abstract!vars
<1> SUFFICES ASSUME Next, stages' = NextStages
             PROVE  StagesFollow' /\ [Abstract!Next]_Abstract!vars
  BY <1>2 DEF StagesNext
<1>3. ASSUME NEW f \in Frames, CallPush(f)
      PROVE  StagesFollow' /\ Abstract!Next
  BY <1>3, PushRefines DEF Abstract!Next
<1>4. CASE CallPop
  BY <1>4, PopRefines DEF Abstract!Next
<1>5. CASE CallGetLock
  <2>1. /\ cs.delayed = <<>> /\ ~cs.locked /\ cs'.locked = TRUE
        /\ cs'.stack = cs.stack /\ cs'.delayed = cs.delayed
    BY <1>5 DEF CallGetLock, Calling, Draining, CanLock, GetLock, WithLock
  <2>2. StagesFollow' /\ Last(stages) = Undoomed(cs.stack) /\ Last(stages)' = Undoomed(cs.stack)
    BY <1>1, <2>1, PlainStep
  <2>3. Abstract!Lock
    BY <2>1, <2>2 DEF Abstract!Lock, Undoomed, Draining
  <2>4. QED
    BY <2>2, <2>3 DEF Abstract!Next
<1>6. CASE Unlock
  <2>1. /\ cs.locked /\ cs'.locked = FALSE
        /\ cs'.stack = cs.stack /\ cs'.delayed = cs.delayed
    BY <1>6 DEF Unlock, Release, WithLock
  <2>2. StagesFollow' /\ Last(stages)' = Last(stages)
    BY <2>1, KeptStep
  <2>3. cs.delayed = <<>> => Last(stages).stack = cs.stack
    BY <1>1, <2>1, PlainStep DEF Undoomed
  <2>4. Last(stages).doomed \in BOOLEAN
    BY LastStage DEF Stage
  <2>5. Abstract!Unlock
    BY <2>1, <2>2, <2>3, <2>4 DEF Abstract!Unlock, Draining
  <2>6. QED
    BY <2>2, <2>5 DEF Abstract!Next
<1>7. CASE ApplyDelayedModifications
  <2>1. Draining(cs) /\ ~Underflows(cs) /\ cs' = ApplyNext(cs)
    BY <1>7 DEF ApplyDelayedModifications
  <2>2. StagesFollow' /\ Last(stages)' = Last(stages)
    BY <2>1, DrainStep
  <2>3. cs.locked = FALSE /\ cs'.locked = FALSE
    BY <1>1, <2>1, RootIsAFrame, ApplyNextKeeps DEF Draining
  <2>4. IInv'
    BY <1>7, StepKeeps DEF Next
  <2>5. cs'.delayed = <<>> => cs'.stack = Last(stages)'.stack
    <3>1. SUFFICES ASSUME cs'.delayed = <<>>
                   PROVE  Last(stages)' = Undoomed(cs'.stack)
      BY DEF Undoomed
    <3>2. Len(stages') = 1 /\ stages'[1] = Undoomed(cs'.stack)
      BY <2>2, <3>1 DEF StagesFollow
    <3>3. QED
      BY <3>2 DEF Last
  <2>6. UNCHANGED Abstract!vars
    BY <2>1, <2>2, <2>3, <2>5 DEF Abstract!vars, Draining
  <2>7. QED
    BY <2>2, <2>6
<1>8. CASE Terminate \/ CallClone
  <2>1. cs' = cs
    BY <1>8 DEF Terminate, CallClone
  <2>2. StagesFollow' /\ Last(stages)' = Last(stages)
    BY <2>1, KeptStep
  <2>3. UNCHANGED Abstract!vars
    BY <2>1, <2>2 DEF Abstract!vars
  <2>4. QED
    BY <2>2, <2>3
<1>9. CASE Assign
  <2>1. /\ cs.delayed = <<>> /\ ~cs.locked /\ cs'.locked = FALSE
        /\ cs'.stack = copy.stack /\ cs'.delayed = <<>>
    BY <1>9 DEF Assign, Calling, Draining, Clone, WithFrames, EmptyStack
  <2>2. /\ StagesFollow' /\ Last(stages) = Undoomed(cs.stack)
        /\ Last(stages)' = Undoomed(copy.stack)
    BY <1>1, <2>1, PlainStep
  <2>3. Abstract!Replace
    BY <1>1, <2>1, <2>2, FreeStackShown DEF Abstract!Replace
  <2>4. QED
    BY <2>2, <2>3 DEF Abstract!Next
<1>10. QED
  BY <1>3, <1>4, <1>5, <1>6, <1>7, <1>8, <1>9 DEF Next

\* The lock hides changes and loses, repeats and reorders none, whatever is
\* called: the call stack implements the stack of LockedStack (GetLock, Push and
\* Pop under the lock, the destructor of Lock).
THEOREM ImplementsTheLockedStack == StagesSpec => ImplementsLockedStack
<1>1. StagesInit => IInv /\ StagesFollow /\ Abstract!Init
  <2> SUFFICES ASSUME StagesInit
               PROVE  IInv /\ StagesFollow /\ Abstract!Init
    OBVIOUS
  <2>1. IInv
    BY EmptyStackOK DEF StagesInit, Init, IInv, TypeOK, RealFramesIndexed
  <2>2. cs.stack = <<>> /\ cs.delayed = <<>> /\ cs.locked = FALSE
    BY DEF StagesInit, Init, EmptyStack
  <2>3. stages = <<Undoomed(<<>>)>> /\ Undoomed(<<>>) \in Stage
    BY DEF StagesInit, Undoomed, Stage
  <2>4. /\ stages \in Seq(Stage) /\ Len(stages) = 1 /\ stages[1] = Undoomed(<<>>)
        /\ Last(stages) = Undoomed(<<>>) /\ Len(cs.delayed) = 0
    BY <2>2, <2>3 DEF Last
  <2>5. QED
    BY <2>1, <2>2, <2>4 DEF StagesFollow, Abstract!Init, Undoomed, Draining
<1>2. IInv /\ StagesFollow /\ [StagesNext]_<<vars, stages>>
        => IInv' /\ StagesFollow' /\ [Abstract!Next]_Abstract!vars
  <2> SUFFICES ASSUME IInv, StagesFollow, [StagesNext]_<<vars, stages>>
               PROVE  IInv' /\ StagesFollow' /\ [Abstract!Next]_Abstract!vars
    OBVIOUS
  <2>1. CASE UNCHANGED vars
    BY <2>1, StepRefines DEF IInv, TypeOK, RealFramesIndexed, vars
  <2>2. CASE Next
    BY <2>2, StepKeeps, StepRefines
  <2>3. QED
    BY <2>1, <2>2 DEF StagesNext
<1>3. QED
  BY <1>1, <1>2, PTL DEF StagesSpec, ImplementsLockedStack, Abstract!Spec
=============================================================================
