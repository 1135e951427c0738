--------------------------- MODULE MachineProofs ---------------------------
(***************************************************************************)
(* Machine for every set of slots, opcodes and implicit savepoints and     *)
(* every depth of the stack.                                               *)
(*                                                                         *)
(* The invariant has four parts: the call stack and its index of real      *)
(* frames (StackInv), what was copied from it (CopiesInv), the remaining   *)
(* variables (PlainInv), and the part that makes it inductive: what the    *)
(* phases of Step say about the lock and the frame on top (ControlInv).    *)
(***************************************************************************)
EXTENDS Machine, CallStackLemmas

StackInv == cs \in StacksOf(Frames) /\ IndexesRealFrames(cs)

CopiesInv ==
  /\ savepoint \in [frames : Seq(Frames), memory : Nat]
  /\ memory \in Nat
  /\ snapshot = None \/ snapshot \in Archives
  /\ DOMAIN files = Slots
  /\ \A s \in Slots : files[s] = None \/ files[s] \in Archives
  /\ archive \in Archives

PlainInv ==
  /\ mark \in BOOLEAN
  /\ halted \in BOOLEAN
  /\ inMenu \in BOOLEAN
  /\ visible \in BOOLEAN
  /\ phase \in {"run", "longop", "unlock", "popping", "loading"} \cup Ended
  /\ finished \in BOOLEAN
  /\ ran \in Nat

\* Only a long operation sees the lock, only pushes are delayed, and when an
\* operation has reported its end nothing was put on top of it.
ControlInv ==
  /\ cs.locked <=> phase = "longop"
  /\ phase # "unlock" => cs.delayed = <<>>
  /\ \A i \in DOMAIN cs.delayed : cs.delayed[i].call = "push"
  /\ phase = "longop" => HasLongop /\ Len(cs.stack) = ran
  /\ finished => /\ phase = "unlock"
                 /\ cs.delayed = <<>>
                 /\ Len(cs.stack) = ran
                 /\ HasLongop

Parts == StackInv /\ CopiesInv /\ PlainInv /\ ControlInv

(***************************************************************************)
(* Frames, copies of stacks and archives.                                  *)
(***************************************************************************)

\* The frames the actions push are frames of the machine.
LEMMA FramesPushed ==
  /\ \A t \in {"root", "gosub", "farcall"} : RealFrame(t) \in Frames
  /\ \A o \in LongOps \cup {Lost} : LongopFrame(o) \in Frames
BY DEF Frames, FrameTypes

\* On an unlocked stack a push is immediate (CallStack::Push).
LEMMA PushUnlocked ==
  ASSUME NEW c \in StacksOf(Frames), IndexesRealFrames(c), ~c.locked,
         c.delayed = <<>>, NEW f \in Frames
  PROVE  /\ Push(c, f) \in StacksOf(Frames)
         /\ IndexesRealFrames(Push(c, f))
         /\ ~Push(c, f).locked
         /\ Push(c, f).delayed = <<>>
         /\ Push(c, f).stack = Append(c.stack, f)
BY PushType, PushIndexes

\* So is a pop of a stack that has a frame (CallStack::Pop).
LEMMA PopUnlocked ==
  ASSUME NEW c \in StacksOf(Frames), IndexesRealFrames(c), ~c.locked,
         c.delayed = <<>>, c.stack # <<>>
  PROVE  /\ Pop(c) \in StacksOf(Frames)
         /\ IndexesRealFrames(Pop(c))
         /\ ~Pop(c).locked
         /\ Pop(c).delayed = <<>>
         /\ Pop(c).stack = Front(c.stack)
BY PopType, PopIndexes, FramesPushed DEF CanPop

\* The stack with which the machine starts has the root frame.
LEMMA BootedOK ==
  /\ Booted \in StacksOf(Frames)
  /\ IndexesRealFrames(Booted)
  /\ ~Booted.locked
  /\ Booted.delayed = <<>>
<1>1. EmptyStack \in StacksOf(Frames) /\ IndexesRealFrames(EmptyStack)
  BY EmptyStackOK
<1>2. ~EmptyStack.locked /\ EmptyStack.delayed = <<>>
  BY DEF EmptyStack
<1>3. QED
  BY <1>1, <1>2, FramesPushed, PushUnlocked DEF Booted

\* A savepoint holds the frames of the stack (RLMachine::MarkSavepoint).
LEMMA MarkedType ==
  ASSUME NEW c \in StacksOf(Frames), memory \in Nat
  PROVE  Marked(c) \in [frames : Seq(Frames), memory : Nat]
BY DEF Marked, Clone, WithFrames, StacksOf

\* Saving writes frames, without their operations (StackFrame::serialize).
LEMMA SavedType ==
  ASSUME CopiesInv, NEW torn \in BOOLEAN
  PROVE  Saved(torn) \in Archives
<1> DEFINE fs == savepoint.frames
<1>1. fs \in Seq(Frames) /\ savepoint.memory \in Nat /\ memory \in Nat
  BY DEF CopiesInv
<1>2. Len(fs) \in Nat /\ DOMAIN fs = 1 .. Len(fs)
  BY <1>1
<1>3. \A i \in 1 .. Len(fs) :
        (IF IsReal(fs[i]) THEN fs[i] ELSE LongopFrame(Lost)) \in Frames
  BY <1>1, <1>2, FramesPushed
<1>4. Strip(fs) \in Seq(Frames)
  BY <1>2, <1>3, IsASeq DEF Strip
<1>5. QED
  BY <1>1, <1>4 DEF Saved, Archives

(***************************************************************************)
(* Outside a step of a long operation.                                     *)
(***************************************************************************)

\* Then the stack is unlocked and nothing is delayed or finished.
LEMMA QuietState ==
  ASSUME Parts, phase \notin {"longop", "unlock"}
  PROVE  /\ cs \in StacksOf(Frames) /\ IndexesRealFrames(cs)
         /\ ~cs.locked /\ cs.delayed = <<>>
         /\ finished = FALSE
<1>1. finished \in BOOLEAN
  BY DEF Parts, PlainInv
<1>2. QED
  BY <1>1 DEF Parts, StackInv, ControlInv

\* A stack as a step outside a long operation may leave it.
Quiet(c) ==
  c \in StacksOf(Frames) /\ IndexesRealFrames(c) /\ ~c.locked /\ c.delayed = <<>>

LEMMA QuietKeeps ==
  ASSUME Quiet(cs'), finished' = FALSE, phase' \notin {"longop", "unlock"}
  PROVE  StackInv' /\ ControlInv'
<1>1. DOMAIN cs'.delayed = {}
  BY DEF Quiet
<1>2. QED
  BY <1>1 DEF Quiet, StackInv, ControlInv

LEMMA QuietPush ==
  ASSUME NEW c, Quiet(c), NEW f \in Frames
  PROVE  Quiet(Push(c, f)) /\ Push(c, f).stack = Append(c.stack, f)
BY PushUnlocked DEF Quiet

LEMMA QuietPop ==
  ASSUME NEW c, Quiet(c), c.stack # <<>>
  PROVE  Quiet(Pop(c)) /\ Pop(c).stack = Front(c.stack)
BY PopUnlocked DEF Quiet

LEMMA QuietEmpty == Quiet(EmptyStack)
BY EmptyStackOK DEF Quiet, EmptyStack

LEMMA QuietBooted == Quiet(Booted)
BY BootedOK DEF Quiet

\* Farcall leaves such a stack, and a well-formed savepoint (Farcall).
LEMMA FarcallKeeps ==
  ASSUME CopiesInv, NEW c, Quiet(c), NEW onError, Farcall(c, onError)
  PROVE  /\ Quiet(cs')
         /\ savepoint' \in [frames : Seq(Frames), memory : Nat]
         /\ phase' \in {"run", onError}
<1>1. Quiet(cs')
  BY QuietPush, FramesPushed DEF Farcall
<1>2. savepoint' \in {savepoint, Marked(c)}
  BY DEF Farcall, Implicit
<1>3. Marked(c) \in [frames : Seq(Frames), memory : Nat]
  BY MarkedType DEF Quiet, CopiesInv
<1>4. QED
  BY <1>1, <1>2, <1>3 DEF Farcall, CopiesInv

\* What holds of the variables an event or instruction finds.
LEMMA Found ==
  ASSUME Parts, Event
  PROVE  Quiet(cs) /\ finished = FALSE /\ phase = "run"
BY QuietState DEF Event, Quiet

(***************************************************************************)
(* Every step keeps the invariant.                                         *)
(***************************************************************************)

\* A click opens a menu on top of the operation that was polled.
LEMMA ClickKeeps ==
  ASSUME Parts, ShowSyscomMenu \/ ReleaseExButton \/ SelectByIndex
  PROVE  Parts'
<1>1. CopiesInv /\ PlainInv
  BY DEF Parts
<1>2. Quiet(cs) /\ finished = FALSE /\ phase = "run"
  BY Found DEF ShowSyscomMenu, ReleaseExButton, SelectByIndex
<1>3. \A o \in {"menureseter", "restoretext"} : Quiet(Push(cs, LongopFrame(o)))
  BY <1>2, FramesPushed, QuietPush DEF LongOps
<1>4. CASE ShowSyscomMenu
  <2>1. Farcall(Push(cs, LongopFrame("menureseter")), "ended")
    BY <1>4 DEF ShowSyscomMenu
  <2>2. /\ Quiet(cs') /\ phase' \in {"run", "ended"}
        /\ savepoint' \in [frames : Seq(Frames), memory : Nat]
    BY <1>1, <1>3, <2>1, FarcallKeeps
  <2>3. StackInv' /\ ControlInv'
    BY <1>2, <1>4, <2>2, QuietKeeps DEF ShowSyscomMenu
  <2>4. CopiesInv'
    BY <1>1, <1>4, <2>2 DEF ShowSyscomMenu, CopiesInv
  <2>5. PlainInv'
    BY <1>1, <1>4, <2>2 DEF ShowSyscomMenu, PlainInv, Ended
  <2>6. QED
    BY <2>3, <2>4, <2>5 DEF Parts
<1>5. CASE ReleaseExButton
  <2>1. Farcall(Push(cs, LongopFrame("restoretext")), "ended")
    BY <1>5 DEF ReleaseExButton
  <2>2. /\ Quiet(cs') /\ phase' \in {"run", "ended"}
        /\ savepoint' \in [frames : Seq(Frames), memory : Nat]
    BY <1>1, <1>3, <2>1, FarcallKeeps
  <2>3. StackInv' /\ ControlInv'
    BY <1>2, <1>5, <2>2, QuietKeeps DEF ReleaseExButton
  <2>4. CopiesInv'
    BY <1>1, <1>5, <2>2 DEF ReleaseExButton, CopiesInv
  <2>5. PlainInv'
    BY <1>1, <1>5, <2>2 DEF ReleaseExButton, PlainInv, Ended
  <2>6. QED
    BY <2>3, <2>4, <2>5 DEF Parts
<1>6. CASE SelectByIndex
  <2>1. Saved(FALSE) \in Archives
    BY <1>1, SavedType
  <2>2. StackInv' /\ ControlInv'
    BY <1>2, <1>6, QuietKeeps DEF SelectByIndex, stepVars
  <2>3. CopiesInv'
    BY <1>1, <1>6, <2>1 DEF SelectByIndex, CopiesInv, stepVars
  <2>4. PlainInv'
    BY <1>1, <1>6 DEF SelectByIndex, PlainInv, stepVars
  <2>5. QED
    BY <2>2, <2>3, <2>4 DEF Parts
<1>7. QED
  BY <1>4, <1>5, <1>6

\* The operation runs under the lock; when it has returned, what it pushed is
\* applied.  An operation that pushes does not report its end.
LEMMA EndsKeeps ==
  ASSUME Parts, NEW o \in LongOps, NEW c, NEW done \in BOOLEAN, Ends(o, c, done),
         inMenu' \in BOOLEAN, visible' \in BOOLEAN, snapshot' = snapshot,
         c = cs \/ (~done /\ c = Push(cs, LongopFrame("pause")))
  PROVE  Parts'
<1>1. /\ CopiesInv /\ PlainInv /\ StackInv
      /\ cs.locked /\ cs.delayed = <<>> /\ OnTop(o) /\ Len(cs.stack) = ran
      /\ phase' = "unlock" /\ finished' = done /\ cs' = Release(c)
  BY DEF Parts, ControlInv, Ends
<1>2. LongopFrame("pause") \in Frames
  BY FramesPushed DEF LongOps
<1>3. c \in StacksOf(Frames) /\ IndexesRealFrames(c) /\ c.stack = cs.stack
  BY <1>1, <1>2, PushType, PushIndexes DEF StackInv
<1>4. /\ cs' \in StacksOf(Frames) /\ IndexesRealFrames(cs')
      /\ ~cs'.locked /\ cs'.delayed = c.delayed /\ cs'.stack = cs.stack
  BY <1>1, <1>3, LockKeeps DEF Release, WithLock
<1>5. \A i \in DOMAIN c.delayed : c.delayed[i].call = "push"
  <2>1. CASE c = cs
    BY <1>1, <2>1
  <2>2. CASE c # cs
    <3>1. c.delayed = Append(cs.delayed, PushCall(LongopFrame("pause")))
      BY <1>1, <1>2, <2>2, PushType DEF StackInv
    <3>2. QED
      BY <1>1, <3>1 DEF PushCall
  <2>3. QED
    BY <2>1, <2>2
<1>6. done => c.delayed = <<>>
  BY <1>1
<1>7. HasLongop'
  BY <1>1, <1>4 DEF HasLongop, OnTop, Top
<1>8. ran' = ran
  BY DEF Ends
<1>9. ControlInv'
  BY <1>1, <1>4, <1>5, <1>6, <1>7, <1>8 DEF ControlInv
<1>10. CopiesInv'
  BY <1>1 DEF CopiesInv, Ends
<1>11. PlainInv'
  BY <1>1 DEF PlainInv, Ends
<1>12. QED
  BY <1>4, <1>9, <1>10, <1>11 DEF Parts, StackInv

\* A step of a long operation, from taking the lock to popping the frame.
LEMMA LongopKeeps ==
  ASSUME Parts, LongopStep
  PROVE  Parts'
<1>1. CopiesInv /\ PlainInv /\ StackInv /\ ControlInv
  BY DEF Parts
<1>2. CASE ExecuteLongop
  <2>1. /\ Quiet(cs) /\ finished = FALSE /\ HasLongop
        /\ cs' = GetLock(cs) /\ phase' = "longop" /\ ran' = Len(cs.stack)
        /\ finished' = finished
    BY <1>2, Found DEF ExecuteLongop
  <2>2. /\ cs' \in StacksOf(Frames) /\ IndexesRealFrames(cs')
        /\ cs'.locked = TRUE /\ cs'.delayed = <<>> /\ cs'.stack = cs.stack
    BY <2>1, LockKeeps DEF Quiet, GetLock, WithLock
  <2>3. HasLongop'
    BY <2>1, <2>2 DEF HasLongop, OnTop, Top
  <2>4. ControlInv'
    BY <2>1, <2>2, <2>3 DEF ControlInv
  <2>5. Len(cs.stack) \in Nat
    BY <1>1 DEF StackInv, StacksOf
  <2>6. CopiesInv'
    BY <1>1, <1>2 DEF ExecuteLongop, CopiesInv, systemVars
  <2>7. PlainInv'
    BY <1>1, <1>2, <2>5 DEF ExecuteLongop, PlainInv, systemVars
  <2>8. QED
    BY <2>2, <2>4, <2>6, <2>7 DEF Parts, StackInv
<1>3. CASE MenuReseter
  <2>1. Ends("menureseter", cs, TRUE) /\ inMenu' \in BOOLEAN
        /\ visible' \in BOOLEAN /\ snapshot' = snapshot
    BY <1>1, <1>3 DEF MenuReseter, PlainInv
  <2>2. QED
    BY <2>1, EndsKeeps DEF LongOps
<1>4. CASE RestoreTextSystemVisibility
  <2>1. Ends("restoretext", cs, TRUE) /\ inMenu' \in BOOLEAN
        /\ visible' \in BOOLEAN /\ snapshot' = snapshot
    BY <1>1, <1>4 DEF RestoreTextSystemVisibility, PlainInv
  <2>2. QED
    BY <2>1, EndsKeeps DEF LongOps
<1>5. UNCHANGED systemVars =>
        inMenu' \in BOOLEAN /\ visible' \in BOOLEAN /\ snapshot' = snapshot
  BY <1>1 DEF systemVars, PlainInv
<1>6. CASE TextoutThrows
  BY <1>5, <1>6, EndsKeeps DEF TextoutThrows, LongOps
<1>7. CASE TextoutDisplays
  BY <1>5, <1>7, EndsKeeps DEF TextoutDisplays, LongOps
<1>8. CASE TextoutFillsPage
  BY <1>5, <1>8, EndsKeeps DEF TextoutFillsPage, LongOps
<1>9. CASE PollLongop
  <2>1. PICK o \in {"pause", "select", "wait"}, done \in BOOLEAN : Ends(o, cs, done)
    BY <1>9 DEF PollLongop
  <2>2. o \in LongOps
    BY DEF LongOps
  <2>3. QED
    BY <1>5, <1>9, <2>1, <2>2, EndsKeeps DEF PollLongop
<1>10. CASE ApplyDelayedModifications
  <2>1. /\ phase = "unlock" /\ phase' = "unlock" /\ Draining(cs)
        /\ cs' = ApplyNext(cs) /\ finished' = finished
    BY <1>10 DEF ApplyDelayedModifications, stepVars
  <2>2. /\ cs.delayed # <<>> /\ finished = FALSE
        /\ cs.delayed \in Seq([call : {"push", "pop"}, frame : Frames])
    BY <1>1, <2>1 DEF Draining, ControlInv, PlainInv, StackInv, StacksOf
  <2>3. DOMAIN cs.delayed = 1 .. Len(cs.delayed) /\ Len(cs.delayed) \in Nat \ {0}
    BY <2>2, EmptySeq
  <2>4. Head(cs.delayed) = cs.delayed[1]
    BY <2>2
  <2>5. Head(cs.delayed).call = "push"
    BY <1>1, <2>3, <2>4 DEF ControlInv
  <2>6. ~Underflows(cs)
    BY <2>5 DEF Underflows
  <2>7. /\ cs' \in StacksOf(Frames) /\ IndexesRealFrames(cs')
        /\ ~cs'.locked /\ cs'.delayed = Tail(cs.delayed)
    BY <1>1, <2>1, <2>6, FramesPushed, ApplyNextKeeps DEF StackInv
  <2>8. /\ Tail(cs.delayed) \in Seq([call : {"push", "pop"}, frame : Frames])
        /\ Len(Tail(cs.delayed)) = Len(cs.delayed) - 1
        /\ \A i \in 1 .. Len(Tail(cs.delayed)) :
             Tail(cs.delayed)[i] = cs.delayed[i + 1]
    BY <2>2, HeadTailProperties
  <2>9. DOMAIN Tail(cs.delayed) = 1 .. Len(cs.delayed) - 1
    BY <2>8, LenProperties
  <2>10. \A i \in DOMAIN cs'.delayed : cs'.delayed[i].call = "push"
    BY <1>1, <2>3, <2>7, <2>8, <2>9 DEF ControlInv
  <2>11. ControlInv'
    BY <2>1, <2>2, <2>7, <2>10 DEF ControlInv
  <2>12. CopiesInv'
    BY <1>1, <1>10 DEF ApplyDelayedModifications, CopiesInv, systemVars, stepVars
  <2>13. PlainInv'
    BY <1>1, <1>10 DEF ApplyDelayedModifications, PlainInv, systemVars, stepVars
  <2>14. QED
    BY <2>7, <2>11, <2>12, <2>13 DEF Parts, StackInv
<1>11. CASE StepEnds
  <2>1. /\ phase = "unlock" /\ ~Draining(cs) /\ phase' = "run"
        /\ finished' = FALSE /\ ran' = 0
        /\ cs' = IF finished THEN Pop(cs) ELSE cs
    BY <1>11 DEF StepEnds
  <2>2. Quiet(cs)
    BY <1>1, <2>1 DEF Quiet, Draining, StackInv, ControlInv
  <2>3. finished => cs.stack # <<>>
    BY <1>1 DEF ControlInv, HasLongop, OnTop
  <2>4. Quiet(cs')
    BY <2>1, <2>2, <2>3, QuietPop
  <2>5. StackInv' /\ ControlInv'
    BY <2>1, <2>4, QuietKeeps
  <2>6. CopiesInv'
    BY <1>1, <1>11 DEF StepEnds, CopiesInv, systemVars
  <2>7. PlainInv'
    BY <1>1, <1>11 DEF StepEnds, PlainInv, systemVars
  <2>8. QED
    BY <2>5, <2>6, <2>7 DEF Parts
<1>12. QED
  BY <1>2, <1>3, <1>4, <1>6, <1>7, <1>8, <1>9, <1>10, <1>11 DEF LongopStep

\* What an instruction finds, and what is enough for it to leave behind.
LEMMA InstructionFinds ==
  ASSUME Parts, NEW op, Instruction(op)
  PROVE  /\ Quiet(cs) /\ finished = FALSE /\ phase = "run"
         /\ cs.stack # <<>> /\ IsReal(Top(cs))
         /\ halted' \in BOOLEAN
BY Found DEF Instruction

LEMMA InstructionLeaves ==
  ASSUME Parts, Quiet(cs'), finished' = finished, finished = FALSE, ran' = ran,
         phase' \in {"run", "popping", "loading"} \cup Ended,
         <<mark, halted, inMenu, visible>>' \in BOOLEAN \X BOOLEAN \X BOOLEAN \X BOOLEAN,
         savepoint' \in [frames : Seq(Frames), memory : Nat],
         memory' \in Nat,
         snapshot' = snapshot \/ snapshot' = None,
         files' = files \/ \E s \in Slots, a \in Archives :
                             files' = [files EXCEPT ![s] = a],
         archive' \in Archives
  PROVE  Parts'
<1>1. StackInv' /\ ControlInv'
  BY QuietKeeps DEF Ended
<1>2. /\ DOMAIN files' = Slots
      /\ \A s \in Slots : files'[s] = None \/ files'[s] \in Archives
  BY DEF Parts, CopiesInv
<1>3. CopiesInv'
  BY <1>2 DEF Parts, CopiesInv
<1>4. PlainInv'
  BY DEF Parts, PlainInv
<1>5. QED
  BY <1>1, <1>3, <1>4 DEF Parts

\* Implicit savepoints are well formed.
LEMMA ImplicitType ==
  ASSUME Parts, Quiet(cs), NEW kind
  PROVE  Implicit(kind, cs) \subseteq [frames : Seq(Frames), memory : Nat]
BY MarkedType DEF Implicit, Parts, CopiesInv, Quiet

\* Starting one or two long operations.
LEMMA StartsKeeps ==
  ASSUME Parts, NEW op, NEW fs, NEW sps, Starts(op, fs, sps),
         fs[1] \in LongOps, fs[2] \in LongOps \/ Len(fs) = 1,
         sps \subseteq [frames : Seq(Frames), memory : Nat]
  PROVE  Parts'
<1>1. /\ Quiet(cs) /\ finished = FALSE /\ phase = "run" /\ halted' \in BOOLEAN
  BY InstructionFinds DEF Starts
<1>2. LongopFrame(fs[1]) \in Frames /\ (LongopFrame(fs[2]) \in Frames \/ Len(fs) = 1)
  BY FramesPushed
<1>3. Quiet(Push(cs, LongopFrame(fs[1])))
  BY <1>1, <1>2, QuietPush
<1>4. Len(fs) = 1 \/ Quiet(Push(Push(cs, LongopFrame(fs[1])), LongopFrame(fs[2])))
  BY <1>2, <1>3, QuietPush
<1>5. Quiet(cs')
  BY <1>3, <1>4 DEF Starts
<1>6. CopiesInv /\ PlainInv
  BY DEF Parts
<1>7. QED
  BY <1>1, <1>5, <1>6, InstructionLeaves
  DEF Starts, CopiesInv, PlainInv, systemVars, stepVars

\* RLMachine::Reset, before the frames of a saved stack are pushed.
LEMMA StartLoadKeeps ==
  ASSUME Parts, NEW op, Instruction(op), NEW a \in Archives, StartLoad(a)
  PROVE  Parts'
<1>1. Quiet(cs) /\ finished = FALSE /\ halted' \in BOOLEAN
  BY InstructionFinds
<1>2. CopiesInv /\ PlainInv
  BY DEF Parts
<1>3. NoSavepoint \in [frames : Seq(Frames), memory : Nat]
  BY DEF NoSavepoint
<1>4. QED
  BY <1>1, <1>2, <1>3, QuietEmpty, InstructionLeaves
  DEF StartLoad, SystemReset, CopiesInv, PlainInv

\* One instruction, or what happens instead of one.
LEMMA InstructionKeeps ==
  ASSUME Parts, InstructionStep
  PROVE  Parts'
<1>1. CopiesInv /\ PlainInv
  BY DEF Parts
<1> USE DEF systemVars, stepVars
<1>2. CASE Other
  BY <1>1, <1>2, InstructionFinds, InstructionLeaves DEF Other, CopiesInv, PlainInv
<1>3. CASE SkipLost
  <2>1. Quiet(cs) /\ finished = FALSE /\ phase = "run" /\ halted' \in BOOLEAN
    BY <1>3, Found DEF SkipLost
  <2>2. QED
    BY <1>1, <1>3, <2>1, InstructionLeaves DEF SkipLost, CopiesInv, PlainInv
<1>4. CASE Underrun
  <2>1. Quiet(cs) /\ finished = FALSE
    BY <1>4, Found DEF Underrun
  <2>2. QED
    BY <1>1, <1>4, <2>1, InstructionLeaves DEF Underrun, CopiesInv, PlainInv, Ended
<1>5. CASE Write
  <2>1. Quiet(cs) /\ finished = FALSE /\ phase = "run" /\ halted' \in BOOLEAN
    BY <1>5, InstructionFinds DEF Write
  <2>2. memory' \in Nat
    BY <1>1, <1>5 DEF Write, CopiesInv
  <2>3. QED
    BY <1>1, <1>5, <2>1, <2>2, InstructionLeaves DEF Write, CopiesInv, PlainInv
<1>6. CASE Gosub
  <2>1. Quiet(cs')
    BY <1>6, InstructionFinds, FramesPushed, QuietPush DEF Gosub
  <2>2. QED
    BY <1>1, <1>6, <2>1, InstructionFinds, InstructionLeaves
    DEF Gosub, CopiesInv, PlainInv
<1>7. CASE FarcallOp
  <2>1. /\ Quiet(cs') /\ phase' = "run"
        /\ savepoint' \in [frames : Seq(Frames), memory : Nat]
    BY <1>1, <1>7, InstructionFinds, FarcallKeeps DEF FarcallOp
  <2>2. QED
    BY <1>1, <1>7, <2>1, InstructionFinds, InstructionLeaves
    DEF FarcallOp, CopiesInv, PlainInv
<1>8. CASE Return
  <2>1. Quiet(cs')
    BY <1>8, InstructionFinds, QuietPop DEF Return
  <2>2. QED
    BY <1>1, <1>8, <2>1, InstructionFinds, InstructionLeaves
    DEF Return, CopiesInv, PlainInv
<1>9. CASE CallStackPop
  BY <1>1, <1>9, InstructionFinds, InstructionLeaves
  DEF CallStackPop, CopiesInv, PlainInv
<1>10. CASE CallStackPops
  <2>1. Quiet(cs) /\ finished = FALSE
    BY <1>10, QuietState DEF CallStackPops, Quiet
  <2>2. Quiet(cs') /\ phase' \in {"popping", "run", "nulltop"}
    BY <1>10, <2>1, QuietPop DEF CallStackPops, CanPop, Quiet
  <2>3. QED
    BY <1>1, <1>10, <2>1, <2>2, InstructionLeaves
    DEF CallStackPops, CopiesInv, PlainInv, Ended
<1>11. CASE StartLongop
  <2>1. savepoint \in [frames : Seq(Frames), memory : Nat]
    BY <1>1 DEF CopiesInv
  <2>2. ASSUME NEW op, NEW fs, NEW sps, Starts(op, fs, sps)
        PROVE  Quiet(cs)
    BY <2>2, InstructionFinds DEF Starts
  <2>3. Implicit("selcom", cs) \subseteq [frames : Seq(Frames), memory : Nat]
    BY <1>11, <2>2, ImplicitType DEF StartLongop
  <2>4. ASSUME NEW op, NEW o \in {"textout", "pause", "wait"},
               Starts(op, <<o>>, {savepoint})
        PROVE  Parts'
    BY <2>1, <2>4, StartsKeeps DEF LongOps
  <2>5. CASE Starts("select", <<"select">>, Implicit("selcom", cs))
    BY <2>3, <2>5, StartsKeeps DEF LongOps
  <2>6. CASE Starts("select_w", <<"wait", "select">>, Implicit("selcom", cs))
    BY <2>3, <2>6, StartsKeeps DEF LongOps
  <2>7. QED
    BY <1>11, <2>4, <2>5, <2>6 DEF StartLongop
<1>12. CASE Kidoku
  <2>1. savepoint' \in [frames : Seq(Frames), memory : Nat]
    BY <1>12, InstructionFinds, ImplicitType DEF Kidoku
  <2>2. QED
    BY <1>1, <1>12, <2>1, InstructionFinds, InstructionLeaves
    DEF Kidoku, CopiesInv, PlainInv
<1>13. CASE MarkSavepoint
  <2>1. savepoint' \in [frames : Seq(Frames), memory : Nat]
    BY <1>1, <1>13, InstructionFinds, MarkedType DEF MarkSavepoint, CopiesInv, Quiet
  <2>2. QED
    BY <1>1, <1>13, <2>1, InstructionFinds, InstructionLeaves
    DEF MarkSavepoint, CopiesInv, PlainInv
<1>14. CASE SetMarkSavepoints
  BY <1>1, <1>14, InstructionFinds, InstructionLeaves
  DEF SetMarkSavepoints, CopiesInv, PlainInv
<1>15. CASE MenuReturn
  <2>1. PICK op : Instruction(op)
    BY <1>15 DEF MenuReturn
  <2>2. Quiet(cs) /\ finished = FALSE /\ phase = "run" /\ halted' \in BOOLEAN
    BY <2>1, InstructionFinds
  <2>3. LongopFrame("wait") \in Frames
    BY FramesPushed DEF LongOps
  <2>4. Quiet(cs')
    BY <1>15, <2>2, <2>3, QuietPush DEF MenuReturn
  <2>5. NoSavepoint \in [frames : Seq(Frames), memory : Nat]
    BY DEF NoSavepoint
  <2>6. QED
    BY <1>1, <1>15, <2>2, <2>4, <2>5, InstructionLeaves
    DEF MenuReturn, LocalReset, SystemReset, CopiesInv, PlainInv
<1>16. CASE InvokeSaveOrLoad
  <2>1. Quiet(Push(cs, LongopFrame("restoretext")))
    BY <1>16, InstructionFinds, FramesPushed, QuietPush DEF InvokeSaveOrLoad, LongOps
  <2>2. /\ Quiet(cs') /\ phase' = "run"
        /\ savepoint' \in [frames : Seq(Frames), memory : Nat]
    BY <1>1, <1>16, <2>1, FarcallKeeps DEF InvokeSaveOrLoad
  <2>3. QED
    BY <1>1, <1>16, <2>2, InstructionFinds, InstructionLeaves
    DEF InvokeSaveOrLoad, CopiesInv, PlainInv
<1>17. ASSUME NEW s \in Slots, Save(s)
       PROVE  Parts'
  <2>1. Saved(TRUE) \in Archives /\ Saved(FALSE) \in Archives
    BY <1>1, SavedType
  <2>2. QED
    BY <1>1, <1>17, <2>1, InstructionFinds, InstructionLeaves
    DEF Save, CopiesInv, PlainInv, Ended
<1>18. ASSUME NEW s \in Slots, Load(s)
       PROVE  Parts'
  <2>1. files[s] \in Archives
    BY <1>1, <1>18 DEF Load, CopiesInv
  <2>2. QED
    BY <1>18, <2>1, StartLoadKeeps DEF Load
<1>19. CASE ReturnPrevSelect
  BY <1>1, <1>19, StartLoadKeeps DEF ReturnPrevSelect, CopiesInv
<1>20. CASE End
  <2>1. Quiet(cs) /\ finished = FALSE /\ phase = "run" /\ halted' \in BOOLEAN
    BY <1>20, InstructionFinds DEF End
  <2>2. QED
    BY <1>1, <1>20, <2>1, InstructionLeaves DEF End, CopiesInv, PlainInv
<1>21. QED
  BY <1>2, <1>3, <1>4, <1>5, <1>6, <1>7, <1>8, <1>9, <1>10, <1>11, <1>12, <1>13,
     <1>14, <1>15, <1>16, <1>17, <1>18, <1>19, <1>20 DEF InstructionStep

\* Loading pushes the saved frames one by one, then the two fades.
LEMMA LoadKeeps ==
  ASSUME Parts, LoadFrame \/ LoadThrows \/ LoadEnds
  PROVE  Parts'
<1>1. CopiesInv /\ PlainInv
  BY DEF Parts
<1>2. Quiet(cs) /\ finished = FALSE
  BY QuietState DEF LoadFrame, LoadThrows, LoadEnds, Quiet
<1>3. /\ archive.frames \in Seq(Frames) /\ archive.memory \in Nat
      /\ archive.marked \in Nat /\ archive.torn \in BOOLEAN
  BY <1>1 DEF CopiesInv, Archives
<1>4. NoArchive \in Archives
  BY DEF NoArchive, Archives
<1> USE DEF systemVars
<1>5. CASE LoadFrame
  <2>1. Head(archive.frames) \in Frames /\ Tail(archive.frames) \in Seq(Frames)
    BY <1>3, <1>5, HeadTailProperties DEF LoadFrame
  <2>2. archive' \in Archives
    BY <1>1, <1>5, <2>1 DEF LoadFrame, CopiesInv, Archives
  <2>3. Quiet(cs')
    BY <1>2, <1>5, <2>1, QuietPush DEF LoadFrame
  <2>4. QED
    BY <1>1, <1>2, <1>5, <2>2, <2>3, InstructionLeaves
    DEF LoadFrame, CopiesInv, PlainInv
<1>6. CASE LoadThrows
  BY <1>1, <1>2, <1>4, <1>6, InstructionLeaves
  DEF LoadThrows, CopiesInv, PlainInv, Ended
<1>7. CASE LoadEnds
  <2>1. LongopFrame("wait") \in Frames
    BY FramesPushed DEF LongOps
  <2>2. Quiet(Push(Push(cs, LongopFrame("wait")), LongopFrame("wait")))
    BY <1>2, <2>1, QuietPush
  <2>3. Quiet(cs')
    BY <1>2, <1>7, <2>2 DEF LoadEnds
  <2>4. QED
    BY <1>1, <1>2, <1>3, <1>4, <1>7, <2>3, InstructionLeaves
    DEF LoadEnds, CopiesInv, PlainInv, Ended
<1>8. QED
  BY <1>5, <1>6, <1>7

\* A program that starts: Init, and the part of Restart that is like it.
LEMMA StartKeeps ==
  ASSUME Quiet(cs), savepoint = NoSavepoint, mark = TRUE, halted = FALSE,
         memory = 0, inMenu = FALSE, visible = TRUE, snapshot = None,
         phase = "run", finished = FALSE, ran = 0, archive = NoArchive,
         DOMAIN files = Slots,
         \A s \in Slots : files[s] = None \/ files[s] \in Archives
  PROVE  Parts
<1>1. StackInv
  BY DEF Quiet, StackInv
<1>2. ControlInv
  <2>1. DOMAIN cs.delayed = {}
    BY DEF Quiet
  <2>2. QED
    BY <2>1 DEF Quiet, ControlInv
<1>3. CopiesInv
  BY DEF CopiesInv, NoSavepoint, NoArchive, Archives
<1>4. PlainInv
  BY DEF PlainInv
<1>5. QED
  BY <1>1, <1>2, <1>3, <1>4 DEF Parts

LEMMA RestartKeeps ==
  ASSUME Parts, Restart
  PROVE  Parts'
<1>1. Quiet(cs')
  BY QuietBooted DEF Restart
<1>2. /\ DOMAIN files' = Slots
      /\ \A s \in Slots : files'[s] = None \/ files'[s] \in Archives
  BY DEF Restart, Parts, CopiesInv
<1>3. StackInv' /\ ControlInv'
  BY <1>1, QuietKeeps DEF Restart
<1>4. CopiesInv'
  BY <1>2 DEF Restart, SystemReset, CopiesInv, NoSavepoint, NoArchive, Archives
<1>5. PlainInv'
  BY DEF Restart, SystemReset, PlainInv
<1>6. QED
  BY <1>3, <1>4, <1>5 DEF Parts

LEMMA StepKeeps ==
  ASSUME Parts, [Next]_vars
  PROVE  Parts'
<1>1. CASE UNCHANGED vars
  <2>1. UNCHANGED <<cs, savepoint, mark, halted, memory, inMenu, visible, snapshot,
                    files, phase, finished, ran, archive>>
    BY <1>1 DEF vars, systemVars, stepVars
  <2>2. StackInv' /\ CopiesInv'
    BY <2>1 DEF Parts, StackInv, CopiesInv
  <2>3. PlainInv'
    BY <2>1 DEF Parts, PlainInv
  <2>4. ControlInv'
    BY <2>1 DEF Parts, ControlInv, HasLongop, OnTop, Top
  <2>5. QED
    BY <2>2, <2>3, <2>4 DEF Parts
<1>2. CASE Next
  BY <1>2, ClickKeeps, LongopKeeps, InstructionKeeps, LoadKeeps, RestartKeeps
  DEF Next
<1>3. QED
  BY <1>1, <1>2

LEMMA Inductive == Spec => []Parts
<1>1. Init => Parts
  <2> SUFFICES ASSUME Init PROVE Parts
    OBVIOUS
  <2>1. DOMAIN files = Slots /\ \A s \in Slots : files[s] = None
    BY DEF Init
  <2>2. QED
    BY <2>1, QuietBooted, StartKeeps DEF Init
<1>2. Parts /\ [Next]_vars => Parts'
  BY StepKeeps
<1>3. QED
  BY <1>1, <1>2, PTL DEF Spec

\* Every reachable state of the machine is well formed.
THEOREM MachineTypeCorrect == Spec => []TypeOK
<1>1. Parts => TypeOK
  BY DEF Parts, StackInv, CopiesInv, PlainInv, TypeOK
<1>2. QED
  BY <1>1, Inductive, PTL

\* The index of real frames fits the stack under all that long operations,
\* clicks, menus, savepoints and loads do to it (CallStack::Push and Pop).
THEOREM MachineFramesIndexed == Spec => []RealFramesIndexed
<1>1. Parts => RealFramesIndexed
  BY DEF Parts, StackInv, RealFramesIndexed
<1>2. QED
  BY <1>1, Inductive, PTL

\* The frame that Step pops is the one of the operation that has finished
\* (RLVMInstance::Step).
THEOREM TheFinishedIsPopped == Spec => []FinishedIsPopped
<1>1. Parts => FinishedIsPopped
  BY DEF Parts, ControlInv, FinishedIsPopped
<1>2. QED
  BY <1>1, Inductive, PTL

(***************************************************************************)
(* The frames that undo what a menu did.  Scripts that pop frames off the  *)
(* stack at will (CallStackPop) can remove them: they are excluded.        *)
(***************************************************************************)

Has(c, o) == \E i \in DOMAIN c.stack : c.stack[i] = LongopFrame(o)

\* Besides the two properties: what the operation that has finished did.
UndoInv ==
  /\ phase # "popping"
  /\ visible \/ Has(cs, "restoretext")
  /\ ~inMenu \/ Has(cs, "menureseter")
  /\ finished /\ OnTop("restoretext") => visible
  /\ finished /\ OnTop("menureseter") => ~inMenu

\* Different operations have different frames.
LEMMA FramesDiffer ==
  ASSUME NEW a, NEW b, LongopFrame(a) = LongopFrame(b)
  PROVE  a = b
BY DEF LongopFrame

\* A push hides no frame (CallStack::Push).
LEMMA AppendHas ==
  ASSUME NEW c, NEW d, c \in StacksOf(Frames), NEW f \in Frames,
         d.stack = Append(c.stack, f)
  PROVE  /\ \A o : Has(c, o) => Has(d, o)
         /\ \A o : f = LongopFrame(o) => Has(d, o)
<1>1. c.stack \in Seq(Frames)
  BY DEF StacksOf
<1>2. /\ Len(d.stack) = Len(c.stack) + 1
      /\ d.stack \in Seq(Frames)
      /\ \A i \in 1 .. Len(c.stack) : d.stack[i] = c.stack[i]
      /\ d.stack[Len(c.stack) + 1] = f
  BY <1>1, AppendProperties
<1>3. /\ DOMAIN c.stack = 1 .. Len(c.stack) /\ Len(c.stack) \in Nat
      /\ DOMAIN d.stack = 1 .. Len(c.stack) + 1
  BY <1>1, <1>2, LenProperties
<1>4. QED
  BY <1>2, <1>3 DEF Has

\* A pop hides only the frame on top (CallStack::Pop).
LEMMA FrontHas ==
  ASSUME NEW c, NEW d, c \in StacksOf(Frames), c.stack # <<>>,
         d.stack = Front(c.stack), NEW o, Top(c) # LongopFrame(o), Has(c, o)
  PROVE  Has(d, o)
<1>1. c.stack \in Seq(Frames)
  BY DEF StacksOf
<1>2. /\ Front(c.stack) \in Seq(Frames)
      /\ Len(Front(c.stack)) = Len(c.stack) - 1
      /\ \A i \in 1 .. Len(c.stack) - 1 : Front(c.stack)[i] = c.stack[i]
      /\ Len(c.stack) \in Nat \ {0}
  BY <1>1, FrontOfSeq
<1>3. DOMAIN c.stack = 1 .. Len(c.stack) /\ DOMAIN d.stack = 1 .. Len(c.stack) - 1
  BY <1>1, <1>2, LenProperties
<1>4. PICK i \in DOMAIN c.stack : c.stack[i] = LongopFrame(o)
  BY DEF Has
<1>5. i # Len(c.stack)
  BY <1>4 DEF Top, Last
<1>6. i \in 1 .. Len(c.stack) - 1
  BY <1>2, <1>3, <1>5
<1>7. QED
  BY <1>2, <1>3, <1>4, <1>6 DEF Has

Grows == \A o : Has(cs, o) => Has(cs', o)

\* Outside a long operation: frames are only added, or the text system is
\* visible and the menu closed afterwards.
LEMMA UndoKeeps ==
  ASSUME UndoInv, finished' = FALSE, phase' # "popping",
         visible' \/ (Grows /\ visible' = visible) \/ Has(cs', "restoretext"),
         ~inMenu' \/ (Grows /\ inMenu' = inMenu) \/ Has(cs', "menureseter")
  PROVE  UndoInv'
BY DEF UndoInv, Grows, Has

\* Pushes only add frames.
LEMMA PushGrows ==
  ASSUME NEW c, Quiet(c), NEW f \in Frames
  PROVE  /\ \A o : Has(c, o) => Has(Push(c, f), o)
         /\ \A o : f = LongopFrame(o) => Has(Push(c, f), o)
BY QuietPush, AppendHas DEF Quiet

LEMMA FarcallGrows ==
  ASSUME NEW c, Quiet(c), NEW onError, Farcall(c, onError)
  PROVE  \A o : Has(c, o) => Has(cs', o)
BY PushGrows, FramesPushed DEF Farcall

LEMMA ClickUndone ==
  ASSUME Parts, UndoInv, ShowSyscomMenu \/ ReleaseExButton \/ SelectByIndex
  PROVE  UndoInv'
<1>1. CopiesInv /\ Quiet(cs) /\ finished = FALSE /\ phase = "run"
  BY Found DEF ShowSyscomMenu, ReleaseExButton, SelectByIndex, Parts
<1>2. LongopFrame("menureseter") \in Frames /\ LongopFrame("restoretext") \in Frames
  BY FramesPushed DEF LongOps
<1>3. CASE ShowSyscomMenu
  <2> DEFINE c == Push(cs, LongopFrame("menureseter"))
  <2>1. Quiet(c) /\ (\A o : Has(cs, o) => Has(c, o)) /\ Has(c, "menureseter")
    BY <1>1, <1>2, QuietPush, PushGrows
  <2>2. Farcall(c, "ended")
    BY <1>3 DEF ShowSyscomMenu
  <2> HIDE DEF c
  <2>3. (\A o : Has(c, o) => Has(cs', o)) /\ phase' \in {"run", "ended"}
    BY <1>1, <2>1, <2>2, FarcallGrows, FarcallKeeps
  <2>4. QED
    BY <1>1, <1>3, <2>1, <2>3, UndoKeeps DEF ShowSyscomMenu, Grows
<1>4. CASE ReleaseExButton
  <2> DEFINE c == Push(cs, LongopFrame("restoretext"))
  <2>1. Quiet(c) /\ (\A o : Has(cs, o) => Has(c, o)) /\ Has(c, "restoretext")
    BY <1>1, <1>2, QuietPush, PushGrows
  <2>2. Farcall(c, "ended")
    BY <1>4 DEF ReleaseExButton
  <2> HIDE DEF c
  <2>3. (\A o : Has(c, o) => Has(cs', o)) /\ phase' \in {"run", "ended"}
    BY <1>1, <2>1, <2>2, FarcallGrows, FarcallKeeps
  <2>4. QED
    BY <1>1, <1>4, <2>1, <2>3, UndoKeeps DEF ReleaseExButton, Grows
<1>5. CASE SelectByIndex
  BY <1>1, <1>5, UndoKeeps DEF SelectByIndex, Grows, stepVars
<1>6. QED
  BY <1>3, <1>4, <1>5

\* An operation returns: only the two that undo something change anything.
LEMMA EndsUndone ==
  ASSUME Parts, UndoInv, NEW o \in LongOps, NEW c, NEW done \in BOOLEAN,
         Ends(o, c, done), c.stack = cs.stack,
         visible' \/ visible' = visible, ~inMenu' \/ inMenu' = inMenu,
         o = "restoretext" => visible', o = "menureseter" => ~inMenu'
  PROVE  UndoInv'
<1>1. /\ OnTop(o) /\ phase' = "unlock" /\ cs'.stack = cs.stack
  BY DEF Ends, Release, WithLock
<1>2. \A p : OnTop(p)' => p = o
  BY <1>1, FramesDiffer DEF OnTop, Top
<1>3. \A p : Has(cs', p) <=> Has(cs, p)
  BY <1>1 DEF Has
<1>4. QED
  BY <1>1, <1>2, <1>3 DEF UndoInv

LEMMA LongopUndone ==
  ASSUME Parts, UndoInv, LongopStep
  PROVE  UndoInv'
<1>1. StackInv /\ ControlInv /\ PlainInv
  BY DEF Parts
<1> USE DEF systemVars, stepVars
<1>2. CASE ExecuteLongop
  <2>1. finished = FALSE /\ finished' = finished /\ phase' = "longop"
    BY <1>2, Found DEF ExecuteLongop
  <2>2. cs'.stack = cs.stack
    BY <1>2 DEF ExecuteLongop, GetLock, WithLock
  <2>3. Grows
    BY <2>2 DEF Grows, Has
  <2>4. QED
    BY <1>2, <2>1, <2>3, UndoKeeps DEF ExecuteLongop
<1>3. CASE MenuReseter
  BY <1>3, EndsUndone DEF MenuReseter, LongOps
<1>4. CASE RestoreTextSystemVisibility
  BY <1>4, EndsUndone DEF RestoreTextSystemVisibility, LongOps
<1>5. CASE TextoutThrows
  BY <1>5, EndsUndone DEF TextoutThrows, LongOps
<1>6. CASE TextoutDisplays
  BY <1>6, EndsUndone DEF TextoutDisplays, LongOps
<1>7. CASE TextoutFillsPage
  <2>1. cs.locked /\ LongopFrame("pause") \in Frames
    BY <1>1, <1>7, FramesPushed DEF TextoutFillsPage, Ends, ControlInv, LongOps
  <2>2. Push(cs, LongopFrame("pause")).stack = cs.stack
    BY <1>1, <2>1, PushType DEF StackInv
  <2>3. QED
    BY <1>7, <2>2, EndsUndone DEF TextoutFillsPage, LongOps
<1>8. CASE PollLongop
  <2>1. PICK o \in {"pause", "select", "wait"}, done \in BOOLEAN : Ends(o, cs, done)
    BY <1>8 DEF PollLongop
  <2>2. o \in LongOps
    BY DEF LongOps
  <2>3. QED
    BY <1>8, <2>1, <2>2, EndsUndone DEF PollLongop
<1>9. CASE ApplyDelayedModifications
  <2>1. /\ Draining(cs) /\ cs' = ApplyNext(cs) /\ phase' = "unlock"
        /\ finished' = finished /\ visible' = visible /\ inMenu' = inMenu
    BY <1>9 DEF ApplyDelayedModifications
  <2>2. /\ finished = FALSE /\ ~cs.locked /\ cs.delayed # <<>>
        /\ cs.delayed \in Seq([call : {"push", "pop"}, frame : Frames])
    BY <1>1, <2>1 DEF Draining, ControlInv, PlainInv, StackInv, StacksOf
  <2>3. /\ DOMAIN cs.delayed = 1 .. Len(cs.delayed) /\ Len(cs.delayed) \in Nat \ {0}
        /\ Head(cs.delayed) = cs.delayed[1]
    BY <2>2, EmptySeq
  <2>4. Head(cs.delayed).call = "push"
    BY <1>1, <2>3 DEF ControlInv
  <2>5. Head(cs.delayed).frame \in Frames
    <3>1. Head(cs.delayed) \in [call : {"push", "pop"}, frame : Frames]
      BY <2>2, HeadTailProperties
    <3>2. QED
      BY <3>1
  <2>6. DropFirst(cs) \in StacksOf(Frames) /\ ~DropFirst(cs).locked
        /\ DropFirst(cs).stack = cs.stack
    BY <1>1, <2>2, HeadTailProperties DEF DropFirst, WithLock, StackInv, StacksOf
  <2>7. cs' = Push(DropFirst(cs), Head(cs.delayed).frame)
    BY <2>1, <2>4 DEF ApplyNext
  <2>8. cs'.stack = Append(cs.stack, Head(cs.delayed).frame)
    BY <2>5, <2>6, <2>7, PushType
  <2>9. Grows
    BY <1>1, <2>5, <2>8, AppendHas DEF Grows, StackInv
  <2>10. QED
    BY <2>1, <2>2, <2>9, UndoKeeps
<1>10. CASE StepEnds
  <2>1. /\ phase' = "run" /\ finished' = FALSE /\ phase = "unlock"
        /\ visible' = visible /\ inMenu' = inMenu
        /\ cs' = IF finished THEN Pop(cs) ELSE cs
    BY <1>10 DEF StepEnds
  <2>2. CASE ~finished
    BY <2>1, <2>2, UndoKeeps DEF Grows
  <2>3. CASE finished
    <3>1. Quiet(cs) /\ cs.stack # <<>>
      BY <1>1, <2>1, <2>3 DEF StackInv, ControlInv, Quiet, HasLongop, OnTop
    <3>2. cs'.stack = Front(cs.stack)
      BY <2>1, <2>3, <3>1, QuietPop
    <3>3. ASSUME NEW o, Has(cs, o), ~OnTop(o)
          PROVE  Has(cs', o)
      BY <3>1, <3>2, <3>3, FrontHas DEF OnTop, Quiet
    <3>4. visible' \/ Has(cs', "restoretext")
      BY <2>1, <2>3, <3>3 DEF UndoInv
    <3>5. ~inMenu' \/ Has(cs', "menureseter")
      BY <2>1, <2>3, <3>3 DEF UndoInv
    <3>6. QED
      BY <2>1, <3>4, <3>5, UndoKeeps
  <2>4. QED
    BY <2>2, <2>3
<1>11. QED
  BY <1>2, <1>3, <1>4, <1>5, <1>6, <1>7, <1>8, <1>9, <1>10 DEF LongopStep

LEMMA InstructionUndone ==
  ASSUME Parts, UndoInv, "callstackpop" \notin Opcodes, InstructionStep
  PROVE  UndoInv'
<1> USE DEF systemVars, stepVars
<1>1. CopiesInv
  BY DEF Parts
<1>2. CASE Other \/ Write \/ Kidoku \/ MarkSavepoint \/ SetMarkSavepoints \/ End
  <2>1. PICK op : Instruction(op)
    BY <1>2 DEF Other, Write, Kidoku, MarkSavepoint, SetMarkSavepoints, End
  <2>2. UNCHANGED <<cs, visible, inMenu, phase, finished>>
    BY <1>2 DEF Other, Write, Kidoku, MarkSavepoint, SetMarkSavepoints, End
  <2>3. finished = FALSE
    BY <2>1, InstructionFinds
  <2>4. QED
    BY <2>2, <2>3, UndoKeeps DEF Grows, UndoInv
<1>3. CASE SkipLost \/ Underrun
  <2>1. finished = FALSE /\ phase = "run"
    BY <1>3, Found DEF SkipLost, Underrun
  <2>2. UNCHANGED <<cs, visible, inMenu, finished>> /\ phase' # "popping"
    BY <1>3, <2>1 DEF SkipLost, Underrun
  <2>3. QED
    BY <2>1, <2>2, UndoKeeps DEF Grows
<1>4. CASE Gosub
  <2>1. Quiet(cs) /\ finished = FALSE /\ phase = "run"
    BY <1>4, InstructionFinds DEF Gosub
  <2>2. Grows
    BY <1>4, <2>1, FramesPushed, PushGrows DEF Gosub, Grows
  <2>3. QED
    BY <1>4, <2>1, <2>2, UndoKeeps DEF Gosub
<1>5. CASE FarcallOp
  <2>1. Quiet(cs) /\ finished = FALSE /\ Farcall(cs, "run")
    BY <1>5, InstructionFinds DEF FarcallOp
  <2>2. Grows /\ phase' = "run"
    BY <1>1, <2>1, FarcallKeeps, FarcallGrows DEF Grows
  <2>3. QED
    BY <1>5, <2>1, <2>2, UndoKeeps DEF FarcallOp
<1>6. CASE Return
  <2>1. /\ Quiet(cs) /\ finished = FALSE /\ phase = "run" /\ cs.stack # <<>>
        /\ IsReal(Top(cs)) /\ cs' = Pop(cs)
    BY <1>6, InstructionFinds DEF Return
  <2>2. cs'.stack = Front(cs.stack)
    BY <2>1, QuietPop
  <2>3. \A o : Top(cs) # LongopFrame(o)
    BY <2>1 DEF IsReal, LongopFrame
  <2>4. Grows
    BY <2>1, <2>2, <2>3, FrontHas DEF Grows, Quiet
  <2>5. QED
    BY <1>6, <2>1, <2>4, UndoKeeps DEF Return
<1>7. ~CallStackPop /\ ~CallStackPops
  BY DEF CallStackPop, Instruction, CallStackPops, UndoInv
<1>8. CASE StartLongop
  <2>1. PICK op, fs, sps : Starts(op, fs, sps) /\ fs[1] \in LongOps
                           /\ (fs[2] \in LongOps \/ Len(fs) = 1)
    BY <1>8 DEF StartLongop, LongOps
  <2>2. Quiet(cs) /\ finished = FALSE /\ phase = "run"
    BY <2>1, InstructionFinds DEF Starts
  <2>3. LongopFrame(fs[1]) \in Frames /\ (LongopFrame(fs[2]) \in Frames \/ Len(fs) = 1)
    BY <2>1, FramesPushed
  <2> DEFINE c == Push(cs, LongopFrame(fs[1]))
  <2>4. Quiet(c) /\ \A o : Has(cs, o) => Has(c, o)
    BY <2>2, <2>3, QuietPush, PushGrows
  <2>5. cs' = IF Len(fs) = 1 THEN c ELSE Push(c, LongopFrame(fs[2]))
    BY <2>1 DEF Starts
  <2> HIDE DEF c
  <2>6. Len(fs) = 1 \/ \A o : Has(c, o) => Has(Push(c, LongopFrame(fs[2])), o)
    BY <2>3, <2>4, PushGrows
  <2>7. Grows
    BY <2>4, <2>5, <2>6 DEF Grows
  <2>8. QED
    BY <2>1, <2>2, <2>7, UndoKeeps DEF Starts
<1>9. CASE MenuReturn
  <2>1. PICK op : Instruction(op)
    BY <1>9 DEF MenuReturn
  <2>2. finished = FALSE /\ phase = "run"
    BY <2>1, InstructionFinds
  <2>3. QED
    BY <1>9, <2>2, UndoKeeps DEF MenuReturn, LocalReset, SystemReset
<1>10. CASE InvokeSaveOrLoad
  <2> DEFINE c == Push(cs, LongopFrame("restoretext"))
  <2>1. Quiet(cs) /\ finished = FALSE /\ LongopFrame("restoretext") \in Frames
    BY <1>10, InstructionFinds, FramesPushed DEF InvokeSaveOrLoad, LongOps
  <2>2. Quiet(c) /\ (\A o : Has(cs, o) => Has(c, o)) /\ Has(c, "restoretext")
    BY <2>1, QuietPush, PushGrows
  <2>3. Farcall(c, "run")
    BY <1>10 DEF InvokeSaveOrLoad
  <2> HIDE DEF c
  <2>4. (\A o : Has(c, o) => Has(cs', o)) /\ phase' = "run"
    BY <1>1, <2>2, <2>3, FarcallGrows, FarcallKeeps
  <2>5. QED
    BY <1>10, <2>1, <2>2, <2>4, UndoKeeps DEF InvokeSaveOrLoad, Grows
<1>11. ASSUME NEW s \in Slots, Save(s)
       PROVE  UndoInv'
  <2>1. finished = FALSE /\ phase = "run"
    BY <1>11, InstructionFinds DEF Save
  <2>2. UNCHANGED <<cs, visible, inMenu, finished>> /\ phase' # "popping"
    BY <1>11, <2>1 DEF Save
  <2>3. QED
    BY <2>1, <2>2, UndoKeeps DEF Grows
<1>12. ASSUME NEW op, NEW a, Instruction(op), StartLoad(a)
       PROVE  UndoInv'
  BY <1>12, InstructionFinds, UndoKeeps DEF StartLoad, SystemReset
<1>13. ASSUME NEW s \in Slots, Load(s)
       PROVE  UndoInv'
  BY <1>12, <1>13 DEF Load
<1>14. CASE ReturnPrevSelect
  BY <1>12, <1>14 DEF ReturnPrevSelect
<1>15. QED
  BY <1>2, <1>3, <1>4, <1>5, <1>6, <1>7, <1>8, <1>9, <1>10, <1>11, <1>13, <1>14
  DEF InstructionStep

LEMMA LoadUndone ==
  ASSUME Parts, UndoInv, LoadFrame \/ LoadThrows \/ LoadEnds \/ Restart
  PROVE  UndoInv'
<1> USE DEF systemVars
<1>1. CASE Restart
  BY <1>1, UndoKeeps DEF Restart, SystemReset
<1>2. CASE LoadFrame
  <2>1. Quiet(cs) /\ finished = FALSE
    BY <1>2, QuietState DEF LoadFrame, Quiet
  <2>2. archive.frames \in Seq(Frames) /\ archive.frames # <<>>
    BY <1>2 DEF LoadFrame, Parts, CopiesInv, Archives
  <2>3. Head(archive.frames) \in Frames
    BY <2>2, HeadTailProperties
  <2>4. Grows
    BY <1>2, <2>1, <2>3, PushGrows DEF LoadFrame, Grows
  <2>5. QED
    BY <1>2, <2>1, <2>4, UndoKeeps DEF LoadFrame
<1>3. CASE LoadThrows
  <2>1. finished = FALSE
    BY <1>3, QuietState DEF LoadThrows
  <2>2. QED
    BY <1>3, <2>1, UndoKeeps DEF LoadThrows, Grows
<1>4. CASE LoadEnds
  <2> DEFINE c == Push(cs, LongopFrame("wait"))
  <2>1. Quiet(cs) /\ finished = FALSE /\ LongopFrame("wait") \in Frames
    BY <1>4, QuietState, FramesPushed DEF LoadEnds, Quiet, LongOps
  <2>2. Quiet(c) /\ \A o : Has(cs, o) => Has(c, o)
    BY <2>1, QuietPush, PushGrows
  <2>3. cs' = cs \/ cs' = Push(c, LongopFrame("wait"))
    BY <1>4 DEF LoadEnds
  <2> HIDE DEF c
  <2>4. \A o : Has(c, o) => Has(Push(c, LongopFrame("wait")), o)
    BY <2>1, <2>2, PushGrows
  <2>5. Grows
    BY <2>2, <2>3, <2>4 DEF Grows
  <2>6. QED
    BY <1>4, <2>1, <2>5, UndoKeeps DEF LoadEnds
<1>5. QED
  BY <1>1, <1>2, <1>3, <1>4

LEMMA UndoInductive ==
  ASSUME "callstackpop" \notin Opcodes
  PROVE  Spec => []UndoInv
<1>1. Init => UndoInv
  BY DEF Init, UndoInv
<1>2. Parts /\ UndoInv /\ [Next]_vars => UndoInv'
  <2> SUFFICES ASSUME Parts, UndoInv, [Next]_vars PROVE UndoInv'
    OBVIOUS
  <2>1. CASE UNCHANGED vars
    <3>1. UNCHANGED <<cs, visible, inMenu, phase, finished>>
      BY <2>1 DEF vars, systemVars, stepVars
    <3>2. QED
      BY <3>1 DEF UndoInv, Has, OnTop, Top
  <2>2. CASE Next
    BY <2>2, ClickUndone, LongopUndone, InstructionUndone, LoadUndone DEF Next
  <2>3. QED
    BY <2>1, <2>2
<1>3. QED
  BY <1>1, <1>2, Inductive, PTL DEF Spec

\* Unless scripts pop frames at will, whatever hides the text system leaves a
\* frame on the stack that will show it again (InvokeSaveOrLoad,
\* ReleaseExButton, RestoreTextSystemVisibility).
THEOREM TextComesBack ==
  ASSUME "callstackpop" \notin Opcodes
  PROVE  Spec => []HiddenTextComesBack
<1>1. UndoInv => HiddenTextComesBack
  BY DEF UndoInv, Has, HiddenTextComesBack
<1>2. QED
  BY <1>1, UndoInductive, PTL

\* Under the same condition an open menu has the frame that closes it on the
\* stack (ShowSyscomMenu, MenuReseter).
THEOREM MenusAreClosed ==
  ASSUME "callstackpop" \notin Opcodes
  PROVE  Spec => []OpenMenuIsClosed
<1>1. UndoInv => OpenMenuIsClosed
  BY DEF UndoInv, Has, OpenMenuIsClosed
<1>2. QED
  BY <1>1, UndoInductive, PTL
=============================================================================
