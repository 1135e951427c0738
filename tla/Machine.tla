------------------------------ MODULE Machine ------------------------------
(***************************************************************************)
(* The RealLive machine: RLVMInstance::Step (src/src/rlvm_instance.cpp)    *)
(* over the call stack of RLMachine (src/src/machine/rlmachine.cpp), the   *)
(* long operations that share this stack with the script's frames, the     *)
(* user's clicks, which push menus onto it between two steps, and the      *)
(* savepoint, save and load that copy it.                                  *)
(*                                                                         *)
(* One thread runs all of it.  A Step that runs a long operation has       *)
(* phases: the operation under the lock ("longop"), the destructor of the  *)
(* lock ("unlock"), and the Pop if the operation has finished; a load      *)
(* reads one frame at a time ("loading"), and CallStackPop pops one at a   *)
(* time ("popping").  In phase "run" a Step begins or an event comes in.   *)
(*                                                                         *)
(* Abstractions.  Script positions are left out: which instruction comes   *)
(* next is arbitrary among Opcodes, and so is whether the scenario has one *)
(* after it.  A long operation is its kind; "wait" stands for all that     *)
(* only poll a clock or a flag (effects, waits, zooms, BGM, GAN, glosses); *)
(* when one of them, a pause or a selection is over is arbitrary.  Local   *)
(* memory is the number of writes since it was last reset.                 *)
(***************************************************************************)
EXTENDS CallStack

CONSTANTS
  None,             \* no archive
  Slots,            \* save game slots
  Opcodes,          \* the instructions scripts use
  Savepoints,       \* the implicit savepoints the game enables
  TextWhenHidden,   \* do scripts display text while the text system is hidden?
  MaxDepth,         \* bound: frames before a push
  MaxWrites         \* bound: writes to local memory

AllOpcodes ==
  {"other", "write", "gosub", "farcall", "return", "callstackpop", "textout",
   "pause", "select", "select_w", "wait", "kidoku", "savepoint",
   "autosavepoints", "menu_return", "syscom_menu_return", "menu_save",
   "save", "load", "return_prev_select", "end"}

LongOps == {"textout", "pause", "select", "wait", "menureseter", "restoretext"}

\* The frame of a long operation that was saved: the operation is gone.
Lost == "lost"

Frames ==
  {RealFrame(t) : t \in FrameTypes \ {"longop"}}
    \cup {LongopFrame(o) : o \in LongOps \cup {Lost}}

ASSUME MachineAssumption ==
  /\ Opcodes \subseteq AllOpcodes
  /\ Savepoints \subseteq {"message", "seentop", "selcom"}
  /\ TextWhenHidden \in BOOLEAN
  /\ MaxDepth \in Nat
  /\ MaxWrites \in Nat

VARIABLES
  cs,          \* call_stack_
  savepoint,   \* savepoint_call_stack_, and (history) the memory at the time
  mark,        \* mark_savepoints_
  halted,      \* halted_
  memory,      \* the local memory
  inMenu,      \* System::in_menu_
  visible,     \* TextSystem::system_visible_
  snapshot,    \* System::previous_selection_
  files,       \* the save games on disk
  phase,       \* where Step is, or how the program ended
  finished,    \* what the long operation returned
  ran,         \* history: the depth of the operation that was run
  archive      \* what remains to be loaded

systemVars == <<inMenu, visible, snapshot>>
stepVars == <<phase, finished, ran, archive>>
vars == <<cs, savepoint, mark, halted, memory, systemVars, files, stepVars>>

NoSavepoint == [frames |-> <<>>, memory |-> 0]

NoArchive == [frames |-> <<>>, memory |-> 0, marked |-> 0, torn |-> FALSE]

Booted == Push(EmptyStack, RealFrame("root"))

\* The constructor of RLMachine marks the first savepoint, the constructor of
\* GameLoader then pushes the root frame.
Init ==
  /\ cs = Booted
  /\ savepoint = NoSavepoint
  /\ mark = TRUE
  /\ halted = FALSE
  /\ memory = 0
  /\ inMenu = FALSE
  /\ visible = TRUE
  /\ snapshot = None
  /\ phase = "run"
  /\ finished = FALSE
  /\ ran = 0
  /\ archive = NoArchive
  /\ files = [s \in Slots |-> None]

(***************************************************************************)
(* What several operations share.                                          *)
(***************************************************************************)

Room(n) == Len(cs.stack) + n <= MaxDepth

OnTop(o) == cs.stack # <<>> /\ Top(cs) = LongopFrame(o)

\* CurrentLongOperation() is not null.
HasLongop == \E o \in LongOps : OnTop(o)

Marked(c) == [frames |-> Clone(c).stack, memory |-> memory]

\* The savepoint after an instruction that marks it when the game says so.
Implicit(kind, c) ==
  IF kind \in Savepoints THEN {savepoint, Marked(c)} ELSE {savepoint}

\* Farcall on a stack c: a savepoint at an entry point 0, then the frame,
\* unless LoadEntry throws because there is no such entry point.
Farcall(c, onError) ==
  /\ savepoint' \in Implicit("seentop", c)
  /\ \/ cs' = Push(c, RealFrame("farcall")) /\ phase' = "run"
     \/ cs' = c /\ phase' = onError

\* Mutant of SystemReset: the text system stays hidden.
SystemResetHidden ==
  /\ inMenu' = FALSE
  /\ snapshot' = None
  /\ UNCHANGED visible

\* Mutant of SystemReset: the menu stays open.
SystemResetInMenu ==
  /\ UNCHANGED inMenu
  /\ snapshot' = None
  /\ visible' = TRUE

SystemReset ==
  /\ inMenu' = FALSE
  /\ snapshot' = None
  /\ visible' = TRUE

\* A frame is saved without its long operation.
Strip(fs) ==
  [i \in DOMAIN fs |-> IF IsReal(fs[i]) THEN fs[i] ELSE LongopFrame(Lost)]

\* saveGameTo: the stack of the savepoint with the memory of this moment.
Saved(torn) ==
  [frames |-> Strip(savepoint.frames), memory |-> memory,
   marked |-> savepoint.memory, torn |-> torn]

(***************************************************************************)
(* Clicks, handled between two steps by the long operation on top.         *)
(***************************************************************************)

Event == phase = "run" /\ ~halted

\* ShowSyscomMenu with a menu of the game's own (CANCELCALL_MOD = 1).  What
\* Farcall throws here leaves RLVMInstance::Main.
ShowSyscomMenu ==
  /\ Event
  /\ OnTop("pause") \/ OnTop("select")
  /\ Room(2)
  /\ ~inMenu
  /\ inMenu' = TRUE
  /\ Farcall(Push(cs, LongopFrame("menureseter")), "ended")
  /\ UNCHANGED <<mark, halted, memory, visible, snapshot, files, finished, ran,
                 archive>>

\* A text window button with a WBCALL; a hidden text system has no buttons.
ReleaseExButton ==
  /\ Event
  /\ OnTop("pause") \/ OnTop("select")
  /\ Room(2)
  /\ visible
  /\ visible' = FALSE
  /\ Farcall(Push(cs, LongopFrame("restoretext")), "ended")
  /\ UNCHANGED <<mark, halted, memory, inMenu, snapshot, files, finished, ran,
                 archive>>

\* SelectByIndex: the snapshot for ReturnPrevSelect.
SelectByIndex ==
  /\ Event
  /\ OnTop("select")
  /\ snapshot' = Saved(FALSE)
  /\ UNCHANGED <<cs, savepoint, mark, halted, memory, inMenu, visible, files,
                 stepVars>>

(***************************************************************************)
(* A Step whose top frame is a long operation.                             *)
(***************************************************************************)

ExecuteLongop ==
  /\ Event
  /\ HasLongop
  /\ cs' = GetLock(cs)
  /\ phase' = "longop"
  /\ ran' = Len(cs.stack)
  /\ UNCHANGED <<savepoint, mark, halted, memory, systemVars, files, finished,
                 archive>>

\* The operation o has returned `done' and leaves the stack c behind.
Ends(o, c, done) ==
  /\ phase = "longop"
  /\ OnTop(o)
  /\ finished' = done
  /\ cs' = Release(c)
  /\ phase' = "unlock"
  /\ UNCHANGED <<savepoint, mark, halted, memory, files, ran, archive>>

MenuReseter ==
  /\ Ends("menureseter", cs, TRUE)
  /\ inMenu' = FALSE
  /\ UNCHANGED <<visible, snapshot>>

RestoreTextSystemVisibility ==
  /\ Ends("restoretext", cs, TRUE)
  /\ visible' = TRUE
  /\ UNCHANGED <<inMenu, snapshot>>

\* Text for a hidden text system throws; Step catches it and goes on.
TextoutThrows ==
  /\ ~visible
  /\ Ends("textout", cs, FALSE)
  /\ UNCHANGED systemVars

TextoutDisplays ==
  /\ visible
  /\ \E done \in BOOLEAN : Ends("textout", cs, done)
  /\ UNCHANGED systemVars

\* Mutant of TextoutFillsPage: reports that it has finished.
TextoutFillsAndEnds ==
  /\ visible
  /\ Room(1)
  /\ Ends("textout", Push(cs, LongopFrame("pause")), TRUE)
  /\ UNCHANGED systemVars

\* The page is full: a pause goes on top and the rest of the text waits.
TextoutFillsPage ==
  /\ visible
  /\ Room(1)
  /\ Ends("textout", Push(cs, LongopFrame("pause")), FALSE)
  /\ UNCHANGED systemVars

PollLongop ==
  /\ \E o \in {"pause", "select", "wait"}, done \in BOOLEAN : Ends(o, cs, done)
  /\ UNCHANGED systemVars

ApplyDelayedModifications ==
  /\ phase = "unlock"
  /\ Draining(cs)
  /\ cs' = ApplyNext(cs)
  /\ UNCHANGED <<savepoint, mark, halted, memory, systemVars, files, stepVars>>

\* The rest of Step: the operation's frame is popped if it has finished.
StepEnds ==
  /\ phase = "unlock"
  /\ ~Draining(cs)
  /\ cs' = IF finished THEN Pop(cs) ELSE cs
  /\ phase' = "run"
  /\ finished' = FALSE
  /\ ran' = 0
  /\ UNCHANGED <<savepoint, mark, halted, memory, systemVars, files, archive>>

LongopStep ==
  \/ ExecuteLongop
  \/ MenuReseter
  \/ RestoreTextSystemVisibility
  \/ TextoutThrows
  \/ TextoutDisplays
  \/ TextoutFillsPage
  \/ PollLongop
  \/ ApplyDelayedModifications
  \/ StepEnds

(***************************************************************************)
(* A Step that executes an instruction.                                    *)
(***************************************************************************)

\* AdvanceIP of a real frame, before the instruction: if it was the last one
\* of its scenario the machine is halted.  Errors of the instruction are
\* caught and logged, so any of them may also just do nothing ("other").
Instruction(op) ==
  /\ Event
  /\ op \in Opcodes
  /\ cs.stack # <<>>
  /\ IsReal(Top(cs))
  /\ halted' \in BOOLEAN

Other ==
  /\ Instruction("other")
  /\ UNCHANGED <<cs, savepoint, mark, memory, systemVars, files, stepVars>>

\* The frame on top has lost its operation: there is no instruction, and the
\* pointer of the real frame below advances all the same.
SkipLost ==
  /\ Event
  /\ OnTop(Lost)
  /\ halted' \in IF cs.real = <<>> THEN {FALSE} ELSE BOOLEAN
  /\ UNCHANGED <<cs, savepoint, mark, memory, systemVars, files, stepVars>>

\* Nothing is left on the stack: ReadInstruction logs it and returns an empty
\* instruction, whose trace asks a null pointer for its scene number.
Underrun ==
  /\ Event
  /\ cs.stack = <<>>
  /\ phase' = "nulltop"
  /\ UNCHANGED <<cs, savepoint, mark, halted, memory, systemVars, files,
                 finished, ran, archive>>

Write ==
  /\ Instruction("write")
  /\ memory < MaxWrites
  /\ memory' = memory + 1
  /\ UNCHANGED <<cs, savepoint, mark, systemVars, files, stepVars>>

Gosub ==
  /\ Instruction("gosub")
  /\ Room(1)
  /\ cs' = Push(cs, RealFrame("gosub"))
  /\ UNCHANGED <<savepoint, mark, memory, systemVars, files, stepVars>>

FarcallOp ==
  /\ Instruction("farcall")
  /\ Room(1)
  /\ Farcall(cs, "run")
  /\ UNCHANGED <<mark, memory, systemVars, files, finished, ran, archive>>

\* ret, rtl and their variants.
Return ==
  /\ Instruction("return")
  /\ cs' = Pop(cs)
  /\ UNCHANGED <<savepoint, mark, memory, systemVars, files, stepVars>>

CallStackPop ==
  /\ Instruction("callstackpop")
  /\ phase' = "popping"
  /\ UNCHANGED <<cs, savepoint, mark, memory, systemVars, files, finished, ran,
                 archive>>

\* One more Pop, or the end.  On an empty stack Pop throws, and logging that
\* asks for the scene number.
CallStackPops ==
  /\ phase = "popping"
  /\ \/ CanPop(cs) /\ cs' = Pop(cs) /\ UNCHANGED phase
     \/ phase' = "run" /\ UNCHANGED cs
     \/ ~CanPop(cs) /\ phase' = "nulltop" /\ UNCHANGED cs
  /\ UNCHANGED <<savepoint, mark, halted, memory, systemVars, files, finished,
                 ran, archive>>

\* PushLongOperation after the savepoint a selection may mark.
Starts(op, frames, savepoints) ==
  /\ Instruction(op)
  /\ Room(Len(frames))
  /\ savepoint' \in savepoints
  /\ cs' = IF Len(frames) = 1 THEN Push(cs, LongopFrame(frames[1]))
           ELSE Push(Push(cs, LongopFrame(frames[1])), LongopFrame(frames[2]))
  /\ UNCHANGED <<mark, memory, systemVars, files, stepVars>>

StartLongop ==
  \/ /\ visible \/ TextWhenHidden
     /\ Starts("textout", <<"textout">>, {savepoint})
  \/ Starts("pause", <<"pause">>, {savepoint})
  \/ Starts("wait", <<"wait">>, {savepoint})
  \/ Starts("select", <<"select">>, Implicit("selcom", cs))
  \/ Starts("select_w", <<"wait", "select">>, Implicit("selcom", cs))

\* At a kidoku marker, if the text page is empty.
Kidoku ==
  /\ Instruction("kidoku")
  /\ savepoint' \in Implicit("message", cs)
  /\ UNCHANGED <<cs, mark, memory, systemVars, files, stepVars>>

MarkSavepoint ==
  /\ Instruction("savepoint")
  /\ savepoint' = Marked(cs)
  /\ UNCHANGED <<cs, mark, memory, systemVars, files, stepVars>>

SetMarkSavepoints ==
  /\ Instruction("autosavepoints")
  /\ mark' \in BOOLEAN
  /\ UNCHANGED <<cs, savepoint, memory, systemVars, files, stepVars>>

LocalReset ==
  /\ savepoint' = NoSavepoint
  /\ memory' = 0
  /\ SystemReset

\* ReturnMenu; and MenuReturn, also as a system command, which fades over.
\* The command first clears long operations off the stack: while an
\* instruction executes there are none on top.  Jump moves the real frame.
MenuReturn ==
  /\ \/ Instruction("menu_return") /\ UNCHANGED cs
     \/ /\ Instruction("syscom_menu_return")
        /\ Room(1)
        /\ cs' = Push(cs, LongopFrame("wait"))
  /\ LocalReset
  /\ UNCHANGED <<mark, files, stepVars>>

\* InvokeSaveOrLoad with a save menu of the game's own.
InvokeSaveOrLoad ==
  /\ Instruction("menu_save")
  /\ Room(2)
  /\ visible' = FALSE
  /\ Farcall(Push(cs, LongopFrame("restoretext")), "run")
  /\ UNCHANGED <<mark, memory, inMenu, snapshot, files, finished, ran, archive>>

\* saveGameForSlot writes into the file it replaces; if the program dies
\* there, the file stays torn.
Save(s) ==
  /\ Instruction("save")
  /\ \/ files' = [files EXCEPT ![s] = Saved(FALSE)] /\ UNCHANGED phase
     \/ /\ files' = [files EXCEPT ![s] = Saved(TRUE)]
        /\ phase' = "ended"
  /\ UNCHANGED <<cs, savepoint, mark, memory, systemVars, finished, ran, archive>>

\* loadGameFrom: RLMachine::Reset before anything is read.
StartLoad(a) ==
  /\ cs' = EmptyStack
  /\ savepoint' = NoSavepoint
  /\ SystemReset
  /\ phase' = "loading"
  /\ archive' = a
  /\ UNCHANGED <<mark, memory, files, finished, ran>>

Load(s) ==
  /\ Instruction("load")
  /\ files[s] # None
  /\ StartLoad(files[s])

\* ReturnPrevSelect: RestoreSelectionSnapshot.
ReturnPrevSelect ==
  /\ Instruction("return_prev_select")
  /\ snapshot # None
  /\ StartLoad(snapshot)

End ==
  /\ Instruction("end")
  /\ halted' = TRUE
  /\ UNCHANGED <<cs, savepoint, mark, memory, systemVars, files, stepVars>>

(***************************************************************************)
(* Loading: CallStack::load frame by frame, the rest, and the two fades.   *)
(***************************************************************************)

LoadFrame ==
  /\ phase = "loading"
  /\ archive.frames # <<>>
  /\ cs' = Push(cs, Head(archive.frames))
  /\ archive' = [archive EXCEPT !.frames = Tail(@)]
  /\ UNCHANGED <<savepoint, mark, halted, memory, systemVars, files, phase,
                 finished, ran>>

\* The file ends too early.  The exception is logged with the scene number,
\* which is read from the top frame.
LoadThrows ==
  /\ phase = "loading"
  /\ archive.torn
  /\ phase' = IF cs.stack = <<>> THEN "nulltop" ELSE "run"
  /\ archive' = NoArchive
  /\ UNCHANGED <<cs, savepoint, mark, halted, memory, systemVars, files,
                 finished, ran>>

\* All is read.  PushLongOperation reads the position of the top frame.
LoadEnds ==
  /\ phase = "loading"
  /\ ~archive.torn
  /\ archive.frames = <<>>
  /\ memory' = archive.memory
  /\ archive' = NoArchive
  /\ IF cs.stack = <<>>
       THEN phase' = "nullload" /\ UNCHANGED cs
       ELSE /\ phase' = "run"
            /\ cs' = Push(Push(cs, LongopFrame("wait")), LongopFrame("wait"))
  /\ UNCHANGED <<savepoint, mark, halted, systemVars, files, finished, ran>>

\* The program is started again and finds its files.
Ended == {"ended", "nulltop", "nullload"}

Restart ==
  /\ phase \in Ended \/ (phase = "run" /\ halted)
  /\ cs' = Booted
  /\ savepoint' = NoSavepoint
  /\ mark' = TRUE
  /\ halted' = FALSE
  /\ memory' = 0
  /\ SystemReset
  /\ phase' = "run"
  /\ finished' = FALSE
  /\ ran' = 0
  /\ archive' = NoArchive
  /\ UNCHANGED files

InstructionStep ==
  \/ Other
  \/ SkipLost
  \/ Underrun
  \/ Write
  \/ Gosub
  \/ FarcallOp
  \/ Return
  \/ CallStackPop
  \/ CallStackPops
  \/ StartLongop
  \/ Kidoku
  \/ MarkSavepoint
  \/ SetMarkSavepoints
  \/ MenuReturn
  \/ InvokeSaveOrLoad
  \/ \E s \in Slots : Save(s) \/ Load(s)
  \/ ReturnPrevSelect
  \/ End

Next ==
  \/ ShowSyscomMenu
  \/ ReleaseExButton
  \/ SelectByIndex
  \/ LongopStep
  \/ InstructionStep
  \/ LoadFrame
  \/ LoadThrows
  \/ LoadEnds
  \/ Restart

Spec == Init /\ [][Next]_vars

(***************************************************************************)
(* Properties.                                                             *)
(***************************************************************************)

Archives ==
  [frames : Seq(Frames), memory : Nat, marked : Nat, torn : BOOLEAN]

\* Every state is well formed (the members of RLMachine, System, CallStack).
TypeOK ==
  /\ cs \in StacksOf(Frames)
  /\ savepoint \in [frames : Seq(Frames), memory : Nat]
  /\ mark \in BOOLEAN
  /\ halted \in BOOLEAN
  /\ memory \in Nat
  /\ inMenu \in BOOLEAN
  /\ visible \in BOOLEAN
  /\ snapshot = None \/ snapshot \in Archives
  /\ DOMAIN files = Slots
  /\ \A s \in Slots : files[s] = None \/ files[s] \in Archives
  /\ phase \in {"run", "longop", "unlock", "popping", "loading"} \cup Ended
  /\ finished \in BOOLEAN
  /\ ran \in Nat
  /\ archive \in Archives

\* FindTopRealFrame, by which AdvanceIP and Jump find the script's position,
\* needs real_frames_ to hold the indices of the real frames, in order, under
\* all that longops, clicks, menus and loads do to the stack (CallStack::Push).
RealFramesIndexed == IndexesRealFrames(cs)

\* Step pops one frame when a long operation has reported that it finished:
\* that frame must be the operation's own, not one it has put on top
\* (RLVMInstance::Step, TextoutLongOperation).
FinishedIsPopped ==
  finished =>
    /\ phase = "unlock"
    /\ cs.delayed = <<>>
    /\ Len(cs.stack) = ran
    /\ HasLongop

\* A menu hides the text system; some frame below it must be going to show
\* it again, or no text is ever displayed (RestoreTextSystemVisibility).
HiddenTextComesBack ==
  ~visible =>
    \E i \in DOMAIN cs.stack : cs.stack[i] = LongopFrame("restoretext")

\* While in_menu_ is set no menu can be opened; the frame that clears it must
\* be on the stack (MenuReseter).
OpenMenuIsClosed ==
  inMenu =>
    \E i \in DOMAIN cs.stack : cs.stack[i] = LongopFrame("menureseter")

(***************************************************************************)
(* What comments say and the code does not do.                             *)
(***************************************************************************)

\* rlmachine.hpp:171: when the top of the stack is a long operation,
\* CurrentLongOperation returns it.
TopLongopIsCurrent ==
  phase = "run" /\ cs.stack # <<>> /\ ~IsReal(Top(cs)) => HasLongop

\* stack_frame.hpp:58: the root frame is added by the machine's constructor,
\* so that every stack that was saved has one and can be loaded again.
LoadFindsAFrame == phase # "nullload"

\* rlmachine.cpp:110: a stack underflow is logged and nothing is executed.
UnderflowIsHarmless == phase # "nulltop"

\* system.cpp:200: right clicks do not open menus on top of each other.
OneMenu ==
  \A i, j \in DOMAIN cs.stack :
    /\ cs.stack[i] = LongopFrame("menureseter")
    /\ cs.stack[j] = LongopFrame("menureseter")
    => i = j

\* textout_long_operation.cpp:217: text for a hidden text system cannot be.
NoTextoutWhileHidden == ~(OnTop("textout") /\ ~visible)

\* rlmachine.hpp:188: while automatic savepoints are disabled, only the
\* instruction Savepoint (not among the run's Opcodes) and resets change it.
DisabledSavepointsStay ==
  [][~mark => savepoint' \in {savepoint, NoSavepoint}]_vars

\* graphics_system.hpp:386: RealLive is savepoint based; what is loaded is
\* the state of the savepoint, and so is the memory that goes with it.
LoadsTheSavepoint ==
  phase = "loading" /\ archive.frames # <<>> => archive.memory = archive.marked
=============================================================================
