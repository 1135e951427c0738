------------------------------ MODULE SaveFiles ------------------------------
(***************************************************************************)
(* The files a game leaves between two runs of the program: the global     *)
(* memory (src/src/machine/serialization_global.cpp) and the save games of *)
(* the slots (serialization_local.cpp), the opcode that writes both        *)
(* (module_sys_save.cpp), and the start and the end of the program that    *)
(* read and write the global memory (libreallive/game_loader.cpp,          *)
(* rlvm_instance.cpp).                                                     *)
(*                                                                         *)
(* A file is opened with std::ofstream, which truncates it, and is then    *)
(* written section by section; the program may be killed at any point.     *)
(*                                                                         *)
(* Abstractions.  A section of the global memory is the number of times    *)
(* the game has changed it.  Of a save game only its progress is kept:     *)
(* what the table of texts read (KidokuTable, a section of the global      *)
(* memory) was when it was saved.  What loading a save game does to the    *)
(* machine is in module Machine.                                           *)
(***************************************************************************)
EXTENDS Naturals, Sequences, SequencesExt

CONSTANTS
  Slots,        \* save game slots
  Current,      \* CURRENT_GLOBAL_VERSION
  Outdated,     \* the version of the files of an earlier program
  MaxChanges    \* bound: changes of a section

ASSUME SaveFilesAssumption ==
  /\ Current # Outdated
  /\ MaxChanges \in Nat \ {0}

\* What saveGlobalMemoryTo writes after the version, in this order; the last
\* is the settings of the system, its graphics, text and sound.
Sections == <<"memory", "kidokus", "environment", "settings">>
Names == ToSet(Sections)

Versions == {Current, Outdated}

VARIABLES
  global,     \* the file global.sav.gz
  saves,      \* the files save???.sav.gz
  live,       \* the global memory of the running program
  phase,      \* where the program is
  next,       \* sections written or read so far
  target,     \* the slot that is being saved, {} if none
  durable     \* history: the last global memory that was saved completely

vars == <<global, saves, live, phase, next, target, durable>>

Fresh == [s \in Names |-> 0]

NoFile == [exists |-> FALSE, version |-> Current, sections |-> 0, data |-> Fresh]
NoSave == [exists |-> FALSE, whole |-> FALSE, progress |-> 0]
TornSave == [exists |-> TRUE, whole |-> FALSE, progress |-> 0]

Whole(file) == file.sections = Len(Sections)

\* The program was never run, or an earlier version of it was.
Init ==
  /\ global \in {NoFile,
                 [exists |-> TRUE, version |-> Outdated, sections |-> Len(Sections),
                  data |-> [s \in Names |-> 1]]}
  /\ saves = [s \in Slots |-> NoSave]
  /\ live = Fresh
  /\ phase = "off"
  /\ next = 0
  /\ target = {}
  /\ durable = [s \in Names |-> IF s = "settings" THEN 0 ELSE global.data[s]]

-----------------------------------------------------------------------------
(* Starting: the constructor of GameLoader calls loadGlobalMemory last.    *)

\* No file is no error: this is the first run.
Start ==
  /\ phase = "off"
  /\ live' = Fresh
  /\ next' = 0
  /\ phase' = IF global.exists THEN "loading" ELSE "playing"
  /\ UNCHANGED <<global, saves, target, durable>>

\* The settings of an older version are not read.
Skipped(s) == s = "settings" /\ global.version # Current

\* loadGlobalMemoryFrom puts each section into place as soon as it is read.
LoadSection ==
  /\ phase = "loading"
  /\ next < global.sections
  /\ live' = IF Skipped(Sections[next + 1]) THEN live
             ELSE [live EXCEPT ![Sections[next + 1]] = global.data[Sections[next + 1]]]
  /\ next' = next + 1
  /\ UNCHANGED <<global, saves, phase, target, durable>>

LoadDone ==
  /\ phase = "loading"
  /\ next = Len(Sections)
  /\ phase' = "playing"
  /\ UNCHANGED <<global, saves, live, next, target, durable>>

\* Mutant of OldCorruptedData: the directory beside the save directory.
BesideSaves == "beside"

\* save_dir.parent_path() / (save_dir.filename() / ".old_corrupted_data"): the
\* second / appends a component where a suffix of the name was meant.
OldCorruptedData == "inside"

\* std::filesystem::rename of the save directory: a directory cannot become
\* its own descendant.
Renames(to) == to # "inside"

\* Reading failed.  The handler swallows the exception and moves the whole
\* save directory away; what has been read so far stays in place.  An exception
\* of the handler itself ends the program: Main terminates.
LoadThrows ==
  /\ phase = "loading"
  /\ next = global.sections
  /\ ~Whole(global)
  /\ IF Renames(OldCorruptedData)
     THEN /\ global' = NoFile
          /\ saves' = [s \in Slots |-> NoSave]
          /\ phase' = "playing"
     ELSE phase' = "terminated" /\ UNCHANGED <<global, saves>>
  /\ UNCHANGED <<live, next, target, durable>>

\* The user starts the program again.
TryAgain ==
  /\ phase = "terminated"
  /\ phase' = "off"
  /\ UNCHANGED <<global, saves, live, next, target, durable>>

-----------------------------------------------------------------------------
(* Playing and saving.                                                     *)

Play(s) ==
  /\ phase = "playing"
  /\ live[s] < MaxChanges
  /\ live' = [live EXCEPT ![s] = @ + 1]
  /\ UNCHANGED <<global, saves, phase, next, target, durable>>

OpenGlobal ==
  /\ global' = [exists |-> TRUE, version |-> Current, sections |-> 0, data |-> Fresh]
  /\ next' = 0

\* Mutant of SaveOpcode: the global memory is left to the end of the program.
SaveSlotOnly(s) ==
  /\ phase = "playing"
  /\ phase' = "slot"
  /\ target' = {s}
  /\ UNCHANGED <<global, saves, live, next, durable>>

\* The opcodes save and save_always: saveGlobalMemory, then saveGameForSlot.
SaveOpcode(s) ==
  /\ phase = "playing"
  /\ phase' = "writing"
  /\ target' = {s}
  /\ OpenGlobal
  /\ UNCHANGED <<saves, live, durable>>

\* The game loop has ended normally: RLVMInstance::Main saves the global
\* memory and nothing else.
Halt ==
  /\ phase = "playing"
  /\ phase' = "halting"
  /\ target' = {}
  /\ OpenGlobal
  /\ UNCHANGED <<saves, live, durable>>

\* A section has gone through the compressor and the file's buffer.
WriteSection ==
  /\ phase \in {"writing", "halting"}
  /\ next < Len(Sections)
  /\ LET s == Sections[next + 1] IN
       global' = [global EXCEPT !.sections = next + 1, !.data[s] = live[s]]
  /\ next' = next + 1
  /\ UNCHANGED <<saves, live, phase, target, durable>>

\* The streams are closed; the slot is opened, which truncates it.
GlobalSaved ==
  /\ phase \in {"writing", "halting"}
  /\ next = Len(Sections)
  /\ durable' = global.data
  /\ phase' = IF phase = "halting" THEN "off"
              ELSE IF target = {} THEN "playing" ELSE "slot"
  /\ saves' = [s \in Slots |-> IF s \in target THEN TornSave ELSE saves[s]]
  /\ UNCHANGED <<global, live, next, target>>

\* saveGameTo has written everything.
SlotSaved ==
  /\ phase = "slot"
  /\ saves' = [s \in Slots |->
                 IF s \in target
                 THEN [exists |-> TRUE, whole |-> TRUE, progress |-> live["kidokus"]]
                 ELSE saves[s]]
  /\ phase' = "playing"
  /\ target' = {}
  /\ UNCHANGED <<global, live, next, durable>>

\* Something could not be serialized: the exception is logged by Step, the
\* torn file stays and the game goes on.
SlotThrows ==
  /\ phase = "slot"
  /\ phase' = "playing"
  /\ target' = {}
  /\ UNCHANGED <<global, saves, live, next, durable>>

\* Of a file that is being written any part may have reached the disk.
TearGlobal ==
  IF phase \in {"writing", "halting"}
  THEN \E n \in 0..next : global' = [global EXCEPT !.sections = n]
  ELSE UNCHANGED global

\* The archive throws while the opcode writes the global memory (a full disk):
\* the slot is not written, Step logs the exception and the game goes on.
GlobalThrows ==
  /\ phase = "writing"
  /\ TearGlobal
  /\ phase' = "playing"
  /\ target' = {}
  /\ UNCHANGED <<saves, live, next, durable>>

\* The program is killed, or an exception ends the game loop.
Crash ==
  /\ phase \in {"loading", "playing", "writing", "halting", "slot"}
  /\ TearGlobal
  /\ phase' = "off"
  /\ target' = {}
  /\ UNCHANGED <<saves, live, next, durable>>

Next ==
  \/ Start \/ LoadSection \/ LoadDone \/ LoadThrows \/ TryAgain
  \/ \E s \in Names : Play(s)
  \/ \E s \in Slots : SaveOpcode(s)
  \/ Halt \/ WriteSection \/ GlobalSaved \/ GlobalThrows
  \/ SlotSaved \/ SlotThrows \/ Crash

Spec == Init /\ [][Next]_vars

-----------------------------------------------------------------------------
(* Properties.                                                             *)

Files ==
  [exists : BOOLEAN, version : Versions, sections : 0..Len(Sections),
   data : [Names -> 0..MaxChanges]]

TypeOK ==
  /\ global \in Files
  /\ saves \in [Slots -> [exists : BOOLEAN, whole : BOOLEAN, progress : 0..MaxChanges]]
  /\ live \in [Names -> 0..MaxChanges]
  /\ phase \in {"off", "loading", "playing", "writing", "halting", "slot", "terminated"}
  /\ next \in 0..Len(Sections)
  /\ target \in SUBSET Slots
  /\ durable \in [Names -> 0..MaxChanges]

\* A game that runs knows everything that was ever saved: it never goes on
\* from a part of a file, from defaults in place of a damaged one, or from an
\* earlier save.  Only the settings of an older version are given up.
NoProgressLost ==
  phase = "playing" => \A s \in Names : live[s] >= durable[s]

\* The texts read before a save game was made are marked as read whenever it
\* can be loaded: save writes the global memory first, so that no crash leaves
\* a save game that is ahead of it.
GlobalsCoverSaves ==
  phase = "playing" =>
    \A s \in Slots : saves[s].whole => live["kidokus"] >= saves[s].progress

\* serialization_global.cpp:112: a damaged global memory file is moved out of
\* the way and the game starts.  What the code does: the move fails, the
\* program terminates, and the next start finds the same file.
DamagedFilesAreMovedAway == phase # "terminated"
=============================================================================
