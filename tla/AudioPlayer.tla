----------------------------- MODULE AudioPlayer -----------------------------
(***************************************************************************)
(* core/audio_player.cpp: a decoder behind a mutex, read in blocks by the  *)
(* thread that feeds the sound card and steered by the game's thread.      *)
(*                                                                         *)
(* Samples are positions of a mono source 0 .. Length - 1.  A frame is the *)
(* run of positions the decoder returns at once; runs are all the player   *)
(* ever stores, so a frame, the kept remainder and the last piece of a     *)
(* result are intervals.  Amplitude is left out, except how many times the *)
(* volume was applied to the remainder ("gain").                           *)
(*                                                                         *)
(* The player is used as sdl_sound_system.cpp uses it: music is given its  *)
(* partial loop and its number of passes, shared with the audio thread,    *)
(* then read by LoadPCM; a sound effect is given its passes and a voice is *)
(* given nothing, and both are read by LoadRemain.                         *)
(***************************************************************************)
EXTENDS Integers, FiniteSetsExt

CONSTANTS
  Length,      \* samples of the source
  Chunk,       \* samples the decoder returns at once
  Requests,    \* block sizes the sound card asks for
  Loops,       \* partial loops of the tracks: [from, to, loop]
  MusicTimes,  \* numbers of repetitions given to music, -1 for ever
  SoundTimes,  \* numbers of repetitions given to sound effects
  Fades,       \* lengths of a fade-out in samples
  Clients      \* which of "music", "sound" and "voice" are considered

ASSUME SourceAssumption == Length \in Nat \ {0} /\ Chunk \in Nat \ {0}
ASSUME RequestAssumption == Requests \subseteq Nat \ {0}
ASSUME TimesAssumption == MusicTimes \subseteq {-1} \cup Nat /\ SoundTimes \subseteq {-1} \cup Nat
ASSUME FadeAssumption == Fades \subseteq Nat

\* npos: beyond every position
Npos == 2 * Length

ASSUME LoopAssumption ==
  \A l \in Loops : l.from \in 0 .. Length - 1 /\ l.to \in l.from + 1 .. Npos
                   /\ l.loop \in 0 .. Length - 1 /\ l.loop < l.to

VARIABLES
  client,   \* who uses this player
  phase,    \* how far it has been set up
  precise,  \* the decoder seeks to the sample, or to the unit that holds it
  tell,     \* decoder_.Tell()
  range,    \* loop_fr_ and loop_to_
  status,   \* status_
  buffer,   \* buffer_: decoded and not delivered yet
  next,     \* the NextLoop command of cmd_
  times,    \* its TerminateAfterNLoops command
  ending,   \* its TerminateAfter command
  loader,   \* the call of LoadPCM or LoadRemain in progress, who holds mutex_
  caller    \* a Pause or Unpause between its check and its lock

setup == <<client, phase, precise>>
commands == <<next, times, ending>>
vars == <<setup, tell, range, status, buffer, commands, loader, caller>>

-----------------------------------------------------------------------------
(* Frames *)

Frame(fr, to) == [fr |-> fr, to |-> to]
NoFrame == Frame(0, 0)
Count(frame) == frame.to - frame.fr
NoBuffer == [frame |-> NoFrame, cur |-> 0, gain |-> 0]
HasBuffer == Count(buffer.frame) > 0

\* where Seek(p, SEEKDIR::BEG) leaves Tell(): the compressed format can only
\* stop at the start of a unit
SeekTo(p) == IF precise THEN p ELSE (p \div Chunk) * Chunk

PcmLocation == IF HasBuffer THEN buffer.cur ELSE tell

\* Mutant of ClipFrame: what lies beyond the end is kept
ClipFront(frame, r) ==
  IF frame.to < r.fr \/ r.to <= frame.fr \/ Count(frame) = 0
  THEN NoFrame
  ELSE Frame(Max({frame.fr, r.fr}), frame.to)

\* the commands, and that they are not in cmd_
NextLoop(from, to, cur) == [armed |-> TRUE, from |-> from, to |-> to, cur |-> cur]
AfterNLoops(n, cur) == [armed |-> TRUE, n |-> n, cur |-> cur]
NoNextLoop == [armed |-> FALSE, from |-> 0, to |-> 0, cur |-> 0]
NoTimes == [armed |-> FALSE, n |-> 0, cur |-> 0]
NoEnding == [armed |-> FALSE, left |-> 0]

\* ClipFrame: the part of a frame inside the loop
ClipFrame(frame, r) ==
  IF frame.to < r.fr \/ r.to <= frame.fr \/ Count(frame) = 0
  THEN NoFrame
  ELSE Frame(Max({frame.fr, r.fr}), Min({frame.to, r.to}))

-----------------------------------------------------------------------------
(* LoadNext: one frame of the decoder, and the commands executed on it *)

HasNext == tell < Length
Loaded == status = "PLAYING" /\ HasNext

\* a reader beyond the loop first goes back to its start
NextStart == IF tell >= range.to THEN SeekTo(range.fr) ELSE tell
NextEnd == Min({NextStart + Chunk, Length})

\* OnEndOfPlayback, once the decoder has nothing left
EndOfPlayback == NextEnd = Length
\* Mutant of TellAfter: OnEndOfPlayback does not go back
TellStays == NextEnd

TellAfter == IF EndOfPlayback /\ range.on THEN SeekTo(range.fr) ELSE NextEnd
StatusAfter == IF EndOfPlayback /\ ~range.on THEN "TERMINATED" ELSE "PLAYING"

\* NextLoop sees the source jump back: from now on the second loop holds
EntersNextLoop == next.armed /\ NextStart < next.cur
\* Mutant of RangeAfter: the first loop is played again and again
RangeKept == range

RangeAfter ==
  IF EntersNextLoop THEN [on |-> TRUE, fr |-> next.from, to |-> next.to] ELSE range
TellInLoop ==
  IF EntersNextLoop /\ TellAfter \notin next.from .. next.to - 1
  THEN SeekTo(next.from) ELSE TellAfter
NextAfter ==
  IF EntersNextLoop THEN NoNextLoop
  ELSE IF next.armed THEN NextLoop(next.from, next.to, NextStart) ELSE next

\* TerminateAfterNLoops counts the same jumps
\* Mutant of TimesLeft: the jump is not counted
TimesUncounted == times.n

TimesLeft == IF NextStart < times.cur THEN times.n - 1 ELSE times.n
PassesAreOver == times.armed /\ TimesLeft < 0
TimesAfter ==
  IF PassesAreOver THEN NoTimes
  ELSE IF times.armed THEN AfterNLoops(TimesLeft, NextStart) ELSE times

\* the frame as the commands leave it: both of them drop the frame they act on
NextFrame ==
  IF EntersNextLoop \/ PassesAreOver THEN NoFrame ELSE Frame(NextStart, NextEnd)

\* TerminateAfter, which is erased unexecuted when nothing is left to wait for
SamplesLeft == ending.left - Count(NextFrame)
FadeIsOver == ending.armed /\ ending.left > 0 /\ SamplesLeft <= 0
EndingAfter ==
  IF ending.armed /\ ending.left > 0 /\ SamplesLeft > 0
  THEN [armed |-> TRUE, left |-> SamplesLeft] ELSE NoEnding

LoadNext ==
  /\ Loaded
  /\ tell' = TellInLoop
  /\ range' = RangeAfter
  /\ next' = NextAfter
  /\ times' = TimesAfter
  /\ ending' = EndingAfter
  /\ status' = IF PassesAreOver \/ FadeIsOver THEN "TERMINATED" ELSE StatusAfter

-----------------------------------------------------------------------------
(* Setting up, by the thread that creates the player *)

\* SetLoopImpl: a location outside the loop is moved to its start
SetLoopImpl(fr, to) ==
  /\ range' = [on |-> TRUE, fr |-> fr, to |-> to]
  /\ IF PcmLocation \in fr .. to - 1
     THEN UNCHANGED <<buffer, tell>>
     ELSE buffer' = NoBuffer /\ tell' = SeekTo(fr)

\* SetPLoop, called by SDLSoundSystem::LoadMusic
SetPLoop(l) ==
  /\ client = "music" /\ phase = "new"
  /\ phase' = "looped"
  /\ SetLoopImpl(l.from, l.to)
  /\ next' = NextLoop(l.loop, l.to, tell')
  /\ UNCHANGED <<client, precise, status, times, ending, loader, caller>>

\* SetLoopTimes, called by BgmPlay and by WavPlay
SetLoopTimes(n) ==
  /\ \/ client = "music" /\ phase = "looped" /\ n \in MusicTimes
     \/ client = "sound" /\ phase = "new" /\ n \in SoundTimes
  /\ phase' = "shared"
  /\ range' = [on |-> TRUE, fr |-> range.fr, to |-> range.to]
  /\ times' = IF n < 0 THEN NoTimes ELSE AfterNLoops(n, PcmLocation)
  /\ UNCHANGED <<client, precise, tell, status, buffer, next, ending, loader, caller>>

-----------------------------------------------------------------------------
(* LoadPCM, on the audio thread *)

Call(pc, request, got, piece, cur, gain) ==
  [pc |-> pc, request |-> request, got |-> got, piece |-> piece, cur |-> cur, gain |-> gain]
Idle == Call("idle", 0, 0, NoFrame, 0, 0)
Locked == loader.pc \in {"pcm", "remain"}

\* the first, unlocked look at the status
WantPCM(n) ==
  /\ loader.pc = "idle" /\ phase = "shared" /\ client = "music"
  /\ status = "PLAYING"
  /\ loader' = Call("want", n, 0, NoFrame, 0, 0)
  /\ UNCHANGED <<setup, tell, range, status, buffer, commands, caller>>

\* the lock, the second look, and the remainder of the call before
LockPCM ==
  /\ loader.pc = "want"
  /\ IF status = "PLAYING"
     THEN /\ loader' = Call("pcm", loader.request, Count(buffer.frame), buffer.frame,
                            tell, buffer.gain)
          /\ buffer' = NoBuffer
     ELSE loader' = Idle /\ UNCHANGED buffer
  /\ UNCHANGED <<setup, tell, range, status, commands, caller>>

\* one turn of the loop; a frame the commands dropped or the loop clips away
\* adds nothing and the loop goes on
PullPCM ==
  /\ loader.pc = "pcm" /\ loader.got < loader.request
  /\ LoadNext
  /\ loader' =
       LET piece == ClipFrame(NextFrame, RangeAfter) IN
       IF Count(NextFrame) = 0 THEN loader
       ELSE IF Count(piece) = 0
       THEN Call("pcm", loader.request, loader.got, loader.piece, NextStart, loader.gain)
       ELSE Call("pcm", loader.request, loader.got + Count(piece), piece, piece.to, 0)
  /\ UNCHANGED <<setup, buffer, caller>>

\* volume, and what is beyond the request goes back into the buffer
FinishPCM ==
  /\ loader.pc = "pcm"
  /\ loader.got >= loader.request \/ status # "PLAYING"
  /\ LET excess == loader.got - loader.request IN
     buffer' = IF excess <= 0 THEN buffer
               ELSE [frame |-> Frame(loader.piece.to - excess, loader.piece.to),
                     cur |-> loader.cur - excess, gain |-> loader.gain + 1]
  /\ loader' = Idle
  /\ UNCHANGED <<setup, tell, range, status, commands, caller>>

-----------------------------------------------------------------------------
(* LoadRemain, called by SDLSoundImpl::PlayChannel.  It holds the lock from *)
(* the start.  Its result is not kept: "piece" is the last run it got.      *)

LockRemain ==
  /\ loader.pc = "idle" /\ client # "music" /\ phase = "shared"
  /\ status = "PLAYING"
  /\ loader' = Call("remain", 0, 0, buffer.frame, PcmLocation, buffer.gain)
  /\ buffer' = NoBuffer
  /\ UNCHANGED <<setup, tell, range, status, commands, caller>>

\* a frame that starts before the place the call started from is the next pass
PullRemain ==
  /\ loader.pc = "remain"
  /\ LoadNext
  /\ LET remains == Count(NextFrame) > 0 /\ NextStart >= loader.cur IN
     loader' = IF remains
               THEN Call("remain", 0, 0, ClipFrame(NextFrame, RangeAfter), loader.cur, 0)
               ELSE Idle
  /\ buffer' = IF Count(NextFrame) > 0 /\ NextStart < loader.cur
               THEN [frame |-> NextFrame, cur |-> NextStart, gain |-> 0]
               ELSE buffer
  /\ UNCHANGED <<setup, caller>>

FinishRemain ==
  /\ loader.pc = "remain" /\ ~Loaded
  /\ loader' = Idle
  /\ UNCHANGED <<setup, tell, range, status, buffer, commands, caller>>

-----------------------------------------------------------------------------
(* Control, by the game's thread: only music is steered *)

Steered == client = "music" /\ phase = "shared" /\ caller = "idle"

\* Pause and Unpause look at the status, then take the lock and look again
WantPause ==
  /\ Steered /\ status = "PLAYING"
  /\ caller' = "pause"
  /\ UNCHANGED <<setup, tell, range, status, buffer, commands, loader>>

\* Mutant of Pause: no second look at the status
PauseUnchecked ==
  /\ caller = "pause" /\ ~Locked
  /\ caller' = "idle"
  /\ status' = "PAUSED"
  /\ UNCHANGED <<setup, tell, range, buffer, commands, loader>>

Pause ==
  /\ caller = "pause" /\ ~Locked
  /\ caller' = "idle"
  /\ status' = IF status = "PLAYING" THEN "PAUSED" ELSE status
  /\ UNCHANGED <<setup, tell, range, buffer, commands, loader>>

WantUnpause ==
  /\ Steered /\ status = "PAUSED"
  /\ caller' = "unpause"
  /\ UNCHANGED <<setup, tell, range, status, buffer, commands, loader>>

Unpause ==
  /\ caller = "unpause" /\ ~Locked
  /\ caller' = "idle"
  /\ status' = IF status = "PAUSED" THEN "PLAYING" ELSE status
  /\ UNCHANGED <<setup, tell, range, buffer, commands, loader>>

Terminate ==
  /\ Steered /\ ~Locked
  /\ status' = "TERMINATED"
  /\ UNCHANGED <<setup, tell, range, buffer, commands, loader, caller>>

\* FadeOut(ms, should_then_terminate = true); of several, the first to end
\* counts, and those of no length never do
FadeOut(samples) ==
  /\ Steered /\ ~Locked
  /\ LET lefts == {ending.left, samples} IN
     ending' = [armed |-> TRUE, left |-> IF 0 \in lefts THEN Max(lefts) ELSE Min(lefts)]
  /\ UNCHANGED <<setup, tell, range, status, buffer, next, times, loader, caller>>

-----------------------------------------------------------------------------
Init ==
  /\ client \in Clients
  /\ phase = IF client = "voice" THEN "shared" ELSE "new"
  /\ precise \in BOOLEAN
  /\ tell = 0
  /\ range = [on |-> FALSE, fr |-> 0, to |-> Npos]
  /\ status = "PLAYING"
  /\ buffer = NoBuffer
  /\ next = NoNextLoop /\ times = NoTimes /\ ending = NoEnding
  /\ loader = Idle
  /\ caller = "idle"

Load == LockPCM \/ PullPCM \/ FinishPCM \/ LockRemain \/ PullRemain \/ FinishRemain
WantBlock == \E n \in Requests : WantPCM(n)
Steer == WantPause \/ Pause \/ WantUnpause \/ Unpause \/ Terminate \/ \E f \in Fades : FadeOut(f)
SetUp == (\E l \in Loops : SetPLoop(l)) \/ (\E n \in MusicTimes \cup SoundTimes : SetLoopTimes(n))

Next == SetUp \/ WantBlock \/ Load \/ Steer

\* the sound card keeps asking, and a call that was made goes on
Fairness == WF_vars(Load) /\ WF_vars(WantBlock)

Spec == Init /\ [][Next]_vars /\ Fairness

-----------------------------------------------------------------------------
TypeOK ==
  /\ client \in Clients /\ phase \in {"new", "looped", "shared"} /\ precise \in BOOLEAN
  /\ tell \in 0 .. Length
  /\ range \in [on : BOOLEAN, fr : 0 .. Length - 1, to : 1 .. Npos]
  /\ status \in {"PLAYING", "PAUSED", "TERMINATED"}
  /\ buffer \in [frame : [fr : 0 .. Length, to : 0 .. Length], cur : Int, gain : Nat]
  /\ next \in [armed : BOOLEAN, from : 0 .. Length - 1, to : 0 .. Npos, cur : 0 .. Length]
  /\ times \in [armed : BOOLEAN, n : Nat, cur : Int]
  /\ ending \in [armed : BOOLEAN, left : Nat]
  /\ loader \in [pc : {"idle", "want", "pcm", "remain"}, request : Nat, got : Nat,
                 piece : [fr : 0 .. Length, to : 0 .. Length], cur : Int, gain : Nat]
  /\ caller \in {"idle", "pause", "unpause"}

\* A remainder of music is the end of what was decoded and is inside the loop:
\* no call can deliver a sample that the loop leaves out (LoadPCM, ClipFrame).
BufferInLoop ==
  client = "music" /\ HasBuffer =>
    /\ buffer.frame.fr >= range.fr
    /\ buffer.frame.to <= range.to
    /\ buffer.frame.to \in {tell, range.to, Length}

\* What comes out of the buffer is scaled by the volume for the first time.
\* (It is not: LoadPCM scales the whole result before it keeps what is beyond
\* the request.)
VolumeAppliedOnce == loader.pc = "pcm" /\ loader.got > 0 => loader.gain = 0

\* A player that was stopped stays stopped, whatever a Pause or an Unpause saw
\* before it got the lock: only then may its slot be given away.
TerminatedIsFinal == [][status = "TERMINATED" => status' = "TERMINATED"]_vars
=============================================================================
