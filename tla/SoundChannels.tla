---------------------------- MODULE SoundChannels ----------------------------
(* The sound channels of systems/sdl/sound_implementor.cpp: the static      *)
(* table ch_, SDL_mixer's own channels, and the two threads that use them.  *)
(* The main thread runs the calls of SDLSoundSystem (WavPlay, PlaySe,       *)
(* KoePlay, WavStop, PlayBgm); SDL's audio thread runs OnChannelFinished    *)
(* when a sound is over.  SDL_mixer's functions and its callback hold SDL's *)
(* audio lock; the entries of the table are read and written without it.    *)
EXTENDS Integers, FiniteSetsExt

CONSTANTS
  NumChannels,   \* ch_.size()
  Voices,        \* the sounds KoePlay plays
  Effects,       \* the sounds WavPlay and PlaySe play
  Empty,         \* those that decode to nothing: Mix_PlayChannel refuses them
  Chunks,        \* identities of the Mix_Chunks and of their samples
  None

ASSUME ChannelsAssumption ==
  /\ NumChannels \in Nat \ {0}
  /\ None \notin Voices \union Effects \union Chunks

Channels == 0 .. NumChannels - 1
KoeChannel == NumChannels - 1
Sounds == Voices \union Effects

VARIABLES
  ch,      \* ch_[c]: player, implementor, buffer and chunk
  mixer,   \* the chunk SDL_mixer plays on a channel
  live,    \* the chunks that are allocated
  main,    \* the main thread: where it is and the locals of its call
  audio,   \* the audio thread: inside OnChannelFinished(c) it has the lock
  broken,  \* a chunk was freed twice, or the callback ran after ch_.clear()
  taken    \* history: the channels WavPlay and KoePlay took while in use

channelVars == <<ch, mixer, live, main, audio, broken, taken>>

IdleEntry == [player |-> None, implementor |-> FALSE, buffer |-> None, chunk |-> None]
IsIdle(c) == ~ch[c].implementor

Main(pc, c, sound) ==
  [pc |-> pc, via |-> pc, c |-> c, sound |-> sound, chunk |-> None, old |-> None]
Ready == Main("ready", 0, None)
Outside == [pc |-> "out", c |-> 0]
LockFree == audio = Outside

ChannelsInit ==
  /\ ch = [c \in Channels |-> IdleEntry]
  /\ mixer = [c \in Channels |-> None]
  /\ live = {}
  /\ main = Ready
  /\ audio = Outside
  /\ broken = FALSE
  /\ taken = {}

\* SDL_mixer plays on the channel, or is reporting that it has finished
InUse(c) == mixer[c] # None \/ (audio # Outside /\ audio.c = c)

-----------------------------------------------------------------------------
(* SDL_mixer, as the code uses it.                                          *)

\* Mix_FreeChunk stops the channels that play the chunk and tells nobody
Free(ks) ==
  /\ live' = live \ ks
  /\ mixer' = [c \in Channels |-> IF mixer[c] \in ks THEN None ELSE mixer[c]]
  /\ broken' = (broken \/ ~(ks \subseteq live))

\* Mix_HaltChannel: the callback runs on each channel that plays
Halt(cs) ==
  LET told == {c \in cs : mixer[c] # None}
      ks   == {ch[c].chunk : c \in told} \ {None} IN
  /\ ch' = [c \in Channels |-> IF c \in told THEN IdleEntry ELSE ch[c]]
  /\ live' = live \ ks
  /\ mixer' = [c \in Channels |-> IF c \in told \/ mixer[c] \in ks THEN None ELSE mixer[c]]
  /\ broken' = (broken \/ ~(ks \subseteq live))

-----------------------------------------------------------------------------
(* The calls of SDLSoundSystem on the main thread.                          *)

Begin(pc, c, sound) ==
  /\ main = Ready
  /\ main' = Main(pc, c, sound)
  /\ UNCHANGED <<ch, mixer, live, audio, broken, taken>>

\* FindIdleChannel takes the first entry without an implementor, or throws
IdleChannels == {c \in Channels : IsIdle(c)}
FindIdleChannel == Min(IdleChannels)

\* WavPlay(file, loop) finds a channel; WavPlay(file, loop, channel) is given one
WavPlay == \E s \in Effects : IdleChannels # {} /\ Begin("load", FindIdleChannel, s)
WavPlayOn == \E s \in Effects, c \in Channels \ {KoeChannel} : Begin("load", c, s)
KoePlay == \E s \in Voices : Begin("load", KoeChannel, s)

\* PlaySe: the sound table names a channel or a negative one, and a file or ""
PlaySe ==
  \E s \in Effects \union {None} :
    \/ \E c \in Channels \ {KoeChannel} : Begin("halt", c, s)
    \/ IdleChannels # {} /\ Begin("halt", FindIdleChannel, s)

\* Mutant of PlaySeHalts: nothing is halted
PlaySeOver ==
  /\ main.pc = "halt"
  /\ main' = IF main.sound = None THEN Ready ELSE [main EXCEPT !.pc = "load"]
  /\ UNCHANGED <<ch, mixer, live, audio, broken, taken>>

\* "Make sure there isn't anything playing on the current channel"
PlaySeHalts ==
  /\ main.pc = "halt" /\ LockFree
  /\ Halt({main.c})
  /\ main' = IF main.sound = None THEN Ready ELSE [main EXCEPT !.pc = "load"]
  /\ UNCHANGED <<audio, taken>>

\* WavStop and KoeStop halt one channel, WavStopAll all of them
Stop ==
  /\ main = Ready /\ LockFree
  /\ \E cs \in {{c} : c \in Channels} \union {Channels} : Halt(cs)
  /\ UNCHANGED <<main, audio, taken>>

-----------------------------------------------------------------------------
(* PlayChannel.  The samples are loaded; the entry is assigned member by    *)
(* member, and the old chunk freed once its pointer has been replaced.      *)

LoadSamples ==
  /\ main.pc = "load"
  /\ \E k \in Chunks \ live :
       /\ \A c \in Channels : k \notin {mixer[c], ch[c].chunk, ch[c].buffer}
       /\ live' = live \union {k}
       /\ main' = [main EXCEPT !.pc = "assign", !.chunk = k]
  /\ UNCHANGED <<ch, mixer, audio, broken, taken>>

AssignEntry ==
  /\ main.pc = "assign"
  /\ ch' = [ch EXCEPT ![main.c].player = main.sound, ![main.c].implementor = TRUE,
                      ![main.c].buffer = main.chunk]
  /\ main' = [main EXCEPT !.pc = "replace"]
  /\ taken' = IF main.via = "load" /\ InUse(main.c) THEN taken \union {main.c} ELSE taken
  /\ UNCHANGED <<mixer, live, audio, broken>>

\* Mutant of ReplaceChunk: the old chunk is released, never freed
ReleaseChunk ==
  /\ main.pc = "replace"
  /\ ch' = [ch EXCEPT ![main.c].chunk = main.chunk]
  /\ main' = [main EXCEPT !.pc = "free"]
  /\ UNCHANGED <<mixer, live, audio, broken, taken>>

ReplaceChunk ==
  /\ main.pc = "replace"
  /\ ch' = [ch EXCEPT ![main.c].chunk = main.chunk]
  /\ main' = [main EXCEPT !.pc = "free", !.old = ch[main.c].chunk]
  /\ UNCHANGED <<mixer, live, audio, broken, taken>>

\* without an old chunk nothing is freed and the lock is not taken
FreeOld ==
  /\ main.pc = "free" /\ (main.old = None \/ LockFree)
  /\ Free({main.old} \ {None})
  /\ main' = IF main.chunk = None THEN Ready ELSE [main EXCEPT !.pc = "start"]
  /\ UNCHANGED <<ch, audio, taken>>

\* Mix_PlayChannel: if the channel still plays, the callback resets its entry
StartChunk ==
  /\ main.pc = "start" /\ LockFree /\ main.sound \notin Empty
  /\ LET c == main.c
         ks == IF mixer[c] = None THEN {} ELSE {ch[c].chunk} \ {None} IN
     /\ ch' = IF mixer[c] = None THEN ch ELSE [ch EXCEPT ![c] = IdleEntry]
     /\ live' = live \ ks
     /\ mixer' = [mixer EXCEPT ![c] = main.chunk]
     /\ broken' = (broken \/ ~(ks \subseteq live))
  /\ main' = Ready
  /\ UNCHANGED <<audio, taken>>

\* Mutant of StartRefused: the implementor stays in the entry
RefusedHalfReset ==
  /\ main.pc = "start" /\ main.sound \in Empty
  /\ ch' = [ch EXCEPT ![main.c].player = None, ![main.c].buffer = None]
  /\ main' = [main EXCEPT !.pc = "replace", !.chunk = None]
  /\ UNCHANGED <<mixer, live, audio, broken, taken>>

\* refused: the entry is reset, the same way it was assigned, and it throws
StartRefused ==
  /\ main.pc = "start" /\ main.sound \in Empty
  /\ ch' = [ch EXCEPT ![main.c].player = None, ![main.c].implementor = FALSE,
                      ![main.c].buffer = None]
  /\ main' = [main EXCEPT !.pc = "replace", !.chunk = None]
  /\ UNCHANGED <<mixer, live, audio, broken, taken>>

-----------------------------------------------------------------------------
(* PlayBgm of a track with another sample rate: CloseAudio clears the table *)
(* entry by entry and closes the mixer; AllocateChannels makes a new one.   *)

CloseAudio ==
  /\ main = Ready
  /\ main' = [Main("clear", 0, None) EXCEPT !.old = ch[0].chunk]
  /\ taken' = taken \union {c \in Channels : InUse(c)}
  /\ UNCHANGED <<ch, mixer, live, audio, broken>>

ClearEntry ==
  /\ main.pc = "clear" /\ (main.old = None \/ LockFree)
  /\ Free({main.old} \ {None})
  /\ ch' = [ch EXCEPT ![main.c] = IdleEntry]
  /\ main' = IF main.c = KoeChannel THEN [main EXCEPT !.pc = "close"]
             ELSE [main EXCEPT !.c = main.c + 1, !.old = ch[main.c + 1].chunk]
  /\ UNCHANGED <<audio, taken>>

\* Mix_CloseAudio halts all channels: the callback would index an empty table
ReopenAudio ==
  /\ main.pc = "close" /\ LockFree
  /\ broken' = (broken \/ \E c \in Channels : mixer[c] # None)
  /\ mixer' = [c \in Channels |-> None]
  /\ main' = Ready
  /\ UNCHANGED <<ch, live, audio, taken>>

-----------------------------------------------------------------------------
(* The audio thread.  A sound ends by itself or at the end of WavFadeOut;   *)
(* OnChannelFinished then resets the entry, the lock held throughout.  Its  *)
(* player is not playing then: LoadRemain has run it to its end.            *)

ChannelEnds(c) ==
  /\ LockFree /\ mixer[c] # None
  /\ mixer' = [mixer EXCEPT ![c] = None]
  /\ audio' = [pc |-> "reset", c |-> c]
  /\ UNCHANGED <<ch, live, main, broken, taken>>

\* Mutant of ResetEntry: the implementor stays in the entry
HalfReset ==
  /\ audio.pc = "reset"
  /\ ch' = [ch EXCEPT ![audio.c].player = None, ![audio.c].buffer = None]
  /\ audio' = [audio EXCEPT !.pc = "drop"]
  /\ UNCHANGED <<mixer, live, main, broken, taken>>

ResetEntry ==
  /\ audio.pc = "reset"
  /\ ch' = [ch EXCEPT ![audio.c].player = None, ![audio.c].implementor = FALSE,
                      ![audio.c].buffer = None]
  /\ audio' = [audio EXCEPT !.pc = "drop"]
  /\ UNCHANGED <<mixer, live, main, broken, taken>>

\* Mutant of DropChunk: the pointer stays in the entry
DropPointee ==
  /\ audio.pc = "drop"
  /\ Free({ch[audio.c].chunk} \ {None})
  /\ audio' = Outside
  /\ UNCHANGED <<ch, main, taken>>

DropChunk ==
  /\ audio.pc = "drop"
  /\ ch' = [ch EXCEPT ![audio.c].chunk = None]
  /\ Free({ch[audio.c].chunk} \ {None})
  /\ audio' = Outside
  /\ UNCHANGED <<main, taken>>

OnChannelFinished == (\E c \in Channels : ChannelEnds(c)) \/ ResetEntry \/ DropChunk

PlayChannel ==
  LoadSamples \/ AssignEntry \/ ReplaceChunk \/ FreeOld \/ StartChunk \/ StartRefused

ChannelsNext ==
  \/ WavPlay \/ WavPlayOn \/ KoePlay \/ PlaySe \/ PlaySeHalts \/ Stop
  \/ PlayChannel
  \/ CloseAudio \/ ClearEntry \/ ReopenAudio
  \/ OnChannelFinished

\* SDL plays what it was given to the end, and a call of the main thread returns
ChannelsFairness ==
  /\ \A c \in Channels : SF_channelVars(ChannelEnds(c))
  /\ WF_channelVars(ResetEntry) /\ WF_channelVars(DropChunk)
  /\ WF_channelVars(PlayChannel)

ChannelsSpec == ChannelsInit /\ [][ChannelsNext]_channelVars /\ ChannelsFairness

-----------------------------------------------------------------------------
(* Properties.                                                              *)

ChannelsTypeOK ==
  /\ ch \in [Channels -> [player : Sounds \union {None}, implementor : BOOLEAN,
                          buffer : Chunks \union {None}, chunk : Chunks \union {None}]]
  /\ mixer \in [Channels -> Chunks \union {None}]
  /\ live \subseteq Chunks
  /\ main.pc \in {"ready", "halt", "load", "assign", "replace", "free", "start", "clear", "close"}
  /\ main.via \in {"ready", "halt", "load", "clear"}
  /\ main.c \in Channels /\ main.sound \in Sounds \union {None}
  /\ {main.chunk, main.old} \subseteq Chunks \union {None}
  /\ audio.pc \in {"out", "reset", "drop"} /\ audio.c \in Channels
  /\ broken \in BOOLEAN /\ taken \subseteq Channels

\* What SDL_mixer plays is there to be played: the chunk is allocated and the
\* entry still holds it and its samples, on every channel the main thread has
\* taken from it while it played (PlayChannel, OnChannelFinished).
SoundIsOwned ==
  \A c \in Channels \ taken :
    mixer[c] # None => mixer[c] \in live /\ ch[c].chunk = mixer[c] /\ ch[c].buffer = mixer[c]

\* The table says a channel is idle exactly when SDL_mixer plays nothing on it,
\* but for the moments in which a thread is changing it; otherwise FindIdleChannel
\* hands out a channel in use, or never hands out a free one again.
TableMatchesMixer ==
  \A c \in Channels \ taken :
    /\ ~(audio # Outside /\ audio.c = c)
    /\ main.pc \notin {"ready", "halt", "load", "assign"} => main.c # c
    => (IsIdle(c) <=> mixer[c] = None)

\* No chunk is freed twice and the callback never finds the table cleared, as
\* long as no channel was taken while it was in use.
NothingBroken == taken = {} => ~broken

\* Every chunk is freed in the end: nothing that is allocated is unreachable.
NoChunkIsLost ==
  taken = {} =>
    \A k \in live : k \in {main.chunk, main.old} \/ \E c \in Channels : ch[c].chunk = k

\* A channel given to a sound becomes idle again, whatever the two threads do.
ChannelsComeBack == \A c \in Channels : ~IsIdle(c) ~> IsIdle(c)

\* The same without the history: WavPlay on a channel that plays, or KoePlay after
\* KoePlay, replaces the buffer that SDL_mixer is reading.
SoundIsAlwaysOwned ==
  \A c \in Channels : mixer[c] # None => mixer[c] \in live /\ ch[c].buffer = mixer[c]

\* "The koe channel is the last one" (sound_system.hpp): effects stay off it.
VoiceKeepsItsChannel == ch[KoeChannel].player \in Voices \union {None}
=============================================================================
