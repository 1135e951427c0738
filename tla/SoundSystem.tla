----------------------------- MODULE SoundSystem -----------------------------
(* The music of systems/sdl/sdl_sound_system.cpp: one slot, in which the     *)
(* script's opcodes (modules/module_bgm.cpp, module_sys.cpp) put players and *)
(* from which SDL's audio thread takes blocks of sound and removes players   *)
(* (OnMusic).  What a player does with its samples is AudioPlayer's; here it *)
(* has a status and a volume.  The main loop fades volumes between opcodes   *)
(* (ExecuteSoundSystem).                                                     *)
EXTENDS Integers

CONSTANTS
  Tracks,      \* the names of the music
  Levels,      \* the volumes a script asks for
  Full,        \* the loudest of them, 255
  FadeTimes,   \* the lengths of fades, in units of time
  NoTrack

ASSUME SoundAssumption ==
  /\ Full \in Nat \ {0} /\ Levels \subseteq 0 .. Full
  /\ FadeTimes \subseteq Nat \ {0}
  /\ NoTrack \notin Tracks

VARIABLES
  bgm,        \* bgm_player_
  settings,   \* settings_: bgm_enabled and bgm_volume
  fade,       \* bgm_adjustment_task_
  waiting,    \* what the script waits for: "no", "wait" (bgmWait) or "fadeout"
  heard,      \* the track OnMusic took its last block from
  asked,      \* history: the track the script wants to hear
  saved       \* history: the track that played when the game was saved

musicVars == <<bgm, settings, fade, waiting, heard, asked, saved>>
history == <<asked, saved>>
volumes == <<settings, fade>>

NoMusic == [name |-> NoTrack, looped |-> FALSE, status |-> "none", ending |-> FALSE, volume |-> 0]
NoFade == [from |-> 0, to |-> 0, past |-> 0, total |-> 0]

\* a new player is at full volume, whatever the setting
LoadMusic(t, loop) ==
  [name |-> t, looped |-> loop, status |-> "playing", ending |-> FALSE, volume |-> Full * Full]

GetBgmName == bgm.name
BgmStatus == IF bgm.status = "playing" THEN 1 ELSE 0

MusicInit ==
  /\ bgm = NoMusic
  /\ settings = [bgm_enabled |-> TRUE, bgm_volume |-> Full]
  /\ fade = NoFade
  /\ waiting = "no"
  /\ heard = NoTrack
  /\ asked = NoTrack /\ saved = NoTrack

-----------------------------------------------------------------------------
(* The script's opcodes.                                                    *)

\* a track that has the slot is not started again
BgmPlay ==
  /\ waiting = "no"
  /\ \E t \in Tracks, loop \in BOOLEAN :
       /\ bgm' = IF GetBgmName = t THEN bgm ELSE LoadMusic(t, loop)
       /\ asked' = t
  /\ UNCHANGED <<volumes, waiting, heard, saved>>

Terminated(player) == IF player = NoMusic THEN player ELSE [player EXCEPT !.status = "terminated"]

BgmStop ==
  /\ waiting = "no"
  /\ bgm' = Terminated(bgm)
  /\ asked' = NoTrack
  /\ UNCHANGED <<volumes, waiting, heard, saved>>

BgmPause ==
  /\ waiting = "no" /\ bgm.status = "playing"
  /\ bgm' = [bgm EXCEPT !.status = "paused"]
  /\ UNCHANGED <<volumes, waiting, heard, history>>

BgmUnPause ==
  /\ waiting = "no" /\ bgm.status = "paused"
  /\ bgm' = [bgm EXCEPT !.status = "playing"]
  /\ UNCHANGED <<volumes, waiting, heard, history>>

\* Mutant of FadedOut: the player is not told to stop at the end of the fade
FadedAway(player) == player

FadedOut(player) == IF player = NoMusic THEN player ELSE [player EXCEPT !.ending = TRUE]

\* bgmFadeOut, and bgmFadeOutEx, which waits
BgmFadeOut ==
  /\ waiting = "no"
  /\ bgm' = FadedOut(bgm)
  /\ waiting' \in {"no", "fadeout"}
  /\ asked' = NoTrack
  /\ UNCHANGED <<volumes, heard, saved>>

bgmWait ==
  /\ waiting = "no"
  /\ waiting' = "wait"
  /\ UNCHANGED <<volumes, bgm, heard, history>>

\* WaitLongOperation: no music plays, or the reader holds ctrl
WaitOver ==
  /\ waiting # "no" /\ BgmStatus = 0
  /\ waiting' = "no"
  /\ UNCHANGED <<volumes, bgm, heard, history>>

WaitSkipped ==
  /\ waiting # "no"
  /\ waiting' = "no"
  /\ UNCHANGED <<volumes, bgm, heard, history>>

\* the opcode SetBgmEnabled changes the setting and nothing else
ChangeSoundSettings ==
  /\ waiting = "no"
  /\ \E b \in BOOLEAN : settings' = [settings EXCEPT !.bgm_enabled = b]
  /\ UNCHANGED <<bgm, fade, waiting, heard, history>>

\* saving writes nothing of the sound; loading resets it and reads nothing
SaveGame ==
  /\ waiting = "no"
  /\ saved' = IF BgmStatus = 1 THEN GetBgmName ELSE NoTrack
  /\ UNCHANGED <<volumes, bgm, waiting, heard, asked>>

LoadGame ==
  /\ waiting' = "no"
  /\ bgm' = Terminated(bgm)
  /\ asked' = NoTrack
  /\ UNCHANGED <<volumes, heard, saved>>

-----------------------------------------------------------------------------
(* The volume.                                                              *)

\* what the player is given is the product of the setting and the level
Louder(product) == IF bgm = NoMusic THEN bgm ELSE [bgm EXCEPT !.volume = product]

\* SetBgmVolumeScript(v, 0): the level becomes the setting
SetVolumeNow(v) ==
  /\ settings' = [settings EXCEPT !.bgm_volume = v]
  /\ bgm' = Louder(v * v)

\* SetBgmVolumeScript(v, ms): a fade from the setting; the one that runs is dropped
SetVolumeLater(v, ms) ==
  /\ fade' = [from |-> settings.bgm_volume, to |-> v, past |-> 0, total |-> ms]
  /\ bgm' = Louder(settings.bgm_volume * v)
  /\ UNCHANGED settings

SetBgmVolumeScript ==
  /\ waiting = "no"
  /\ \E v \in Levels :
       \/ SetVolumeNow(v) /\ UNCHANGED fade
       \/ \E ms \in FadeTimes : SetVolumeLater(v, ms)
  /\ UNCHANGED <<waiting, heard, history>>

\* C++ division rounds toward zero
Quotient(a, b) == IF a >= 0 THEN a \div b ELSE -((-a) \div b)
calculateVolumeFor == fade.from + Quotient(fade.past * (fade.to - fade.from), fade.total)

FadeHasEnded == fade.past >= fade.total

\* Mutant of ExecuteSoundSystem: a fade that is over is dropped as it is
DropsOver ==
  /\ fade # NoFade
  /\ IF FadeHasEnded THEN UNCHANGED <<settings, bgm>> ELSE SetVolumeNow(calculateVolumeFor)
  /\ fade' = IF FadeHasEnded THEN NoFade ELSE fade
  /\ UNCHANGED <<waiting, heard, history>>

ExecuteSoundSystem ==
  /\ fade # NoFade
  /\ SetVolumeNow(IF FadeHasEnded THEN fade.to ELSE calculateVolumeFor)
  /\ fade' = IF FadeHasEnded THEN NoFade ELSE fade
  /\ UNCHANGED <<waiting, heard, history>>

\* the clock of the fade; past its end it makes no difference
TimePasses ==
  /\ fade # NoFade /\ ~FadeHasEnded
  /\ fade' = [fade EXCEPT !.past = @ + 1]
  /\ UNCHANGED <<bgm, settings, waiting, heard, history>>

-----------------------------------------------------------------------------
(* The audio thread.                                                        *)

\* a terminated player leaves the slot; another gives a block, or silence
OnMusic ==
  /\ bgm' = IF bgm.status = "terminated" THEN NoMusic ELSE bgm
  /\ heard' = IF bgm.status = "playing" THEN bgm.name ELSE NoTrack
  /\ UNCHANGED <<volumes, waiting, history>>

\* the block is the last: of a track that is not looped, or of a fade-out
LastBlock ==
  /\ bgm.status = "playing" /\ (~bgm.looped \/ bgm.ending)
  /\ bgm' = Terminated(bgm)
  /\ heard' = bgm.name
  /\ asked' = NoTrack
  /\ UNCHANGED <<volumes, waiting, saved>>

Opcodes ==
  \/ BgmPlay \/ BgmStop \/ BgmPause \/ BgmUnPause \/ BgmFadeOut \/ bgmWait
  \/ SetBgmVolumeScript \/ ChangeSoundSettings \/ SaveGame \/ LoadGame

MusicNext ==
  Opcodes \/ WaitOver \/ WaitSkipped \/ ExecuteSoundSystem \/ TimePasses \/ OnMusic \/ LastBlock

\* the main loop runs, SDL asks for blocks and tracks are finite
MusicFairness ==
  /\ WF_musicVars(WaitOver) /\ WF_musicVars(ExecuteSoundSystem) /\ WF_musicVars(TimePasses)
  /\ WF_musicVars(OnMusic) /\ SF_musicVars(LastBlock)

MusicSpec == MusicInit /\ [][MusicNext]_musicVars /\ MusicFairness
-----------------------------------------------------------------------------
(* Properties.                                                              *)

MusicTypeOK ==
  /\ bgm \in [name : Tracks \union {NoTrack}, looped : BOOLEAN, ending : BOOLEAN,
              status : {"none", "playing", "paused", "terminated"}, volume : 0 .. Full * Full]
  /\ settings \in [bgm_enabled : BOOLEAN, bgm_volume : 0 .. Full]
  /\ {fade.from, fade.to} \subseteq 0 .. Full /\ fade.past \in 0 .. fade.total
  /\ waiting \in {"no", "wait", "fadeout"}
  /\ {heard, asked, saved} \subseteq Tracks \union {NoTrack}

\* A script that waits for music that is to end goes on: the music is faded out
\* (bgmFadeOutEx) or not looped (bgmWait).
MusicIsWaitedFor == waiting = "fadeout" \/ (waiting = "wait" /\ ~bgm.looped) ~> waiting = "no"

\* A stopped player leaves the slot, so that its track can be asked for again.
SlotIsFreed == bgm.status = "terminated" ~> bgm.status # "terminated"

\* When a fade is over the music plays at the level that was asked for, and only
\* the end of a fade or another fade removes it (ExecuteSoundSystem).
FadeArrives ==
  [][fade # NoFade /\ fade' = NoFade =>
       settings'.bgm_volume = fade.to /\ bgm'.volume \in {0, fade.to * fade.to}]_musicVars

\* "Whether music playback is enabled" (sound_settings.hpp): music that is not
\* enabled falls silent.
DisabledMeansSilent == ~settings.bgm_enabled ~> (heard = NoTrack \/ settings.bgm_enabled)

\* BgmLooping "is used for serialization" (sdl_sound_system.cpp): a loaded game
\* has the music of the saved one.
LoadedGameHasItsMusic ==
  [][LoadGame /\ saved # NoTrack => bgm'.name = saved /\ bgm'.status = "playing"]_musicVars

\* A track that is asked for plays (not when the same
\* track was stopped and the audio thread has not come by yet).
AskedMeansPlaying == asked # NoTrack => bgm.name = asked /\ bgm.status \in {"playing", "paused"}
=============================================================================
