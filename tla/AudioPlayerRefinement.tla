------------------------ MODULE AudioPlayerRefinement ------------------------
(***************************************************************************)
(* An AudioPlayer seen from outside its mutex is a Playhead.               *)
(***************************************************************************)
EXTENDS AudioPlayer

VARIABLE seen  \* the playhead when the loader took the lock: an auxiliary variable

\* TerminateAfterNLoops or NextLoop has the start of a pass before it
PassIsOver(command) == command.armed /\ NextStart < command.cur

\* the sample that comes next
Head ==
  IF HasBuffer THEN buffer.frame.fr
  ELSE IF PassIsOver(times) THEN Min({range.to, Length})
  ELSE IF PassIsOver(next) THEN next.from
  ELSE Max({NextStart, range.fr})

Ended == [head |-> 0, again |-> 0, stop |-> 0, passes |-> 0, status |-> "TERMINATED"]

Now ==
  [play |-> IF status = "TERMINATED" THEN Ended
            ELSE [head |-> Head,
                  again |-> IF next.armed THEN next.from ELSE range.fr,
                  stop |-> Min({range.to, Length}),
                  passes |-> IF times.armed THEN times.n ELSE -1,
                  status |-> status],
   fading |-> status # "TERMINATED" /\ ending.left > 0]

PlayerInit == Init /\ seen = Now
PlayerNext == Next /\ seen' = IF Locked' THEN seen ELSE Now'
PlayerSpec == PlayerInit /\ [][PlayerNext]_<<vars, seen>> /\ Fairness

Abstract == INSTANCE Playhead WITH
  play <- seen.play, fading <- seen.fading, Times <- MusicTimes \cup SoundTimes

\* Seen between two calls, the player is a Playhead: a block of n samples is
\* the n samples that come next, over chunks, kept remainders, clipped frames,
\* imprecise seeks and the ends of passes (LoadPCM, LoadNext, ClipFrame).
ImplementsPlayhead == Abstract!Spec

\* The loops it holds for: the jump to where the passes to come start loses
\* nothing of them, and every pass is decoded in two chunks or more.
LongLoops ==
  \A l \in Loops : l.from + Chunk <= l.loop /\ l.loop + Chunk < Min({l.to, Length})

-----------------------------------------------------------------------------
\* Every call of LoadPCM and LoadRemain comes to an end and gives the lock back.
LoadsReturn == Locked ~> ~Locked

\* Music that was given a number of passes, or told to fade out, stops playing:
\* bgmWait and bgmFadeOutEx wait for just that (unless it is paused).
FiniteMusicEnds ==
  client = "music" /\ phase = "shared" /\ (times.armed \/ ending.armed) ~> status # "PLAYING"

\* What one call collects is in order: each piece starts where the one before
\* ended, unless a pass ended there.
PiecesFollow ==
  [][Locked /\ Locked' /\ loader'.piece # loader.piece /\ Count(loader.piece) > 0
       => \/ loader'.piece.fr = loader.piece.to
          \/ /\ loader.piece.to = Min({range.to, Length})
             /\ loader'.piece.fr = range'.fr]_<<vars, seen>>
=============================================================================
