------------------------------ MODULE Playhead -------------------------------
(***************************************************************************)
(* What an AudioPlayer promises: a playhead over the samples of a source.  *)
(* A block of n samples moves it n samples on.  From the end of a pass it  *)
(* goes back to where the passes to come start, as often as it was told;   *)
(* then, and when it is stopped or has faded out, it has ended for good.   *)
(* There are no chunks, buffers, seeks or locks here.                      *)
(***************************************************************************)
EXTENDS Integers, FiniteSetsExt

CONSTANTS Length, Requests, Loops, Times, Clients

VARIABLES client, phase, play, fading

Ended == [head |-> 0, again |-> 0, stop |-> 0, passes |-> 0, status |-> "TERMINATED"]

\* for ever: the end of a pass is the start of the one after it
Turned(p) == IF p.head = p.stop /\ p.passes = -1 THEN [p EXCEPT !.head = p.again] ELSE p

\* one sample: the passes are counted when a sample beyond the end is wanted
Step(p) ==
  IF p.head < p.stop THEN Turned([p EXCEPT !.head = @ + 1])
  ELSE IF p.passes = 0 THEN Ended
  ELSE Turned([p EXCEPT !.head = p.again + 1, !.passes = @ - 1])

\* n of them; what has ended stays so
Moved(p, n) ==
  LET after[k \in 0 .. n] == IF k = 0 THEN p ELSE Step(after[k - 1])
  IN after[n]

Init ==
  /\ client \in Clients
  /\ phase = IF client = "voice" THEN "shared" ELSE "new"
  /\ play = [head |-> 0, again |-> 0, stop |-> Length, passes |-> -1, status |-> "PLAYING"]
  /\ fading = FALSE

SetLoop(l) ==
  /\ client = "music" /\ phase = "new" /\ phase' = "looped"
  /\ play' = [play EXCEPT !.head = l.from, !.again = l.loop, !.stop = Min({l.to, Length})]
  /\ UNCHANGED <<client, fading>>

SetTimes(n) ==
  /\ phase = IF client = "music" THEN "looped" ELSE "new"
  /\ phase' = "shared"
  /\ play' = [play EXCEPT !.passes = n]
  /\ UNCHANGED <<client, fading>>

\* a block; a fade-out may end inside it
PlayBlock(n) ==
  /\ client = "music" /\ phase = "shared" /\ play.status = "PLAYING"
  /\ \/ play' = Moved(play, n)
     \/ fading /\ play' = Ended
  /\ fading' = (fading /\ play' # Ended)
  /\ UNCHANGED <<client, phase>>

\* everything there is left to play
PlayRest ==
  /\ client # "music" /\ phase = "shared" /\ play.status = "PLAYING"
  /\ play' = Ended
  /\ UNCHANGED <<client, phase, fading>>

Steer ==
  /\ client = "music" /\ phase = "shared"
  /\ \/ play.status = "PLAYING" /\ play' = [play EXCEPT !.status = "PAUSED"] /\ UNCHANGED fading
     \/ play.status = "PAUSED" /\ play' = [play EXCEPT !.status = "PLAYING"] /\ UNCHANGED fading
     \/ play' = Ended /\ fading' = FALSE
     \/ play.status # "TERMINATED" /\ fading' = TRUE /\ UNCHANGED play
  /\ UNCHANGED <<client, phase>>

Next ==
  \/ \E l \in Loops : SetLoop(l)
  \/ \E n \in Times : SetTimes(n)
  \/ \E n \in Requests : PlayBlock(n)
  \/ PlayRest
  \/ Steer

Spec == Init /\ [][Next]_<<client, phase, play, fading>>
=============================================================================
