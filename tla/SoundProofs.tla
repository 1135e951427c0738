----------------------------- MODULE SoundProofs -----------------------------
(***************************************************************************)
(* The three parts of the sound.                                           *)
(*                                                                         *)
(* The player (AudioPlayer), for every source, every chunk, every set of   *)
(* block sizes, loops and fades: the types, TerminatedIsFinal and          *)
(* BufferInLoop.  What a call keeps is the end of the last piece it        *)
(* collected, so the induction carries that piece: once a call has what    *)
(* was asked, its last piece is inside the loop, ends where the reader or  *)
(* the loop does, and is longer than what is too much.                     *)
(*                                                                         *)
(* Between two calls the player is a Playhead.  PInv says what the reader, *)
(* the remainder and the passes left have to do with each other; during a  *)
(* call, where the head comes to is where it was, moved by what has been   *)
(* collected (Collected).                                                  *)
(*                                                                         *)
(* The channels (SoundChannels), for any number of channels, sounds and    *)
(* chunks: what both threads keep of the channel table; the invariant      *)
(* Parts is inductive.                                                     *)
(*                                                                         *)
(* The music (SoundSystem), for any tracks, levels and lengths of fades:   *)
(* the range of volumes, by the arithmetic of calculateVolumeFor, and      *)
(* FadeArrives.                                                            *)
(***************************************************************************)
EXTENDS AudioPlayerRefinement, SoundChannels, SoundSystem, WellFoundedInduction, TLAPS


-----------------------------------------------------------------------------
(* The player: helpers *)

\* Min and Max of two numbers.
LEMMA MinOfTwo == \A a, b \in Int : Min({a, b}) = IF a <= b THEN a ELSE b
  BY DEF Min

LEMMA MaxOfTwo == \A a, b \in Int : Max({a, b}) = IF a >= b THEN a ELSE b
  BY DEF Max

\* A seek lands in the source, not beyond the sample that was asked for.
LEMMA SeekLands ==
  ASSUME precise \in BOOLEAN, NEW p \in 0 .. Length - 1
  PROVE  SeekTo(p) \in 0 .. p
<1>1. (p \div Chunk) * Chunk \in 0 .. p
  BY SourceAssumption, SMTT(20)
<1> QED
  BY <1>1, SourceAssumption DEF SeekTo

\* Loops are not empty, and lie in the source as far as they can be read.
RangesOK ==
  /\ range.fr < range.to
  /\ next.armed => next.from < next.to /\ next.to \in 1 .. Npos

\* A frame and its clipped part are intervals of the source and of the loop.
LEMMA ClipLands ==
  ASSUME NEW a \in 0 .. Length, NEW b \in 0 .. Length, a <= b,
         NEW r \in [on : BOOLEAN, fr : 0 .. Length - 1, to : 1 .. Npos], r.fr < r.to
  PROVE  LET c == ClipFrame(Frame(a, b), r) IN
         /\ c \in [fr : 0 .. Length, to : 0 .. Length]
         /\ c.fr <= c.to
         /\ Count(c) # 0 => /\ c.fr >= r.fr
                            /\ c.to <= r.to
                            /\ c.to \in {b, r.to}
<1>1. Length \in Nat \ {0} /\ Npos \in Nat
  BY SourceAssumption DEF Npos
<1>2. CASE b < r.fr \/ r.to <= a \/ b - a = 0
  BY <1>1, <1>2 DEF ClipFrame, Frame, NoFrame, Count
<1>3. CASE ~(b < r.fr \/ r.to <= a \/ b - a = 0)
  <2>1. ClipFrame(Frame(a, b), r) = Frame(Max({a, r.fr}), Min({b, r.to}))
    BY <1>3 DEF ClipFrame, Frame, Count
  <2>2. /\ Max({a, r.fr}) = IF a >= r.fr THEN a ELSE r.fr
        /\ Min({b, r.to}) = IF b <= r.to THEN b ELSE r.to
    BY <1>1, MinOfTwo, MaxOfTwo
  <2> QED
    BY <1>1, <1>3, <2>1, <2>2 DEF Frame, Count
<1> QED
  BY <1>2, <1>3

-----------------------------------------------------------------------------
(* One frame *)

\* What LoadNext leaves: a reader inside the source, loops that are not empty,
\* and a frame that starts and ends in the source.
LEMMA LoadNextTypes ==
  ASSUME TypeOK, RangesOK, Loaded
  PROVE  /\ NextStart \in 0 .. Length - 1
         /\ NextEnd \in NextStart + 1 .. Length
         /\ TellInLoop \in 0 .. Length
         /\ RangeAfter \in [on : BOOLEAN, fr : 0 .. Length - 1, to : 1 .. Npos]
         /\ RangeAfter.fr < RangeAfter.to
         /\ NextAfter \in [armed : BOOLEAN, from : 0 .. Length - 1,
                           to : 0 .. Npos, cur : 0 .. Length]
         /\ NextAfter.armed => NextAfter.from < NextAfter.to /\ NextAfter.to \in 1 .. Npos
         /\ TimesAfter \in [armed : BOOLEAN, n : Nat, cur : Int]
         /\ EndingAfter \in [armed : BOOLEAN, left : Nat]
<1> USE SourceAssumption
<1>1. Npos \in Nat /\ Npos >= Length
  BY DEF Npos
<1>2. SeekTo(range.fr) \in 0 .. Length - 1 /\ SeekTo(next.from) \in 0 .. Length - 1
  BY SeekLands DEF TypeOK
<1>3. NextStart \in 0 .. Length - 1
  BY <1>2 DEF NextStart, Loaded, HasNext, TypeOK
<1>4. NextEnd \in NextStart + 1 .. Length
  BY <1>3, MinOfTwo DEF NextEnd
<1>5. TellInLoop \in 0 .. Length
  BY <1>2, <1>3, <1>4 DEF TellInLoop, TellAfter
<1>6. /\ RangeAfter \in [on : BOOLEAN, fr : 0 .. Length - 1, to : 1 .. Npos]
      /\ RangeAfter.fr < RangeAfter.to
  BY DEF RangeAfter, EntersNextLoop, RangesOK, TypeOK
<1>7. /\ NextAfter \in [armed : BOOLEAN, from : 0 .. Length - 1,
                        to : 0 .. Npos, cur : 0 .. Length]
      /\ NextAfter.armed => NextAfter.from < NextAfter.to /\ NextAfter.to \in 1 .. Npos
  <2>1. CASE EntersNextLoop
    BY <1>1, <2>1 DEF NextAfter, NoNextLoop
  <2>2. CASE ~EntersNextLoop /\ next.armed
    BY <1>3, <2>2 DEF NextAfter, NextLoop, RangesOK, TypeOK
  <2>3. CASE ~EntersNextLoop /\ ~next.armed
    BY <2>3 DEF NextAfter, TypeOK
  <2> QED
    BY <2>1, <2>2, <2>3
<1>8. TimesAfter \in [armed : BOOLEAN, n : Nat, cur : Int]
  BY <1>3 DEF TimesAfter, TimesLeft, PassesAreOver, AfterNLoops, NoTimes, TypeOK
<1>9. EndingAfter \in [armed : BOOLEAN, left : Nat]
  <2>1. Count(NextFrame) \in Int
    BY <1>3, <1>4 DEF NextFrame, Count, NoFrame, Frame
  <2> QED
    BY <2>1 DEF EndingAfter, SamplesLeft, NoEnding, TypeOK
<1> QED
  BY <1>3, <1>4, <1>5, <1>6, <1>7, <1>8, <1>9

\* A frame that was not dropped was clipped by the loop it was decoded in; its
\* part inside ends where the reader stands, or where the loop or the source end.
LEMMA PieceInLoop ==
  ASSUME TypeOK, RangesOK, Loaded
  PROVE  LET piece == ClipFrame(NextFrame, RangeAfter) IN
         /\ piece \in [fr : 0 .. Length, to : 0 .. Length]
         /\ piece.fr <= piece.to
         /\ Count(piece) # 0 => /\ piece.fr >= RangeAfter.fr
                                /\ piece.to <= RangeAfter.to
                                /\ piece.to \in {TellInLoop, RangeAfter.to, Length}
<1> DEFINE piece == ClipFrame(NextFrame, RangeAfter)
<1>1. /\ NextStart \in 0 .. Length - 1
      /\ NextEnd \in NextStart + 1 .. Length
      /\ RangeAfter \in [on : BOOLEAN, fr : 0 .. Length - 1, to : 1 .. Npos]
      /\ RangeAfter.fr < RangeAfter.to
  BY LoadNextTypes
<1>2. CASE NextFrame = NoFrame
  <2>1. piece = NoFrame
    BY <1>2 DEF ClipFrame, Count, NoFrame, Frame
  <2> QED
    BY <2>1, SourceAssumption DEF NoFrame, Frame, Count
<1>3. CASE NextFrame # NoFrame
  <2>1. NextFrame = Frame(NextStart, NextEnd) /\ ~EntersNextLoop
    BY <1>3 DEF NextFrame
  <2>2. /\ piece \in [fr : 0 .. Length, to : 0 .. Length]
        /\ piece.fr <= piece.to
        /\ Count(piece) # 0 => /\ piece.fr >= RangeAfter.fr
                               /\ piece.to <= RangeAfter.to
                               /\ piece.to \in {NextEnd, RangeAfter.to}
    <3>1. NextStart \in 0 .. Length /\ NextEnd \in 0 .. Length /\ NextStart <= NextEnd
      BY <1>1, SourceAssumption
    <3> HIDE DEF piece
    <3>2. piece = ClipFrame(Frame(NextStart, NextEnd), RangeAfter)
      BY <2>1 DEF piece
    <3> QED
      BY <1>1, <3>1, <3>2, ClipLands
  <2>3. NextEnd \in {TellInLoop, Length}
    BY <2>1 DEF TellInLoop, TellAfter, EndOfPlayback
  <2> QED
    BY <2>2, <2>3
<1> QED
  BY <1>2, <1>3

-----------------------------------------------------------------------------
(* The inductive invariant *)

\* what is kept is an interval
BufferFits == buffer.frame.fr <= buffer.frame.to

\* what the call in progress has collected
LoaderOK ==
  /\ loader.pc \in {"want", "pcm"} => client = "music" /\ phase = "shared"
  /\ loader.pc = "remain" => client # "music"
  /\ loader.pc = "want" => loader.request > 0
  /\ loader.pc = "pcm" => ~HasBuffer /\ loader.request > 0
  /\ client = "music" /\ phase # "shared" => ~HasBuffer

\* once it is enough, the last piece is longer than what is too much
Enough ==
  loader.pc = "pcm" /\ loader.got >= loader.request =>
    /\ loader.got - Count(loader.piece) < loader.request
    /\ loader.piece.fr >= range.fr
    /\ loader.piece.to <= range.to
    /\ loader.piece.to \in {tell, range.to, Length}

IInv == TypeOK /\ RangesOK /\ BufferFits /\ LoaderOK /\ Enough /\ BufferInLoop

LEMMA InitIInv == Init => IInv
<1> SUFFICES ASSUME Init PROVE IInv
  OBVIOUS
<1> USE SourceAssumption
<1>1. Npos \in Nat /\ Npos >= Length /\ Npos > 0
  BY DEF Npos
<1>2. ~HasBuffer
  BY DEF Init, HasBuffer, NoBuffer, Count, NoFrame, Frame
<1>3. TypeOK
  BY <1>1 DEF Init, TypeOK, NoBuffer, NoFrame, Frame, Idle, Call, NoNextLoop, NoTimes, NoEnding
<1>4. RangesOK /\ BufferFits /\ LoaderOK /\ Enough /\ BufferInLoop
  BY <1>1, <1>2 DEF Init, RangesOK, BufferFits, LoaderOK, Enough, BufferInLoop, Idle, NoNextLoop, Call,
      NoBuffer, NoFrame, Frame
<1> QED
  BY <1>3, <1>4 DEF IInv

\* Steps that touch neither the samples nor the call keep everything.
LEMMA SteerStep ==
  ASSUME IInv, TypeOK', UNCHANGED <<setup, tell, range, buffer, next, loader>>
  PROVE  IInv'
BY DEF IInv, RangesOK, BufferFits, LoaderOK, Enough, BufferInLoop, setup, HasBuffer, Count

\* Setting up happens before anything was decoded.
LEMMA SetPLoopStep ==
  ASSUME IInv, NEW l \in Loops, SetPLoop(l)
  PROVE  IInv'
<1> USE SourceAssumption DEF setup, commands
<1>1. /\ l.from \in 0 .. Length - 1 /\ l.to \in l.from + 1 .. Npos
      /\ l.loop \in 0 .. Length - 1 /\ l.loop < l.to
  BY LoopAssumption
<1>2. Npos \in Nat
  BY DEF Npos
<1>3. ~HasBuffer /\ loader.pc \notin {"want", "pcm"}
  BY DEF SetPLoop, IInv, LoaderOK
<1>4. SeekTo(l.from) \in 0 .. l.from
  BY <1>1, SeekLands DEF IInv, TypeOK
<1>5. buffer' \in {buffer, NoBuffer} /\ tell' \in {tell, SeekTo(l.from)}
  BY DEF SetPLoop, SetLoopImpl
<1>6. ~HasBuffer'
  BY <1>3, <1>5 DEF HasBuffer, NoBuffer, NoFrame, Frame, Count
<1>7. range' = [on |-> TRUE, fr |-> l.from, to |-> l.to]
      /\ next' = [armed |-> TRUE, from |-> l.loop, to |-> l.to, cur |-> tell']
  BY DEF SetPLoop, SetLoopImpl, NextLoop
<1>8. TypeOK'
  BY <1>1, <1>2, <1>4, <1>5, <1>7 DEF SetPLoop, IInv, TypeOK, NoBuffer, NoFrame, Frame
<1>9. BufferFits'
  BY <1>5 DEF IInv, BufferFits, NoBuffer, NoFrame, Frame
<1>10. RangesOK' /\ LoaderOK' /\ Enough' /\ BufferInLoop'
  BY <1>1, <1>2, <1>3, <1>6, <1>7
  DEF SetPLoop, IInv, RangesOK, LoaderOK, Enough, BufferInLoop
<1> QED
  BY <1>8, <1>9, <1>10 DEF IInv

LEMMA SetLoopTimesStep ==
  ASSUME IInv, NEW n \in MusicTimes \cup SoundTimes, SetLoopTimes(n)
  PROVE  IInv'
<1> USE DEF setup, commands
<1>1. n \in Int
  BY TimesAssumption
<1>2. TypeOK'
  BY <1>1 DEF SetLoopTimes, IInv, TypeOK, PcmLocation, AfterNLoops, NoTimes
<1>3. HasBuffer' = HasBuffer /\ range'.fr = range.fr /\ range'.to = range.to
  BY DEF SetLoopTimes, IInv, TypeOK, HasBuffer, Count
<1>4. RangesOK' /\ BufferFits' /\ LoaderOK' /\ Enough' /\ BufferInLoop'
  BY <1>3 DEF SetLoopTimes, IInv, TypeOK, RangesOK, BufferFits, LoaderOK, Enough, BufferInLoop, Count
<1> QED
  BY <1>2, <1>4 DEF IInv

\* LoadPCM
LEMMA WantPCMStep ==
  ASSUME IInv, NEW n \in Requests, WantPCM(n)
  PROVE  IInv'
<1> USE SourceAssumption DEF setup, commands
<1>1. n \in Nat /\ n > 0
  BY RequestAssumption
<1>2. TypeOK'
  BY <1>1 DEF WantPCM, IInv, TypeOK, Call, NoFrame, Frame
<1>3. RangesOK' /\ BufferFits' /\ LoaderOK' /\ Enough' /\ BufferInLoop'
  BY <1>1 DEF WantPCM, IInv, RangesOK, BufferFits, LoaderOK, Enough, BufferInLoop, HasBuffer, Count, Call
<1> QED
  BY <1>2, <1>3 DEF IInv

LEMMA LockPCMStep ==
  ASSUME IInv, LockPCM
  PROVE  IInv'
<1> USE SourceAssumption DEF setup, commands
<1>1. CASE status = "PLAYING"
  <2>1. ~HasBuffer'
    BY <1>1 DEF LockPCM, HasBuffer, NoBuffer, NoFrame, Frame, Count
  <2>2. loader' = Call("pcm", loader.request, Count(buffer.frame), buffer.frame,
                       tell, buffer.gain)
    BY <1>1 DEF LockPCM
  <2>3. TypeOK'
    BY <1>1, <2>2 DEF LockPCM, IInv, TypeOK, BufferFits, Call, NoBuffer, NoFrame, Frame, Count
  <2>4. RangesOK' /\ BufferFits' /\ LoaderOK' /\ BufferInLoop'
    BY <1>1, <2>1, <2>2 DEF LockPCM, IInv, RangesOK, BufferFits, LoaderOK, BufferInLoop, Call,
        NoBuffer, NoFrame, Frame
  <2>5. Enough'
    BY <1>1, <2>2 DEF LockPCM, IInv, TypeOK, LoaderOK, BufferInLoop, BufferFits, Enough, HasBuffer, Count, Call
  <2> QED
    BY <2>3, <2>4, <2>5 DEF IInv
<1>2. CASE status # "PLAYING"
  <2>1. TypeOK'
    BY <1>2 DEF LockPCM, IInv, TypeOK, Idle, Call, NoFrame, Frame
  <2>2. RangesOK' /\ BufferFits' /\ LoaderOK' /\ Enough' /\ BufferInLoop'
    BY <1>2 DEF LockPCM, IInv, RangesOK, BufferFits, LoaderOK, Enough, BufferInLoop, HasBuffer, Count, Idle, Call
  <2> QED
    BY <2>1, <2>2 DEF IInv
<1> QED
  BY <1>1, <1>2

\* LoadNext as it changes the state, and the buffer it leaves alone.
LEMMA PulledTypes ==
  ASSUME IInv, LoadNext
  PROVE  /\ tell' = TellInLoop /\ range' = RangeAfter /\ next' = NextAfter
         /\ tell' \in 0 .. Length
         /\ range' \in [on : BOOLEAN, fr : 0 .. Length - 1, to : 1 .. Npos]
         /\ next' \in [armed : BOOLEAN, from : 0 .. Length - 1,
                       to : 0 .. Npos, cur : 0 .. Length]
         /\ times' \in [armed : BOOLEAN, n : Nat, cur : Int]
         /\ ending' \in [armed : BOOLEAN, left : Nat]
         /\ status' \in {"PLAYING", "PAUSED", "TERMINATED"}
         /\ RangesOK'
<1>1. TypeOK /\ RangesOK /\ Loaded
  BY DEF IInv, LoadNext
<1> QED
  BY <1>1, LoadNextTypes DEF LoadNext, RangesOK, StatusAfter

LEMMA PullPCMStep ==
  ASSUME IInv, PullPCM
  PROVE  IInv'
<1> USE SourceAssumption DEF setup, commands
<1> DEFINE piece == ClipFrame(NextFrame, RangeAfter)
<1>1. LoadNext /\ Loaded /\ TypeOK /\ RangesOK
  BY DEF PullPCM, LoadNext, IInv
<1>2. /\ tell' = TellInLoop /\ range' = RangeAfter /\ tell' \in 0 .. Length
      /\ RangesOK'
  BY <1>1, PulledTypes
<1>3. /\ piece \in [fr : 0 .. Length, to : 0 .. Length]
      /\ piece.fr <= piece.to
      /\ Count(piece) # 0 => /\ piece.fr >= RangeAfter.fr
                             /\ piece.to <= RangeAfter.to
                             /\ piece.to \in {TellInLoop, RangeAfter.to, Length}
  BY <1>1, PieceInLoop
<1>4. NextStart \in Int
  BY <1>1, LoadNextTypes
<1> HIDE DEF piece
<1>5. \/ loader' = loader
      \/ loader' = Call("pcm", loader.request, loader.got, loader.piece, NextStart, loader.gain)
      \/ /\ Count(piece) # 0
         /\ loader' = Call("pcm", loader.request, loader.got + Count(piece), piece, piece.to, 0)
  BY DEF PullPCM, piece
<1>6. /\ loader'.pc = "pcm" /\ loader'.request = loader.request
      /\ \/ loader'.got = loader.got /\ loader'.piece = loader.piece
         \/ /\ Count(piece) # 0
            /\ loader'.got = loader.got + Count(piece) /\ loader'.piece = piece
  BY <1>5 DEF Call, PullPCM
<1>7. Count(piece) \in Nat
  BY <1>3 DEF Count
<1>8. TypeOK'
  <2>1. loader' \in [pc : {"idle", "want", "pcm", "remain"}, request : Nat, got : Nat,
                     piece : [fr : 0 .. Length, to : 0 .. Length], cur : Int, gain : Nat]
    BY <1>1, <1>3, <1>4, <1>5, <1>7 DEF TypeOK, Call
  <2> QED
    BY <1>1, <2>1, PulledTypes DEF PullPCM, IInv, TypeOK
<1>9. Enough'
  <2>1. loader.got < loader.request /\ loader.got \in Nat /\ loader.request \in Nat
    BY DEF PullPCM, IInv, TypeOK
  <2> QED
    BY <1>2, <1>3, <1>6, <1>7, <2>1 DEF Enough
<1>10. BufferFits' /\ LoaderOK' /\ BufferInLoop'
  BY <1>6 DEF PullPCM, IInv, LoaderOK, BufferFits, BufferInLoop, HasBuffer, Count
<1> QED
  BY <1>2, <1>8, <1>9, <1>10 DEF IInv

LEMMA FinishPCMStep ==
  ASSUME IInv, FinishPCM
  PROVE  IInv'
<1> USE SourceAssumption DEF setup, commands
<1> DEFINE excess == loader.got - loader.request
<1>1. loader' = Idle /\ loader.pc = "pcm" /\ client = "music" /\ phase = "shared"
  BY DEF FinishPCM, IInv, LoaderOK
<1>2. CASE excess <= 0
  <2>1. buffer' = buffer
    BY <1>2 DEF FinishPCM
  <2> QED
    BY <1>1, <2>1 DEF FinishPCM, IInv, TypeOK, RangesOK, BufferFits, LoaderOK, Enough,
                     BufferInLoop, HasBuffer, Count, Idle, Call, NoFrame, Frame
<1>3. CASE excess > 0
  <2>1. /\ excess \in Nat /\ excess < Count(loader.piece)
        /\ loader.piece.fr >= range.fr
        /\ loader.piece.to <= range.to
        /\ loader.piece.to \in {tell, range.to, Length}
    BY <1>1, <1>3 DEF IInv, TypeOK, Enough, Count
  <2>2. buffer' = [frame |-> Frame(loader.piece.to - excess, loader.piece.to),
                   cur |-> loader.cur - excess, gain |-> loader.gain + 1]
    <3>1. excess \in Int /\ ~(excess <= 0)
      BY <1>3 DEF IInv, TypeOK
    <3> QED
      BY <3>1 DEF FinishPCM
  <2>3. /\ buffer'.frame.fr = loader.piece.to - excess
        /\ buffer'.frame.to = loader.piece.to
    BY <2>2 DEF Frame
  <2>4. TypeOK'
    BY <1>1, <2>1, <2>2 DEF FinishPCM, IInv, TypeOK, Frame, Count, Idle, Call, NoFrame
  <2>5. BufferFits' /\ BufferInLoop'
    BY <1>1, <2>1, <2>3 DEF FinishPCM, IInv, TypeOK, BufferFits, BufferInLoop, Count
  <2>6. RangesOK' /\ LoaderOK' /\ Enough'
    BY <1>1 DEF FinishPCM, IInv, RangesOK, LoaderOK, Enough, Idle, Call
  <2> QED
    BY <2>4, <2>5, <2>6 DEF IInv
<1>4. excess \in Int
  BY DEF IInv, TypeOK
<1> QED
  BY <1>2, <1>3, <1>4

\* LoadRemain, which music never sees
LEMMA LockRemainStep ==
  ASSUME IInv, LockRemain
  PROVE  IInv'
<1> USE SourceAssumption DEF setup, commands
<1>1. loader' = Call("remain", 0, 0, buffer.frame, PcmLocation, buffer.gain) /\ client # "music"
  BY DEF LockRemain
<1>2. TypeOK'
  BY <1>1 DEF LockRemain, IInv, TypeOK, PcmLocation, Call, NoBuffer, NoFrame, Frame
<1>3. RangesOK' /\ BufferFits' /\ LoaderOK' /\ Enough' /\ BufferInLoop'
  BY <1>1 DEF LockRemain, IInv, RangesOK, BufferFits, LoaderOK, Enough, BufferInLoop,
              Call, NoBuffer, NoFrame, Frame
<1> QED
  BY <1>2, <1>3 DEF IInv

LEMMA PullRemainStep ==
  ASSUME IInv, PullRemain
  PROVE  IInv'
<1> USE SourceAssumption DEF setup, commands
<1> DEFINE piece == ClipFrame(NextFrame, RangeAfter)
<1>1. LoadNext /\ Loaded /\ TypeOK /\ RangesOK /\ client # "music"
  BY DEF PullRemain, LoadNext, IInv, LoaderOK
<1>2. RangesOK'
  BY <1>1, PulledTypes
<1>3. piece \in [fr : 0 .. Length, to : 0 .. Length]
  BY <1>1, PieceInLoop
<1>4. NextStart \in 0 .. Length - 1 /\ NextEnd \in NextStart + 1 .. Length
  BY <1>1, LoadNextTypes
<1>5. NextFrame \in [fr : 0 .. Length, to : 0 .. Length] /\ NextFrame.fr <= NextFrame.to
  BY <1>4 DEF NextFrame, Frame, NoFrame
<1>6. loader' \in {Call("remain", 0, 0, piece, loader.cur, 0), Idle}
  BY DEF PullRemain
<1>7. \/ buffer' = buffer
      \/ buffer' = [frame |-> NextFrame, cur |-> NextStart, gain |-> 0]
  BY DEF PullRemain
<1> HIDE DEF piece
<1>8. TypeOK'
  <2>1. loader' \in [pc : {"idle", "want", "pcm", "remain"}, request : Nat, got : Nat,
                     piece : [fr : 0 .. Length, to : 0 .. Length], cur : Int, gain : Nat]
    BY <1>1, <1>3, <1>6 DEF TypeOK, Call, Idle, NoFrame, Frame
  <2>2. buffer' \in [frame : [fr : 0 .. Length, to : 0 .. Length], cur : Int, gain : Nat]
    BY <1>1, <1>4, <1>5, <1>7 DEF TypeOK
  <2> QED
    BY <1>1, <2>1, <2>2, PulledTypes DEF PullRemain, IInv, TypeOK
<1>9. BufferFits' /\ LoaderOK' /\ Enough' /\ BufferInLoop'
  BY <1>1, <1>5, <1>6, <1>7 DEF PullRemain, IInv, BufferFits, LoaderOK, Enough, BufferInLoop,
                               Call, Idle
<1> QED
  BY <1>2, <1>8, <1>9 DEF IInv

LEMMA FinishRemainStep ==
  ASSUME IInv, FinishRemain
  PROVE  IInv'
<1> USE SourceAssumption DEF setup, commands
<1>1. TypeOK'
  BY DEF FinishRemain, IInv, TypeOK, Idle, Call, NoFrame, Frame
<1>2. RangesOK' /\ BufferFits' /\ LoaderOK' /\ Enough' /\ BufferInLoop'
  BY DEF FinishRemain, IInv, RangesOK, BufferFits, LoaderOK, Enough, BufferInLoop,
         HasBuffer, Count, Idle, Call
<1> QED
  BY <1>1, <1>2 DEF IInv

\* Control
LEMMA FadeOutStep ==
  ASSUME IInv, NEW f \in Fades, FadeOut(f)
  PROVE  IInv'
<1>1. f \in Nat
  BY FadeAssumption
<1>2. ending.left \in Nat
  BY DEF IInv, TypeOK
<1>3. /\ Min({ending.left, f}) = IF ending.left <= f THEN ending.left ELSE f
      /\ Max({ending.left, f}) = IF ending.left >= f THEN ending.left ELSE f
  BY <1>1, <1>2, MinOfTwo, MaxOfTwo
<1>4. ending' = [armed |-> TRUE, left |-> ending'.left] /\ ending'.left \in Nat
  BY <1>1, <1>2, <1>3 DEF FadeOut
<1>5. TypeOK'
  BY <1>4 DEF FadeOut, IInv, TypeOK, setup
<1> QED
  BY <1>5, SteerStep DEF FadeOut

LEMMA OtherSteers ==
  ASSUME IInv, WantPause \/ Pause \/ WantUnpause \/ Unpause \/ Terminate
  PROVE  IInv'
<1>1. TypeOK'
  BY DEF WantPause, Pause, WantUnpause, Unpause, Terminate, IInv, TypeOK, setup, commands
<1> QED
  BY <1>1, SteerStep DEF WantPause, Pause, WantUnpause, Unpause, Terminate, commands

LEMMA NextIInv == IInv /\ [Next]_vars => IInv'
<1> SUFFICES ASSUME IInv, [Next]_vars PROVE IInv'
  OBVIOUS
<1>1. CASE SetUp
  BY <1>1, SetPLoopStep, SetLoopTimesStep DEF SetUp
<1>2. CASE WantBlock
  BY <1>2, WantPCMStep DEF WantBlock
<1>3. CASE Load
  BY <1>3, LockPCMStep, PullPCMStep, FinishPCMStep, LockRemainStep, PullRemainStep,
     FinishRemainStep DEF Load
<1>4. CASE Steer
  BY <1>4, FadeOutStep, OtherSteers DEF Steer
<1>5. CASE UNCHANGED vars
  <2>1. TypeOK'
    BY <1>5 DEF vars, setup, commands, IInv, TypeOK
  <2> QED
    BY <1>5, <2>1, SteerStep DEF vars, commands
<1> QED
  BY <1>1, <1>2, <1>3, <1>4, <1>5 DEF Next

\* IInv holds in every state the player and its callers can reach.
THEOREM InductiveInvariant == Spec => []IInv
BY InitIInv, NextIInv, PTL DEF Spec

-----------------------------------------------------------------------------
(* What follows for the player *)

\* The types hold: in particular the reader never leaves the source, and what is
\* kept never has negative length (LoadNext, LoadPCM).
THEOREM TypeCorrect == Spec => []TypeOK
<1>1. IInv => TypeOK
  BY DEF IInv
<1> QED
  BY <1>1, InductiveInvariant, PTL

\* No remainder holds a sample the loop leaves out (LoadPCM, ClipFrame).
THEOREM BufferStaysInLoop == Spec => []BufferInLoop
<1>1. IInv => BufferInLoop
  BY DEF IInv
<1> QED
  BY <1>1, InductiveInvariant, PTL

\* A stopped player stays stopped, whatever Pause and Unpause saw before they
\* had the lock (AudioPlayer::Pause, Unpause, LoadPCM, LoadRemain).
THEOREM StoppedForGood == Spec => TerminatedIsFinal
<1>1. [Next]_vars => (status = "TERMINATED" => status' = "TERMINATED")
  BY DEF Next, SetUp, WantBlock, Load, Steer, SetPLoop, SetLoopTimes, WantPCM, LockPCM, PullPCM,
         FinishPCM, LockRemain, PullRemain, FinishRemain, LoadNext, Loaded, WantPause, Pause,
         WantUnpause, Unpause, Terminate, FadeOut, vars
<1> QED
  BY <1>1, PTL DEF Spec, TerminatedIsFinal

-----------------------------------------------------------------------------
(* The playhead: what Moved computes.  It is a recursive function, so what *)
(* holds after every number of samples is shown by AllNumbers.              *)

\* Moved, spelt out: where the head is after each of n samples.
HeadRun(p, n, f) == f = [k \in 0 .. n |-> IF k = 0 THEN p ELSE Abstract!Step(f[k - 1])]

\* A set of numbers that holds 0 and the successor of each of its members.
LEMMA AllNumbers ==
  ASSUME NEW S \in SUBSET Nat, 0 \in S, \A k \in S : k + 1 \in S
  PROVE  S = Nat
<1> DEFINE R == {ss \in Nat \X Nat : ss[1] < ss[2]}
<1> SUFFICES ASSUME Nat \ S # {} PROVE FALSE
  OBVIOUS
<1>1. IsWellFoundedOn(R, Nat)
  BY NatLessThanWellFounded DEF OpToRel
<1>2. PICK x \in Nat \ S : \A y \in Nat \ S : <<y, x>> \notin R
  BY <1>1, WFMin, Nat \ S \subseteq Nat
<1>3. x - 1 \in Nat /\ <<x - 1, x>> \in R
  BY <1>2
<1>4. x - 1 \in S
  BY <1>2, <1>3
<1> QED
  BY <1>2, <1>3, <1>4

\* Two of them agree as far as both go.
LEMMA RunsAgree ==
  ASSUME NEW p, NEW m \in Nat, NEW n \in Nat, m <= n, NEW f, NEW g,
         HeadRun(p, m, f), HeadRun(p, n, g)
  PROVE  \A k \in 0 .. m : f[k] = g[k]
<1> DEFINE S == {k \in Nat : k <= m => f[k] = g[k]}
<1>1. 0 \in S
  BY DEF HeadRun
<1>2. ASSUME NEW k \in S PROVE k + 1 \in S
  <2>1. k + 1 <= m => k + 1 \in 0 .. m /\ k + 1 \in 0 .. n /\ k + 1 # 0 /\ (k + 1) - 1 = k
    OBVIOUS
  <2> QED
    BY <2>1 DEF HeadRun
<1>3. S = Nat
  <2> HIDE DEF S
  <2>1. S \subseteq Nat
    BY DEF S
  <2> QED
    BY <1>1, <1>2, <2>1, AllNumbers
<1> QED
  BY <1>3

\* There is one for every number of samples.
LEMMA RunExists ==
  ASSUME NEW p, NEW n \in Nat
  PROVE  \E f : HeadRun(p, n, f)
<1> DEFINE S == {k \in Nat : \E f : HeadRun(p, k, f)}
<1>1. 0 \in S
  <2>1. HeadRun(p, 0, [k \in 0 .. 0 |-> p])
    BY DEF HeadRun
  <2> QED
    BY <2>1
<1>2. ASSUME NEW x \in S PROVE x + 1 \in S
  <2>1. PICK f : HeadRun(p, x, f)
    OBVIOUS
  <2> DEFINE g == [k \in 0 .. x + 1 |-> IF k = x + 1 THEN Abstract!Step(f[x]) ELSE f[k]]
             h == [k \in 0 .. x + 1 |-> IF k = 0 THEN p ELSE Abstract!Step(g[k - 1])]
  <2>2. ASSUME NEW k \in 0 .. x + 1 PROVE g[k] = h[k]
    <3>1. CASE k = x + 1
      BY <3>1
    <3>2. CASE k # x + 1 /\ k = 0
      BY <2>1, <3>2 DEF HeadRun
    <3>3. CASE k # x + 1 /\ k # 0
      <4>1. k \in 0 .. x /\ k - 1 \in 0 .. x
        BY <3>3
      <4>2. f[k] = Abstract!Step(f[k - 1])
        BY <2>1, <3>3, <4>1 DEF HeadRun
      <4> QED
        BY <3>3, <4>1, <4>2
    <3> QED
      BY <3>1, <3>2, <3>3
  <2>3. g = h
    BY <2>2
  <2>4. HeadRun(p, x + 1, g)
    BY <2>3 DEF HeadRun
  <2> QED
    BY <2>4
<1>3. S = Nat
  <2> HIDE DEF S
  <2>1. S \subseteq Nat
    BY DEF S
  <2> QED
    BY <1>1, <1>2, <2>1, AllNumbers
<1> QED
  BY <1>3

\* The function that Moved is defined by exists, so Moved is where a run ends.
LEMMA MovedIsARun ==
  ASSUME NEW p, NEW n \in Nat
  PROVE  \E f : HeadRun(p, n, f) /\ Abstract!Moved(p, n) = f[n]
<1>1. HeadRun(p, n, CHOOSE f : HeadRun(p, n, f))
  BY RunExists
<1>2. Abstract!Moved(p, n) = (CHOOSE f : HeadRun(p, n, f))[n]
  BY DEF Abstract!Moved, HeadRun
<1> QED
  BY <1>1, <1>2

\* No sample, and one more.
LEMMA MovedBySteps ==
  /\ \A p : Abstract!Moved(p, 0) = p
  /\ \A p : \A n \in Nat : Abstract!Moved(p, n + 1) = Abstract!Step(Abstract!Moved(p, n))
<1>1. ASSUME NEW p PROVE Abstract!Moved(p, 0) = p
  <2>1. PICK f : HeadRun(p, 0, f) /\ Abstract!Moved(p, 0) = f[0]
    BY MovedIsARun
  <2> QED
    BY <2>1 DEF HeadRun
<1>2. ASSUME NEW p, NEW n \in Nat
      PROVE  Abstract!Moved(p, n + 1) = Abstract!Step(Abstract!Moved(p, n))
  <2>1. PICK f : HeadRun(p, n, f) /\ Abstract!Moved(p, n) = f[n]
    BY MovedIsARun
  <2>2. PICK g : HeadRun(p, n + 1, g) /\ Abstract!Moved(p, n + 1) = g[n + 1]
    BY MovedIsARun
  <2>3. g[n + 1] = Abstract!Step(g[n])
    <3>1. n + 1 \in 0 .. n + 1 /\ n + 1 # 0 /\ (n + 1) - 1 = n
      OBVIOUS
    <3> QED
      BY <2>2, <3>1 DEF HeadRun
  <2>4. f[n] = g[n]
    BY <2>1, <2>2, RunsAgree
  <2> QED
    BY <2>1, <2>2, <2>3, <2>4
<1> QED
  BY <1>1, <1>2

\* m samples, then n.
LEMMA MovedTwice ==
  ASSUME NEW p, NEW m \in Nat, NEW n \in Nat
  PROVE  Abstract!Moved(p, m + n) = Abstract!Moved(Abstract!Moved(p, m), n)
<1> DEFINE S == {k \in Nat : Abstract!Moved(p, m + k) = Abstract!Moved(Abstract!Moved(p, m), k)}
<1>1. 0 \in S
  BY MovedBySteps
<1>2. ASSUME NEW k \in S PROVE k + 1 \in S
  <2>1. m + (k + 1) = (m + k) + 1 /\ m + k \in Nat
    OBVIOUS
  <2>2. Abstract!Moved(p, m + (k + 1)) = Abstract!Step(Abstract!Moved(p, m + k))
    BY <2>1, MovedBySteps
  <2>3. Abstract!Moved(Abstract!Moved(p, m), k + 1)
        = Abstract!Step(Abstract!Moved(Abstract!Moved(p, m), k))
    BY MovedBySteps
  <2> QED
    BY <2>2, <2>3
<1>3. S = Nat
  <2> HIDE DEF S
  <2>1. S \subseteq Nat
    BY DEF S
  <2> QED
    BY <1>1, <1>2, <2>1, AllNumbers
<1> QED
  BY <1>3

\* A playhead that plays.
HeadAt(h, a, s, n) == [head |-> h, again |-> a, stop |-> s, passes |-> n, status |-> "PLAYING"]

\* At the end of a pass without end it is where the next one starts.
TurnedTo(h, a, s, n) == IF h = s /\ n = -1 THEN HeadAt(a, a, s, n) ELSE HeadAt(h, a, s, n)

\* What has ended stays so.
LEMMA EndedForGood ==
  ASSUME NEW n \in Nat
  PROVE  Abstract!Moved(Abstract!Ended, n) = Abstract!Ended
<1> DEFINE S == {k \in Nat : Abstract!Moved(Abstract!Ended, k) = Abstract!Ended}
<1>1. 0 \in S
  BY MovedBySteps
<1>2. ASSUME NEW k \in S PROVE k + 1 \in S
  <2>1. Abstract!Step(Abstract!Ended) = Abstract!Ended
    BY DEF Abstract!Step, Abstract!Ended
  <2> QED
    BY <2>1, MovedBySteps
<1>3. S = Nat
  <2> HIDE DEF S
  <2>1. S \subseteq Nat
    BY DEF S
  <2> QED
    BY <1>1, <1>2, <2>1, AllNumbers
<1> QED
  BY <1>3

\* The steps of one that plays: inside a pass, and from its end into the next one.
LEMMA StepsOfHead ==
  ASSUME NEW h \in Int, NEW a \in Int, NEW s \in Int, NEW n \in Int
  PROVE  /\ h < s => Abstract!Step(HeadAt(h, a, s, n)) = TurnedTo(h + 1, a, s, n)
         /\ n \in Nat \ {0} => Abstract!Step(HeadAt(s, a, s, n)) = HeadAt(a + 1, a, s, n - 1)
<1>1. ASSUME NEW i \in Int, NEW m \in Int
      PROVE  Abstract!Turned(HeadAt(i, a, s, m)) = TurnedTo(i, a, s, m)
  <2> DEFINE p == HeadAt(i, a, s, m)
  <2>1. p.head = i /\ p.again = a /\ p.stop = s /\ p.passes = m
    BY DEF HeadAt
  <2>2. [p EXCEPT !.head = a] = HeadAt(a, a, s, m)
    BY DEF HeadAt
  <2> HIDE DEF p
  <2>3. [p EXCEPT !.head = p.again] = HeadAt(a, a, s, m)
    BY <2>1, <2>2
  <2>4. CASE i = s /\ m = -1
    BY <2>1, <2>3, <2>4 DEF Abstract!Turned, TurnedTo, p
  <2>5. CASE ~(i = s /\ m = -1)
    BY <2>1, <2>5 DEF Abstract!Turned, TurnedTo, p
  <2> QED
    BY <2>4, <2>5 DEF p
<1>2. ASSUME h < s
      PROVE  Abstract!Step(HeadAt(h, a, s, n)) = TurnedTo(h + 1, a, s, n)
  <2> DEFINE p == HeadAt(h, a, s, n)
  <2>1. p.head = h /\ p.stop = s
    BY DEF HeadAt
  <2>2. [p EXCEPT !.head = h + 1] = HeadAt(h + 1, a, s, n)
    BY DEF HeadAt
  <2> HIDE DEF p
  <2>3. [p EXCEPT !.head = p.head + 1] = HeadAt(h + 1, a, s, n)
    BY <2>1, <2>2
  <2>4. Abstract!Step(p) = Abstract!Turned(HeadAt(h + 1, a, s, n))
    BY <1>2, <2>1, <2>3 DEF Abstract!Step
  <2> QED
    BY <1>1, <2>4 DEF p
<1>3. ASSUME n \in Nat \ {0}
      PROVE  Abstract!Step(HeadAt(s, a, s, n)) = HeadAt(a + 1, a, s, n - 1)
  <2> DEFINE p == HeadAt(s, a, s, n)
  <2>1. p.head = s /\ p.stop = s /\ p.passes = n /\ p.again = a
    BY DEF HeadAt
  <2>2. [p EXCEPT !.head = p.again + 1, !.passes = p.passes - 1] = HeadAt(a + 1, a, s, n - 1)
    <3> DEFINE q == [p EXCEPT !.head = p.again + 1, !.passes = p.passes - 1]
    <3>1. DOMAIN q = {"head", "again", "stop", "passes", "status"} /\ q = [x \in DOMAIN q |-> q[x]]
      BY DEF HeadAt
    <3>2. /\ q.head = a + 1 /\ q.again = a /\ q.stop = s /\ q.passes = n - 1
          /\ q.status = "PLAYING"
      BY DEF HeadAt
    <3> HIDE DEF q
    <3>3. q = [head |-> a + 1, again |-> a, stop |-> s, passes |-> n - 1, status |-> "PLAYING"]
      BY <3>1, <3>2
    <3> QED
      BY <3>3 DEF q, HeadAt
  <2> HIDE DEF p
  <2>3. Abstract!Step(p) = Abstract!Turned(HeadAt(a + 1, a, s, n - 1))
    BY <1>3, <2>1, <2>2 DEF Abstract!Step
  <2>4. Abstract!Turned(HeadAt(a + 1, a, s, n - 1)) = HeadAt(a + 1, a, s, n - 1)
    BY <1>1, <1>3 DEF TurnedTo
  <2> QED
    BY <2>3, <2>4 DEF p
<1> QED
  BY <1>2, <1>3

\* As long as there is something left of the pass, samples follow one another.
LEMMA MovedInside ==
  ASSUME NEW h \in Int, NEW a \in Int, NEW s \in Int, NEW n \in Int, NEW k \in Nat \ {0}, h + k <= s
  PROVE  Abstract!Moved(HeadAt(h, a, s, n), k) = TurnedTo(h + k, a, s, n)
<1> DEFINE p == HeadAt(h, a, s, n)
           S == {j \in Nat : h + j + 1 <= s =>
                             Abstract!Moved(p, j + 1) = TurnedTo(h + j + 1, a, s, n)}
<1>1. ASSUME NEW i \in Int, i < s
      PROVE  Abstract!Step(HeadAt(i, a, s, n)) = TurnedTo(i + 1, a, s, n)
  BY <1>1, StepsOfHead
<1> HIDE DEF p
<1>2. 0 \in S
  <2>1. Abstract!Moved(p, 0 + 1) = Abstract!Step(p)
    BY MovedBySteps
  <2> QED
    BY <1>1, <2>1 DEF p
<1>3. ASSUME NEW j \in S PROVE j + 1 \in S
  <2> SUFFICES ASSUME h + (j + 1) + 1 <= s
               PROVE  Abstract!Moved(p, (j + 1) + 1) = TurnedTo(h + (j + 1) + 1, a, s, n)
    OBVIOUS
  <2>1. h + j + 1 < s /\ h + j + 1 \in Int /\ (h + j + 1) + 1 = h + (j + 1) + 1
    OBVIOUS
  <2>2. Abstract!Moved(p, j + 1) = HeadAt(h + j + 1, a, s, n)
    BY <2>1 DEF TurnedTo
  <2> QED
    BY <1>1, <2>1, <2>2, MovedBySteps
<1>4. S = Nat
  <2> HIDE DEF S
  <2>1. S \subseteq Nat
    BY DEF S
  <2> QED
    BY <1>2, <1>3, <2>1, AllNumbers
<1>5. h + (k - 1) + 1 = h + k /\ (k - 1) + 1 = k /\ k - 1 \in Nat
  OBVIOUS
<1>6. k - 1 \in S
  <2> HIDE DEF S
  <2> QED
    BY <1>4, <1>5
<1> QED
  BY <1>5, <1>6 DEF p

\* From the end of a pass, the first sample of the next one follows.
LEMMA MovedAcross ==
  ASSUME NEW a \in Int, NEW s \in Int, NEW n \in Nat \ {0}, NEW k \in Nat \ {0}, a + k <= s
  PROVE  Abstract!Moved(HeadAt(s, a, s, n), k) = HeadAt(a + k, a, s, n - 1)
<1> DEFINE p == HeadAt(s, a, s, n)
           q == HeadAt(a + 1, a, s, n - 1)
<1>1. Abstract!Step(p) = q
  BY StepsOfHead
<1> HIDE DEF p, q
<1>2. Abstract!Moved(p, 1) = q
  BY <1>1, MovedBySteps, 0 + 1 = 1
<1>3. k - 1 \in Nat /\ 1 + (k - 1) = k
  OBVIOUS
<1>4. Abstract!Moved(p, k) = Abstract!Moved(q, k - 1)
  BY <1>2, <1>3, MovedTwice
<1>5. CASE k = 1
  BY <1>2, <1>5 DEF p, q
<1>6. CASE k # 1
  <2>1. k - 1 \in Nat \ {0} /\ a + 1 \in Int /\ n - 1 \in Int /\ (a + 1) + (k - 1) <= s
    BY <1>6
  <2>2. Abstract!Moved(q, k - 1) = TurnedTo((a + 1) + (k - 1), a, s, n - 1)
    BY <2>1, MovedInside DEF q
  <2>3. TurnedTo((a + 1) + (k - 1), a, s, n - 1) = HeadAt(a + k, a, s, n - 1)
    BY DEF TurnedTo, HeadAt
  <2> QED
    BY <1>4, <2>2, <2>3 DEF p
<1> QED
  BY <1>5, <1>6

\* After the last pass nothing follows.
LEMMA MovedOut ==
  ASSUME NEW a \in Int, NEW s \in Int, NEW k \in Nat \ {0}
  PROVE  Abstract!Moved(HeadAt(s, a, s, 0), k) = Abstract!Ended
<1> DEFINE p == HeadAt(s, a, s, 0)
<1>1. Abstract!Step(p) = Abstract!Ended
  BY DEF Abstract!Step, HeadAt
<1> HIDE DEF p
<1>2. Abstract!Moved(p, 1) = Abstract!Ended
  BY <1>1, MovedBySteps, 0 + 1 = 1
<1>3. k - 1 \in Nat /\ 1 + (k - 1) = k
  OBVIOUS
<1>4. Abstract!Moved(p, k) = Abstract!Moved(Abstract!Moved(p, 1), k - 1)
  BY <1>3, MovedTwice, 1 \in Nat
<1> QED
  BY <1>2, <1>3, <1>4, EndedForGood DEF p

-----------------------------------------------------------------------------
(* The places of a pass, and what one frame does to them.  The playhead of *)
(* the player is computed from the reader and the commands.                *)

\* The pass the playhead is in: where it ends, where the ones to come start, how
\* many there are, and the sample that comes next when nothing is kept.
End == Min({range.to, Length})
First == IF next.armed THEN next.from ELSE range.fr
Left == IF times.armed THEN times.n ELSE -1
Bare ==
  IF PassIsOver(times) THEN End
  ELSE IF PassIsOver(next) THEN next.from
  ELSE Max({NextStart, range.fr})
Rest == HeadAt(Bare, First, End, Left)

\* a pass is decoded in two chunks or more
LongPass(fr, to) == SeekTo(fr) + Chunk < Min({to, Length})

\* what a command saw last is before the next frame of the same pass, or the next
\* frame is the first of a pass
Watches(command) ==
  command.armed =>
    \/ command.cur <= NextStart /\ tell < range.to
    \/ command.cur > NextStart /\ NextStart = SeekTo(range.fr)

\* Music that was given its loop and has not ended.
Rounds ==
  client = "music" /\ phase # "new" /\ status # "TERMINATED" =>
    /\ range.on /\ LongPass(range.fr, range.to)
    /\ tell >= SeekTo(range.fr) /\ tell < Length
    /\ next.armed => /\ next.to = range.to /\ LongPass(next.from, next.to)
                     /\ range.fr + Chunk <= next.from
    /\ Watches(next) /\ Watches(times)
    /\ next.armed /\ times.armed => next.cur = times.cur

\* A seek lands less than a chunk before the sample, and a chunk or more apart
\* for samples that are.
LEMMA SeekNear ==
  ASSUME precise \in BOOLEAN, NEW p \in 0 .. Length - 1
  PROVE  SeekTo(p) \in Int /\ SeekTo(p) <= p /\ p < SeekTo(p) + Chunk
<1>1. p < (p \div Chunk) * Chunk + Chunk
  BY SourceAssumption, SMTT(20)
<1> QED
  BY <1>1, SourceAssumption, SeekLands DEF SeekTo

\* With a unit of the source between the two, a seek to the one ends beyond the other.
LEMMA SeekApart ==
  ASSUME precise \in BOOLEAN, NEW p \in 0 .. Length - 1, NEW q \in 0 .. Length - 1, p + Chunk <= q
  PROVE  SeekTo(p) + Chunk <= SeekTo(q)
<1> USE SourceAssumption
<1> DEFINE a == p \div Chunk
           b == q \div Chunk
<1>1. a \in Int /\ b \in Int /\ a * Chunk <= p /\ q < b * Chunk + Chunk
  BY SMTT(20)
<1> HIDE DEF a, b
<1>2. a * Chunk + Chunk < b * Chunk + Chunk
  BY <1>1
<1>3. a < b
  BY <1>1, <1>2, SMTT(20)
<1>4. (a + 1) * Chunk <= b * Chunk
  BY <1>1, <1>3, SMTT(20)
<1>5. a * Chunk + Chunk <= b * Chunk
  BY <1>1, <1>4, SMTT(20)
<1> QED
  BY <1>5 DEF SeekTo, a, b

\* The places of such a pass.
LEMMA RoundPlaces ==
  ASSUME IInv, Rounds, client = "music", phase # "new", status # "TERMINATED"
  PROVE  /\ range.on
         /\ End \in Int /\ End = (IF range.to <= Length THEN range.to ELSE Length)
         /\ SeekTo(range.fr) \in 0 .. range.fr /\ range.fr < SeekTo(range.fr) + Chunk
         /\ SeekTo(range.fr) + Chunk < End
         /\ NextStart = (IF tell >= range.to THEN SeekTo(range.fr) ELSE tell)
         /\ NextStart \in SeekTo(range.fr) .. End - 1
         /\ tell < Length
         /\ Watches(next) /\ Watches(times)
         /\ next.armed => /\ next.to = range.to
                          /\ SeekTo(next.from) \in 0 .. next.from
                          /\ next.from < SeekTo(next.from) + Chunk
                          /\ SeekTo(next.from) + Chunk < End
                          /\ SeekTo(range.fr) + Chunk <= SeekTo(next.from)
                          /\ range.fr + Chunk <= next.from
         /\ next.armed /\ times.armed => next.cur = times.cur
<1> USE SourceAssumption
<1>1. TypeOK /\ RangesOK
  BY DEF IInv
<1>2. /\ range.fr \in 0 .. Length - 1 /\ next.from \in 0 .. Length - 1
      /\ range.to \in Int /\ tell \in 0 .. Length /\ precise \in BOOLEAN
  BY <1>1 DEF TypeOK, Npos
<1>3. End = IF range.to <= Length THEN range.to ELSE Length
  BY <1>2, MinOfTwo DEF End
<1>4. /\ SeekTo(range.fr) \in 0 .. range.fr /\ range.fr < SeekTo(range.fr) + Chunk
      /\ SeekTo(next.from) \in 0 .. next.from /\ next.from < SeekTo(next.from) + Chunk
  BY <1>2, SeekNear, SeekLands
<1>5. /\ range.on /\ SeekTo(range.fr) + Chunk < End
      /\ tell >= SeekTo(range.fr) /\ tell < Length
      /\ Watches(next) /\ Watches(times)
      /\ next.armed => /\ next.to = range.to
                       /\ SeekTo(next.from) + Chunk < End
                       /\ range.fr + Chunk <= next.from
      /\ next.armed /\ times.armed => next.cur = times.cur
  BY DEF Rounds, LongPass, End
<1>6. next.armed => SeekTo(range.fr) + Chunk <= SeekTo(next.from)
  BY <1>2, <1>5, SeekApart
<1>7. NextStart = (IF tell >= range.to THEN SeekTo(range.fr) ELSE tell)
  BY DEF NextStart
<1>8. NextStart \in SeekTo(range.fr) .. End - 1
  BY <1>2, <1>3, <1>4, <1>5, <1>7
<1> QED
  BY <1>2, <1>3, <1>4, <1>5, <1>6, <1>7, <1>8

\* One frame of a pass that is not over: it is not dropped, its part inside the
\* loop starts where the playhead is, and the playhead ends up behind it.
LEMMA PullRuns ==
  ASSUME IInv, Rounds, LoadNext, UNCHANGED setup, client = "music", phase = "shared",
         ~PassIsOver(next), ~PassIsOver(times)
  PROVE  LET piece == ClipFrame(NextFrame, RangeAfter) IN
         /\ Count(NextFrame) # 0 /\ Count(piece) # 0
         /\ piece.fr = Bare /\ piece.fr \in Int /\ piece.fr < piece.to /\ piece.to \in Int
         /\ piece.to <= End
         /\ ~PassesAreOver
         /\ First' = First /\ End' = End /\ Left' = Left
         /\ Rest' = TurnedTo(piece.to, First, End, Left)
         /\ Rounds'
<1> USE SourceAssumption
<1> DEFINE piece == ClipFrame(NextFrame, RangeAfter)
           s == SeekTo(range.fr)
           x == NextStart
<1>1. TypeOK /\ RangesOK /\ Loaded /\ status = "PLAYING"
  BY DEF IInv, LoadNext, Loaded
<1>2. /\ range.on
      /\ End \in Int /\ End = (IF range.to <= Length THEN range.to ELSE Length)
      /\ s \in 0 .. range.fr /\ range.fr < s + Chunk /\ s + Chunk < End
      /\ x = (IF tell >= range.to THEN s ELSE tell)
      /\ x \in s .. End - 1
      /\ tell < Length
      /\ Watches(next) /\ Watches(times)
      /\ next.armed /\ times.armed => next.cur = times.cur
  BY <1>1, RoundPlaces
<1>3. /\ range.fr \in 0 .. Length - 1 /\ next.from \in 0 .. Length - 1
      /\ range.to \in Int /\ tell \in 0 .. Length /\ precise \in BOOLEAN
      /\ next.cur \in Int /\ times.cur \in Int /\ times.n \in Nat /\ next.to \in Int
  BY <1>1 DEF TypeOK, Npos
<1>4. /\ next.armed => next.cur <= x /\ tell < range.to
      /\ times.armed => times.cur <= x /\ tell < range.to
  BY <1>2, <1>3 DEF PassIsOver, Watches
<1>5. ~EntersNextLoop /\ ~PassesAreOver
  <2>1. ~EntersNextLoop
    BY DEF EntersNextLoop, PassIsOver
  <2>2. times.armed => TimesLeft = times.n
    BY <1>3 DEF TimesLeft, PassIsOver
  <2> QED
    BY <1>3, <2>1, <2>2 DEF PassesAreOver
<1>6. NextEnd = IF x + Chunk <= Length THEN x + Chunk ELSE Length
  BY <1>2, MinOfTwo DEF NextEnd
<1>7. NextFrame = Frame(x, NextEnd) /\ RangeAfter = range
  BY <1>5 DEF NextFrame, RangeAfter
<1>8. /\ Max({x, range.fr}) = IF x >= range.fr THEN x ELSE range.fr
      /\ Min({NextEnd, range.to}) = IF NextEnd <= range.to THEN NextEnd ELSE range.to
  BY <1>2, <1>3, <1>6, MinOfTwo, MaxOfTwo
<1>9. /\ Frame(x, NextEnd).fr = x /\ Frame(x, NextEnd).to = NextEnd
      /\ Count(Frame(x, NextEnd)) = NextEnd - x
  BY DEF Frame, Count
<1>10. ~(NextEnd < range.fr \/ range.to <= x) /\ NextEnd - x # 0 /\ NextEnd > range.fr
  BY <1>2, <1>3, <1>6
<1>11. piece = Frame(Max({x, range.fr}), Min({NextEnd, range.to}))
  BY <1>7, <1>9, <1>10 DEF ClipFrame
<1>12. piece.fr = Max({x, range.fr}) /\ piece.to = Min({NextEnd, range.to})
  BY <1>11 DEF Frame
<1>13. /\ piece.fr = (IF x >= range.fr THEN x ELSE range.fr)
       /\ piece.to = (IF x + Chunk <= End THEN x + Chunk ELSE End)
  BY <1>2, <1>3, <1>6, <1>8, <1>12
<1> HIDE DEF piece, s, x
<1>14. piece.fr \in Int /\ piece.to \in Int /\ piece.fr < piece.to /\ piece.to <= End
  BY <1>2, <1>3, <1>13
<1>15. piece.fr = Bare
  BY <1>12 DEF Bare, x
<1>16. Count(NextFrame) # 0 /\ Count(piece) # 0
  BY <1>7, <1>9, <1>10, <1>14 DEF Count, x
<1>17. /\ tell' = (IF NextEnd = Length THEN s ELSE NextEnd)
       /\ range' = range /\ precise' = precise
       /\ next' = (IF next.armed THEN NextLoop(next.from, next.to, x) ELSE next)
       /\ times' = (IF times.armed THEN AfterNLoops(times.n, x) ELSE times)
  BY <1>2, <1>3, <1>5, <1>7 DEF LoadNext, TellInLoop, TellAfter, EndOfPlayback, NextAfter, TimesAfter,
     TimesLeft, PassIsOver, setup, s, x
<1>18. /\ next'.armed = next.armed /\ times'.armed = times.armed
       /\ next'.from = next.from /\ next'.to = next.to
       /\ times.armed => times'.cur = x /\ times'.n = times.n
       /\ next.armed => next'.cur = x
  BY <1>17 DEF NextLoop, AfterNLoops
<1>19. First' = First /\ End' = End /\ Left' = Left
  BY <1>17, <1>18 DEF First, End, Left
<1>20. NextStart' = IF x + Chunk < End THEN x + Chunk ELSE s
  <2>1. NextStart' = IF tell' >= range.to THEN s ELSE tell'
    BY <1>17 DEF NextStart, SeekTo, s
  <2> QED
    BY <2>1, <1>2, <1>3, <1>6, <1>17
<1>21. x + Chunk < End => tell' < range'.to
  BY <1>2, <1>3, <1>6, <1>17
<1>22. ASSUME x + Chunk < End
       PROVE  Rest' = TurnedTo(piece.to, First, End, Left) /\ Watches(next)' /\ Watches(times)'
  <2>1. ~PassIsOver(next)' /\ ~PassIsOver(times)'
    BY <1>2, <1>3, <1>18, <1>20, <1>22 DEF PassIsOver
  <2>2. Bare' = Max({x + Chunk, range.fr})
    BY <2>1, <1>17, <1>20, <1>22 DEF Bare
  <2>3. Bare' = piece.to /\ piece.to # End
    BY <2>2, <1>2, <1>3, <1>13, <1>22, MaxOfTwo
  <2>4. Rest' = TurnedTo(piece.to, First, End, Left)
    BY <2>3, <1>19 DEF Rest, TurnedTo
  <2>5. Watches(next)' /\ Watches(times)'
    BY <1>2, <1>3, <1>18, <1>20, <1>21, <1>22 DEF Watches
  <2> QED
    BY <2>4, <2>5
<1>23. ASSUME ~(x + Chunk < End)
       PROVE  Rest' = TurnedTo(piece.to, First, End, Left) /\ Watches(next)' /\ Watches(times)'
  <2>1. x > s /\ NextStart' = s
    BY <1>2, <1>3, <1>20, <1>23
  <2>2. /\ PassIsOver(next)' <=> next.armed
        /\ PassIsOver(times)' <=> times.armed
    BY <2>1, <1>2, <1>3, <1>18 DEF PassIsOver
  <2>3. Max({s, range.fr}) = range.fr
    BY <1>2, <1>3, MaxOfTwo
  <2>4. Bare' = IF times.armed THEN End ELSE First
    BY <2>1, <2>2, <2>3, <1>17, <1>18, <1>19 DEF Bare, First
  <2>5. piece.to = End
    BY <1>2, <1>3, <1>13, <1>23
  <2>6. Rest' = TurnedTo(piece.to, First, End, Left)
    BY <2>4, <2>5, <1>3, <1>19 DEF Rest, TurnedTo, Left
  <2>7. SeekTo(range.fr)' = s
    BY <1>17 DEF SeekTo, s
  <2>8. Watches(next)' /\ Watches(times)'
    BY <2>1, <2>7, <1>18 DEF Watches
  <2> QED
    BY <2>6, <2>8
<1>24. Rounds'
  <2>1. /\ range'.on /\ tell' >= s /\ tell' < Length
    BY <1>2, <1>3, <1>6, <1>17
  <2>2. SeekTo(range.fr)' = s
    BY <1>17 DEF SeekTo, s
  <2>3. /\ LongPass(range.fr, range.to)'
        /\ LongPass(next.from, next.to)' = LongPass(next.from, next.to)
    BY <1>1, <1>17, <1>18 DEF LongPass, SeekTo, Rounds
  <2>4. next'.armed => /\ next'.to = range'.to /\ LongPass(next.from, next.to)'
                       /\ range'.fr + Chunk <= next'.from
    BY <2>3, <1>1, <1>17, <1>18 DEF Rounds
  <2>5. next'.armed /\ times'.armed => next'.cur = times'.cur
    BY <1>18
  <2> QED
    BY <2>1, <2>2, <2>3, <2>4, <2>5, <1>22, <1>23 DEF Rounds
<1> QED
  BY <1>5, <1>14, <1>15, <1>16, <1>19, <1>22, <1>23, <1>24 DEF piece

\* The first frame of a pass, when the passes are counted and the loop stays what
\* it was: one pass less, and the playhead ends up behind the frame.
LEMMA PullCounts ==
  ASSUME IInv, Rounds, LoadNext, UNCHANGED setup, client = "music", phase = "shared",
         ~next.armed, PassIsOver(times), times.n # 0
  PROVE  LET piece == ClipFrame(NextFrame, RangeAfter) IN
         /\ Count(NextFrame) # 0 /\ Count(piece) # 0
         /\ piece.fr = First /\ piece.fr \in Int /\ piece.fr < piece.to /\ piece.to \in Int
         /\ piece.to <= End
         /\ ~PassesAreOver
         /\ Bare = End /\ Left \in Nat \ {0}
         /\ First' = First /\ End' = End /\ Left' = Left - 1
         /\ Rest' = TurnedTo(piece.to, First, End, Left - 1)
         /\ Rounds'
<1> USE SourceAssumption
<1> DEFINE piece == ClipFrame(NextFrame, RangeAfter)
           s == SeekTo(range.fr)
<1>1. TypeOK /\ RangesOK /\ Loaded /\ status = "PLAYING"
  BY DEF IInv, LoadNext, Loaded
<1>2. /\ range.on
      /\ End \in Int /\ End = (IF range.to <= Length THEN range.to ELSE Length)
      /\ s \in 0 .. range.fr /\ range.fr < s + Chunk /\ s + Chunk < End
      /\ Watches(times) /\ NextStart \in Int
  BY <1>1, RoundPlaces
<1>3. /\ range.fr \in 0 .. Length - 1
      /\ range.to \in Int /\ tell \in 0 .. Length /\ precise \in BOOLEAN
      /\ times.cur \in Int /\ times.n \in Nat \ {0} /\ times.armed
  BY <1>1 DEF TypeOK, Npos, PassIsOver
<1>4. NextStart = s /\ NextStart < times.cur
  BY <1>2, <1>3 DEF PassIsOver, Watches, s
<1>5. ~EntersNextLoop /\ ~PassesAreOver /\ TimesLeft = times.n - 1
  BY <1>3, <1>4 DEF EntersNextLoop, PassesAreOver, TimesLeft
<1>6. NextEnd = s + Chunk /\ NextEnd # Length
  BY <1>2, <1>4, MinOfTwo DEF NextEnd
<1>7. NextFrame = Frame(s, s + Chunk) /\ RangeAfter = range
  BY <1>4, <1>5, <1>6 DEF NextFrame, RangeAfter
<1>8. /\ Max({s, range.fr}) = range.fr
      /\ Min({s + Chunk, range.to}) = s + Chunk
  BY <1>2, <1>3, MinOfTwo, MaxOfTwo
<1>9. /\ Frame(s, s + Chunk).fr = s /\ Frame(s, s + Chunk).to = s + Chunk
      /\ Count(Frame(s, s + Chunk)) = (s + Chunk) - s
  BY DEF Frame, Count
<1>10. ~(s + Chunk < range.fr \/ range.to <= s) /\ (s + Chunk) - s # 0
  BY <1>2, <1>3
<1>11. piece = Frame(range.fr, s + Chunk)
  BY <1>7, <1>8, <1>9, <1>10 DEF ClipFrame
<1>12. piece.fr = range.fr /\ piece.to = s + Chunk
  BY <1>11 DEF Frame
<1>13. /\ tell' = s + Chunk /\ range' = range /\ precise' = precise
       /\ next' = next /\ times' = AfterNLoops(times.n - 1, s)
  BY <1>3, <1>4, <1>5, <1>6, <1>7 DEF LoadNext, TellInLoop, TellAfter, EndOfPlayback, NextAfter,
     TimesAfter, setup
<1>14. times'.armed /\ times'.cur = s /\ times'.n = times.n - 1
  BY <1>13 DEF AfterNLoops
<1>15. SeekTo(range.fr)' = s
  BY <1>13 DEF SeekTo
<1> HIDE DEF piece, s
<1>16. Count(NextFrame) # 0 /\ Count(piece) # 0 /\ piece.fr < piece.to
  BY <1>2, <1>3, <1>7, <1>9, <1>10, <1>12 DEF Count
<1>17. Bare = End /\ Left = times.n /\ First = range.fr
  BY <1>3 DEF Bare, Left, First
<1>18. First' = First /\ End' = End /\ Left' = Left - 1
  BY <1>13, <1>14, <1>17 DEF First, End, Left
<1>19. NextStart' = s + Chunk /\ tell' < range'.to
  BY <1>2, <1>3, <1>13 DEF NextStart
<1>20. ~PassIsOver(times)' /\ ~PassIsOver(next)'
  BY <1>2, <1>3, <1>13, <1>14, <1>19 DEF PassIsOver
<1>21. Bare' = piece.to
  <2>1. Bare' = Max({s + Chunk, range.fr})
    BY <1>13, <1>19, <1>20 DEF Bare
  <2> QED
    BY <2>1, <1>2, <1>3, <1>12, MaxOfTwo
<1>22. Rest' = TurnedTo(piece.to, First, End, Left - 1)
  BY <1>2, <1>12, <1>18, <1>21 DEF Rest, TurnedTo
<1>23. Rounds'
  <2>1. range'.on /\ tell' >= s /\ tell' < Length /\ ~next'.armed
    BY <1>2, <1>3, <1>13
  <2>2. LongPass(range.fr, range.to)'
    BY <1>1, <1>13 DEF LongPass, SeekTo, Rounds
  <2>3. Watches(next)' /\ Watches(times)'
    BY <1>2, <1>3, <1>13, <1>14, <1>19 DEF Watches
  <2> QED
    BY <2>1, <2>2, <2>3, <1>15 DEF Rounds
<1> QED
  BY <1>2, <1>3, <1>5, <1>12, <1>16, <1>17, <1>18, <1>22, <1>23 DEF piece

\* The first frame of the first pass in the second loop: it is dropped, and the
\* playhead is where that loop starts.
LEMMA PullEnters ==
  ASSUME IInv, Rounds, LoadNext, UNCHANGED setup, client = "music", phase = "shared",
         PassIsOver(next), times.armed => times.n # 0
  PROVE  /\ Count(NextFrame) = 0
         /\ ~PassesAreOver
         /\ First' = First /\ End' = End /\ Bare' = First
         /\ IF times.armed THEN Bare = End /\ Left \in Nat \ {0} /\ Left' = Left - 1
                           ELSE Bare = First /\ Left = -1 /\ Left' = -1
         /\ Rounds'
<1> USE SourceAssumption
<1> DEFINE s == SeekTo(range.fr)
           t == SeekTo(next.from)
<1>1. TypeOK /\ RangesOK /\ Loaded /\ status = "PLAYING"
  BY DEF IInv, LoadNext, Loaded
<1>2. next.armed
  BY DEF PassIsOver
<1>3. /\ range.on
      /\ End \in Int /\ End = (IF range.to <= Length THEN range.to ELSE Length)
      /\ s \in 0 .. range.fr /\ s + Chunk < End
      /\ Watches(next) /\ NextStart \in Int
      /\ next.to = range.to
      /\ t \in 0 .. next.from /\ next.from < t + Chunk /\ t + Chunk < End /\ s + Chunk <= t
      /\ times.armed => next.cur = times.cur
  BY <1>1, <1>2, RoundPlaces
<1>4. /\ next.from \in 0 .. Length - 1 /\ next.cur \in Int
      /\ range.to \in Int /\ precise \in BOOLEAN
      /\ times.armed => times.n \in Nat \ {0}
  BY <1>1 DEF TypeOK, Npos
<1>5. NextStart = s /\ NextStart < next.cur /\ (times.armed => NextStart < times.cur)
  BY <1>2, <1>3, <1>4 DEF PassIsOver, Watches, s
<1>6. EntersNextLoop /\ ~PassesAreOver /\ (times.armed => TimesLeft = times.n - 1)
  BY <1>2, <1>4, <1>5 DEF EntersNextLoop, PassesAreOver, TimesLeft
<1>7. Count(NextFrame) = 0
  BY <1>6 DEF NextFrame, Count, NoFrame, Frame
<1>8. NextEnd = s + Chunk /\ NextEnd # Length
  BY <1>3, <1>5, MinOfTwo DEF NextEnd
<1>9. TellInLoop = t
  <2>1. TellAfter = s + Chunk
    BY <1>8 DEF TellAfter, EndOfPlayback
  <2>2. s + Chunk \in next.from .. next.to - 1 => s + Chunk = t
    BY <1>3, <1>4
  <2> QED
    BY <1>6, <2>1, <2>2 DEF TellInLoop
<1>10. /\ tell' = t /\ precise' = precise
       /\ range' = [on |-> TRUE, fr |-> next.from, to |-> next.to]
       /\ next' = NoNextLoop
       /\ times' = IF times.armed THEN AfterNLoops(times.n - 1, s) ELSE times
  BY <1>5, <1>6, <1>9 DEF LoadNext, RangeAfter, NextAfter, TimesAfter, setup
<1>11. range'.on /\ range'.fr = next.from /\ range'.to = range.to /\ ~next'.armed
  BY <1>3, <1>10 DEF NoNextLoop
<1>12. /\ times'.armed = times.armed
       /\ times.armed => times'.cur = s /\ times'.n = times.n - 1
  BY <1>10 DEF AfterNLoops
<1>13. SeekTo(range.fr)' = t
  BY <1>10, <1>11 DEF SeekTo
<1> HIDE DEF s, t
<1>14. First' = First /\ End' = End /\ First = next.from
  BY <1>2, <1>11 DEF First, End
<1>15. IF times.armed THEN Bare = End /\ Left \in Nat \ {0} /\ Left' = Left - 1
                      ELSE Bare = First /\ Left = -1 /\ Left' = -1
  BY <1>4, <1>5, <1>12, <1>14 DEF Bare, Left, PassIsOver
<1>16. NextStart' = t /\ tell' < range'.to
  BY <1>3, <1>4, <1>10, <1>11 DEF NextStart
<1>17. ~PassIsOver(times)' /\ ~PassIsOver(next)'
  BY <1>3, <1>4, <1>11, <1>12, <1>16 DEF PassIsOver
<1>18. Bare' = First
  <2>1. Bare' = Max({t, next.from})
    BY <1>11, <1>16, <1>17 DEF Bare
  <2> QED
    BY <2>1, <1>3, <1>4, <1>14, MaxOfTwo
<1>19. Rounds'
  <2>1. tell' >= t /\ tell' < Length
    BY <1>3, <1>4, <1>10
  <2>2. LongPass(range.fr, range.to)'
    BY <1>1, <1>2, <1>10, <1>11 DEF LongPass, SeekTo, Rounds
  <2>3. Watches(next)' /\ Watches(times)'
    BY <1>3, <1>4, <1>11, <1>12, <1>16 DEF Watches
  <2> QED
    BY <2>1, <2>2, <2>3, <1>11, <1>13 DEF Rounds
<1> QED
  BY <1>6, <1>7, <1>14, <1>15, <1>18, <1>19

\* The first frame after the last pass: it is dropped, and the player has ended.
LEMMA PullEnds ==
  ASSUME IInv, LoadNext, PassIsOver(times), times.n = 0
  PROVE  /\ Count(NextFrame) = 0 /\ status' = "TERMINATED"
         /\ Bare = End /\ Left = 0
<1>1. times.armed /\ TimesLeft = -1
  BY DEF PassIsOver, TimesLeft
<1>2. PassesAreOver
  BY <1>1 DEF PassesAreOver
<1> QED
  BY <1>1, <1>2 DEF LoadNext, NextFrame, NoFrame, Frame, Count, Bare, Left

\* A player that plays on through a frame keeps its fade-out; one that stops while
\* passes are left had one.
LEMMA PullFades ==
  ASSUME IInv, LoadNext, range.on, ~PassesAreOver, ending.armed \/ ending.left = 0
  PROVE  /\ status' \in {"PLAYING", "TERMINATED"}
         /\ status' = "PLAYING" => (ending'.left > 0 <=> ending.left > 0)
         /\ status' = "TERMINATED" => ending.left > 0
         /\ ending'.armed \/ ending'.left = 0
<1>1. TypeOK /\ RangesOK /\ Loaded
  BY DEF IInv, LoadNext
<1>2. ending.left \in Nat /\ ending.armed \in BOOLEAN
  BY <1>1 DEF TypeOK
<1>3. StatusAfter = "PLAYING"
  BY DEF StatusAfter
<1>4. status' = (IF FadeIsOver THEN "TERMINATED" ELSE "PLAYING") /\ ending' = EndingAfter
  BY <1>3 DEF LoadNext
<1>5. FadeIsOver => ending.left > 0
  BY DEF FadeIsOver
<1>6. Count(NextFrame) \in Int
  BY <1>1, LoadNextTypes DEF NextFrame, Count, NoFrame, Frame
<1>7. SamplesLeft \in Int
  BY <1>2, <1>6 DEF SamplesLeft
<1>8. ~FadeIsOver => (EndingAfter.left > 0 <=> ending.left > 0)
  BY <1>2, <1>7 DEF FadeIsOver, EndingAfter, NoEnding
<1>9. ending'.armed \/ ending'.left = 0
  BY <1>4 DEF EndingAfter, NoEnding
<1> QED
  BY <1>4, <1>5, <1>8, <1>9

-----------------------------------------------------------------------------
(* The invariant of the player and its playhead.  Within a call the         *)
(* playhead is frozen: "Collected" says what the samples collected so far   *)
(* are in terms of it.                                                      *)

\* Until the player is shared nothing is played, and only shared music is steered.
NotShared ==
  /\ phase = "looped" => /\ client = "music" /\ next.armed /\ next.cur = tell
                         /\ tell < range.to
  /\ phase = "new" => tell = 0
  /\ phase # "shared" => /\ status = "PLAYING" /\ loader.pc = "idle"
                         /\ ~times.armed /\ ~HasBuffer
  /\ ~(client = "music" /\ phase = "shared") => caller = "idle" /\ ~ending.armed
  /\ ending.armed \/ ending.left = 0

\* A sound or a voice is played from its start, all of it, in one call.
OneCall ==
  client # "music" =>
    /\ ~next.armed /\ range.fr = 0 /\ range.to = Npos /\ ~HasBuffer
    /\ status = "TERMINATED" \/ (status = "PLAYING" /\ tell < Length)
    /\ loader.pc \in {"idle", "remain"}
    /\ loader.pc = "idle" /\ status = "PLAYING" => tell = 0 /\ (times.armed => times.cur = 0)
    /\ loader.pc = "remain" => /\ phase = "shared" /\ loader.cur = 0
                               /\ seen.play.status = "PLAYING" /\ seen.fading = FALSE

\* What is kept goes on to where the playhead of the source is.
Kept ==
  client = "music" /\ HasBuffer /\ status # "TERMINATED" =>
    /\ buffer.frame.to <= End
    /\ TurnedTo(buffer.frame.to, First, End, Left) = Rest

\* The playhead after n samples of this call.
Delivered(n) == Abstract!Moved(seen.play, n)

\* Either it is at p, or p starts a pass that has been taken from what is left and
\* it is still at the end of the one before.
ComesTo(q, h, a, s, n) ==
  q = HeadAt(h, a, s, n) \/ (h = a /\ n \in Nat /\ q = HeadAt(s, a, s, n + 1))

\* What the call in progress has collected is what the playhead went over.
Collected ==
  loader.pc = "pcm" =>
    /\ seen.play.status = "PLAYING" /\ seen.fading \in BOOLEAN
    /\ status \in {"PLAYING", "TERMINATED"}
    /\ status = "TERMINATED" => Delivered(loader.request) = Ended \/ seen.fading
    /\ status = "PLAYING" =>
         /\ seen.fading <=> ending.left > 0
         /\ loader.got < loader.request =>
              ComesTo(Delivered(loader.got), Bare, First, End, Left)
         /\ loader.got = loader.request => Delivered(loader.request) = Rest
         /\ loader.got > loader.request =>
              /\ Delivered(loader.request)
                 = HeadAt(loader.piece.to - (loader.got - loader.request), First, End, Left)
              /\ loader.piece.to <= End
              /\ TurnedTo(loader.piece.to, First, End, Left) = Rest

Asked == loader.pc \in {"want", "pcm"} => loader.request \in Requests
Between == ~Locked => seen = Now

PInv ==
  IInv /\ Rounds /\ NotShared /\ OneCall /\ Kept /\ Collected /\ Asked /\ Between

\* Now, in the words of this section.
LEMMA NowIs ==
  /\ Now.play = IF status = "TERMINATED" THEN Ended
                ELSE [head |-> IF HasBuffer THEN buffer.frame.fr ELSE Bare,
                      again |-> First, stop |-> End, passes |-> Left, status |-> status]
  /\ Now.fading <=> status # "TERMINATED" /\ ending.left > 0
  /\ Now.fading \in BOOLEAN
BY DEF Now, Head, Bare, First, End, Left

\* The same after a step.
LEMMA NowIsNext ==
  /\ Now'.play = IF status' = "TERMINATED" THEN Ended
                 ELSE [head |-> IF HasBuffer' THEN buffer'.frame.fr ELSE Bare',
                       again |-> First', stop |-> End', passes |-> Left', status |-> status']
  /\ Now'.fading <=> status' # "TERMINATED" /\ ending'.left > 0
  /\ Now'.fading \in BOOLEAN
BY DEF Now, Head, Bare, First, End, Left

\* Its places and the passes left are numbers.
LEMMA RestTypes ==
  ASSUME IInv
  PROVE  First \in Int /\ End \in Int /\ Left \in Int
<1>1. TypeOK /\ SourceAssumption
  BY SourceAssumption DEF IInv
<1>2. /\ range.to \in Int /\ range.fr \in Int /\ next.from \in Int /\ times.n \in Int
      /\ Length \in Int
  BY <1>1 DEF TypeOK, Npos, SourceAssumption
<1>3. Min({range.to, Length}) = IF range.to <= Length THEN range.to ELSE Length
  BY <1>2, MinOfTwo
<1> QED
  BY <1>2, <1>3 DEF First, End, Left

\* Nothing has been read yet, and the loader is idle.
LEMMA InitPInv == PlayerInit => PInv
<1> SUFFICES ASSUME PlayerInit PROVE PInv
  OBVIOUS
<1> USE SourceAssumption
<1>1. IInv /\ Init
  BY InitIInv DEF PlayerInit
<1>2. ~HasBuffer
  BY <1>1 DEF Init, HasBuffer, NoBuffer, Count, NoFrame, Frame
<1>3. loader.pc = "idle"
  BY <1>1 DEF Init, Idle, Call
<1>4. /\ phase = (IF client = "voice" THEN "shared" ELSE "new")
      /\ tell = 0 /\ range.fr = 0 /\ range.to = Npos /\ status = "PLAYING"
      /\ ~next.armed /\ ~times.armed /\ ~ending.armed /\ ending.left = 0 /\ caller = "idle"
  BY <1>1 DEF Init, NoNextLoop, NoTimes, NoEnding
<1>5. Rounds /\ NotShared /\ OneCall /\ Kept /\ Collected /\ Asked
  BY <1>2, <1>3, <1>4 DEF Rounds, NotShared, OneCall, Kept, Collected, Asked
<1>6. Between
  BY DEF Between, PlayerInit
<1> QED
  BY <1>1, <1>5, <1>6 DEF PInv

\* A new player is a head at the start of its track.
LEMMA InitPlayhead == PlayerInit => Abstract!Init
<1> SUFFICES ASSUME PlayerInit PROVE Abstract!Init
  OBVIOUS
<1> USE SourceAssumption
<1>1. Init /\ seen = Now
  BY DEF PlayerInit
<1>2. ~HasBuffer
  BY <1>1 DEF Init, HasBuffer, NoBuffer, Count, NoFrame, Frame
<1>3. /\ client \in Clients /\ phase = (IF client = "voice" THEN "shared" ELSE "new")
      /\ tell = 0 /\ range.fr = 0 /\ range.to = Npos /\ status = "PLAYING"
      /\ ~next.armed /\ ~times.armed /\ ending.left = 0
  BY <1>1 DEF Init, NoNextLoop, NoTimes, NoEnding
<1>4. Npos \in Int /\ Npos >= Length /\ Npos > 0
  BY DEF Npos
<1>5. NextStart = 0
  BY <1>3, <1>4 DEF NextStart
<1>6. Bare = 0 /\ First = 0 /\ End = Length /\ Left = -1
  <2>1. Max({0, 0}) = 0 /\ Min({Npos, Length}) = Length
    BY <1>4, MinOfTwo, MaxOfTwo
  <2> QED
    BY <2>1, <1>3, <1>5 DEF Bare, First, End, Left, PassIsOver
<1>7. seen.play = [head |-> 0, again |-> 0, stop |-> Length, passes |-> -1, status |-> "PLAYING"]
  BY <1>1, <1>2, <1>3, <1>6, NowIs
<1>8. seen.fading = FALSE
  BY <1>1, <1>3, NowIs
<1> QED
  BY <1>3, <1>7, <1>8 DEF Abstract!Init

-----------------------------------------------------------------------------
(* Setting up *)

Sees == seen' = IF Locked' THEN seen ELSE Now'

\* SetLoop before the player is shared: the playhead is set to the loop.
LEMMA SetPLoopPlays ==
  ASSUME LongLoops, PInv, IInv', NEW l \in Loops, SetPLoop(l), Sees
  PROVE  PInv' /\ Abstract!SetLoop(l)
<1> USE SourceAssumption
<1>1. /\ TypeOK /\ client = "music" /\ phase = "new" /\ tell = 0 /\ status = "PLAYING"
      /\ loader.pc = "idle" /\ ~times.armed /\ ~HasBuffer /\ ~ending.armed /\ ending.left = 0
      /\ caller = "idle" /\ precise \in BOOLEAN
  BY DEF PInv, IInv, NotShared, SetPLoop, TypeOK
<1>2. /\ l.from \in 0 .. Length - 1 /\ l.to \in l.from + 1 .. Npos
      /\ l.loop \in 0 .. Length - 1 /\ l.loop < l.to
      /\ l.from + Chunk <= l.loop /\ l.loop + Chunk < Min({l.to, Length})
  BY LoopAssumption DEF LongLoops
<1>3. l.to \in Int /\ Min({l.to, Length}) = IF l.to <= Length THEN l.to ELSE Length
  <2>1. l.to \in Int
    BY <1>2 DEF Npos
  <2> QED
    BY <2>1, MinOfTwo
<1>4. SeekTo(l.from) \in 0 .. l.from /\ SeekTo(l.loop) \in 0 .. l.loop
  BY <1>1, <1>2, SeekLands
<1>5. tell' = SeekTo(l.from)
  <2>1. PcmLocation = 0
    BY <1>1 DEF PcmLocation
  <2>2. CASE 0 \in l.from .. l.to - 1
    <3>1. l.from = 0 /\ tell' = 0
      BY <2>1, <2>2, <1>1, <1>2, <1>3 DEF SetPLoop, SetLoopImpl
    <3> QED
      BY <3>1, <1>4
  <2>3. CASE 0 \notin l.from .. l.to - 1
    BY <2>1, <2>3 DEF SetPLoop, SetLoopImpl
  <2> QED
    BY <2>2, <2>3
<1>6. ~HasBuffer'
  <2>1. buffer' = buffer \/ buffer' = NoBuffer
    BY DEF SetPLoop, SetLoopImpl
  <2> QED
    BY <1>1, <2>1 DEF HasBuffer, NoBuffer, NoFrame, Frame, Count
<1>7. /\ range' = [on |-> TRUE, fr |-> l.from, to |-> l.to]
      /\ next' = NextLoop(l.loop, l.to, tell')
      /\ phase' = "looped" /\ times' = times /\ client' = client /\ precise' = precise
      /\ status' = status /\ ending' = ending /\ loader' = loader /\ caller' = caller
  BY DEF SetPLoop, SetLoopImpl
<1>8. /\ range'.on /\ range'.fr = l.from /\ range'.to = l.to
      /\ next'.armed /\ next'.from = l.loop /\ next'.to = l.to /\ next'.cur = tell'
  BY <1>7 DEF NextLoop
<1>9. /\ SeekTo(range.fr)' = SeekTo(l.from)
      /\ SeekTo(next.from)' = SeekTo(l.loop)
      /\ Min({range.to, Length})' = Min({l.to, Length})
      /\ Min({next.to, Length})' = Min({l.to, Length})
  BY <1>7, <1>8 DEF SeekTo
<1>10. NextStart' = SeekTo(l.from) /\ tell' < l.to /\ tell' < Length
  BY <1>2, <1>3, <1>4, <1>5, <1>8 DEF NextStart
<1>11. Rounds'
  <2>1. LongPass(range.fr, range.to)' /\ LongPass(next.from, next.to)'
    BY <1>2, <1>3, <1>4, <1>9 DEF LongPass
  <2>2. Watches(next)' /\ Watches(times)'
    BY <1>1, <1>4, <1>5, <1>7, <1>8, <1>10 DEF Watches
  <2> QED
    BY <2>1, <2>2, <1>1, <1>2, <1>4, <1>5, <1>7, <1>8, <1>9, <1>10 DEF Rounds
<1>12. NotShared' /\ OneCall' /\ Kept' /\ Collected' /\ Asked'
  BY <1>1, <1>6, <1>7, <1>8, <1>10 DEF NotShared, OneCall, Kept, Collected, Asked
<1>13. seen' = Now'
  BY <1>1, <1>7 DEF Sees, Locked
<1>14. PInv'
  BY <1>11, <1>12, <1>13 DEF PInv, Between
<1>15. /\ seen.play = [head |-> Bare, again |-> First, stop |-> End, passes |-> -1,
                       status |-> "PLAYING"]
       /\ seen.fading = FALSE
  <2>1. seen = Now /\ Left = -1
    BY <1>1 DEF PInv, Between, Locked, Left
  <2> QED
    BY <2>1, <1>1, NowIs
<1>16. seen'.play = [head |-> l.from, again |-> l.loop, stop |-> Min({l.to, Length}),
                     passes |-> -1, status |-> "PLAYING"]
  <2>1. ~PassIsOver(next)' /\ ~PassIsOver(times)'
    BY <1>1, <1>4, <1>5, <1>7, <1>8, <1>10 DEF PassIsOver
  <2>2. Bare' = Max({SeekTo(l.from), l.from})
    BY <2>1, <1>8, <1>10 DEF Bare
  <2>3. Bare' = l.from
    BY <2>2, <1>2, <1>4, MaxOfTwo
  <2>4. First' = l.loop /\ End' = Min({l.to, Length}) /\ Left' = -1
    BY <1>1, <1>7, <1>8, <1>9 DEF First, End, Left
  <2>5. Now'.play = [head |-> Bare', again |-> First', stop |-> End', passes |-> Left',
                     status |-> "PLAYING"]
    BY <1>1, <1>6, <1>7, NowIsNext
  <2> QED
    BY <2>3, <2>4, <2>5, <1>13
<1>17. seen'.fading = FALSE
  BY <1>1, <1>7, <1>13, NowIsNext
<1>18. seen'.play = [seen.play EXCEPT !.head = l.from, !.again = l.loop,
                                      !.stop = Min({l.to, Length})]
  <2> DEFINE q == [seen.play EXCEPT !.head = l.from, !.again = l.loop,
                                    !.stop = Min({l.to, Length})]
  <2>1. /\ DOMAIN q = {"head", "again", "stop", "passes", "status"}
        /\ q = [x \in DOMAIN q |-> q[x]]
    BY <1>15
  <2>2. /\ q.head = l.from /\ q.again = l.loop /\ q.stop = Min({l.to, Length})
        /\ q.passes = -1 /\ q.status = "PLAYING"
    BY <1>15
  <2> HIDE DEF q
  <2>3. q = [head |-> l.from, again |-> l.loop, stop |-> Min({l.to, Length}),
             passes |-> -1, status |-> "PLAYING"]
    BY <2>1, <2>2
  <2> QED
    BY <2>3, <1>16 DEF q
<1>19. Abstract!SetLoop(l)
  <2>1. Abstract!Min({l.to, Length}) = Min({l.to, Length})
    BY DEF Abstract!Min, Min
  <2>2. seen'.play = [seen.play EXCEPT !.head = l.from, !.again = l.loop,
                                       !.stop = Abstract!Min({l.to, Length})]
    BY <1>18, <2>1
  <2> QED
    BY <1>1, <1>7, <1>15, <1>17, <2>2 DEF Abstract!SetLoop
<1> QED
  BY <1>14, <1>19

\* SetLoopTimes before the player is shared: the playhead gets its passes.
LEMMA SetLoopTimesPlays ==
  ASSUME PInv, IInv', NEW n \in MusicTimes \cup SoundTimes, SetLoopTimes(n), Sees
  PROVE  PInv' /\ Abstract!SetTimes(n)
<1> USE SourceAssumption
<1>1. /\ TypeOK /\ phase # "shared" /\ status = "PLAYING" /\ loader.pc = "idle"
      /\ ~times.armed /\ ~HasBuffer /\ ~ending.armed /\ ending.left = 0 /\ caller = "idle"
      /\ \/ client = "music" /\ phase = "looped"
         \/ client = "sound" /\ phase = "new"
  BY DEF PInv, IInv, NotShared, SetLoopTimes, TypeOK
<1>2. n \in {-1} \cup Nat
  BY TimesAssumption
<1>3. /\ range' = [on |-> TRUE, fr |-> range.fr, to |-> range.to]
      /\ times' = (IF n < 0 THEN NoTimes ELSE AfterNLoops(n, tell))
      /\ phase' = "shared" /\ client' = client /\ precise' = precise /\ tell' = tell
      /\ next' = next /\ status' = status /\ ending' = ending /\ loader' = loader
      /\ caller' = caller /\ buffer' = buffer
  BY <1>1 DEF SetLoopTimes, PcmLocation
<1>4. /\ range'.on /\ range'.fr = range.fr /\ range'.to = range.to
      /\ times'.armed <=> n >= 0
      /\ n >= 0 => times'.n = n /\ times'.cur = tell
  BY <1>2, <1>3 DEF NoTimes, AfterNLoops
<1>5. /\ NextStart' = NextStart /\ SeekTo(range.fr)' = SeekTo(range.fr)
      /\ HasBuffer' = HasBuffer
      /\ First' = First /\ End' = End
      /\ LongPass(range.fr, range.to)' = LongPass(range.fr, range.to)
      /\ LongPass(next.from, next.to)' = LongPass(next.from, next.to)
      /\ Watches(next)' = Watches(next)
      /\ PassIsOver(next)' = PassIsOver(next)
  BY <1>3, <1>4 DEF NextStart, SeekTo, HasBuffer, First, End, LongPass, Watches, PassIsOver
<1>6. NextStart = tell /\ tell < range.to /\ tell \in Int
  <2>1. tell < range.to
    BY <1>1 DEF PInv, NotShared, OneCall, Npos, TypeOK
  <2>2. range.to \in Int /\ tell \in Int
    BY <1>1 DEF TypeOK, Npos
  <2> QED
    BY <2>1, <2>2 DEF NextStart
<1>7. ~PassIsOver(times) /\ ~PassIsOver(times)' /\ Watches(times)'
  BY <1>1, <1>2, <1>3, <1>4, <1>5, <1>6 DEF PassIsOver, Watches
<1>8. Bare' = Bare /\ Left' = n /\ Left = -1
  <2>1. Bare' = Bare
    BY <1>3, <1>4, <1>5, <1>7 DEF Bare
  <2> QED
    BY <2>1, <1>1, <1>2, <1>4 DEF Left
<1>9. Rounds'
  <2>1. CASE client = "music"
    <3>1. Rounds /\ next.armed /\ next.cur = tell
      BY <2>1, <1>1 DEF PInv, NotShared
    <3> QED
      BY <2>1, <3>1, <1>1, <1>2, <1>3, <1>4, <1>5, <1>7 DEF Rounds
  <2>2. CASE client # "music"
    BY <2>2, <1>3 DEF Rounds
  <2> QED
    BY <2>1, <2>2
<1>10. OneCall'
  <2>1. client # "music" => tell = 0
    BY <1>1 DEF PInv, NotShared
  <2> QED
    BY <2>1, <1>1, <1>2, <1>3, <1>4, <1>5 DEF PInv, OneCall
<1>11. NotShared' /\ Kept' /\ Collected' /\ Asked'
  BY <1>1, <1>3, <1>5 DEF NotShared, Kept, Collected, Asked
<1>12. seen' = Now' /\ seen = Now
  BY <1>1, <1>3 DEF Sees, Locked, PInv, Between
<1>13. PInv'
  BY <1>9, <1>10, <1>11, <1>12 DEF PInv, Between
<1>14. /\ seen.play = [head |-> Bare, again |-> First, stop |-> End, passes |-> -1,
                       status |-> "PLAYING"]
       /\ seen.fading = FALSE
  BY <1>1, <1>8, <1>12, NowIs
<1>15. /\ seen'.play = [head |-> Bare, again |-> First, stop |-> End, passes |-> n,
                        status |-> "PLAYING"]
       /\ seen'.fading = FALSE
  BY <1>1, <1>3, <1>5, <1>8, <1>12, NowIsNext
<1>16. seen'.play = [seen.play EXCEPT !.passes = n]
  BY <1>14, <1>15
<1> QED
  BY <1>1, <1>3, <1>13, <1>14, <1>15, <1>16 DEF Abstract!SetTimes

\* A place is the same when nothing it depends on has changed.
LEMMA SamePlace ==
  ASSUME UNCHANGED <<precise, tell, range, next, times>>
  PROVE  /\ Bare' = Bare /\ First' = First /\ End' = End /\ Left' = Left /\ Rest' = Rest
         /\ NextStart' = NextStart /\ SeekTo(range.fr)' = SeekTo(range.fr)
         /\ LongPass(range.fr, range.to)' = LongPass(range.fr, range.to)
         /\ LongPass(next.from, next.to)' = LongPass(next.from, next.to)
         /\ Watches(next)' = Watches(next) /\ Watches(times)' = Watches(times)
<1>1. NextStart' = NextStart /\ SeekTo(range.fr)' = SeekTo(range.fr)
  BY DEF NextStart, SeekTo
<1>2. Bare' = Bare /\ First' = First /\ End' = End /\ Left' = Left
  BY <1>1 DEF Bare, First, End, Left, PassIsOver
<1>3. /\ LongPass(range.fr, range.to)' = LongPass(range.fr, range.to)
      /\ LongPass(next.from, next.to)' = LongPass(next.from, next.to)
  BY DEF LongPass, SeekTo
<1>4. Watches(next)' = Watches(next) /\ Watches(times)' = Watches(times)
  BY <1>1 DEF Watches
<1> QED
  BY <1>1, <1>2, <1>3, <1>4 DEF Rest

\* Of a player that is between two calls, what a step leaves that moves nothing.
LEMMA StillRounds ==
  ASSUME PInv, UNCHANGED <<setup, tell, range, next, times>>,
         status' = "TERMINATED" \/ status # "TERMINATED"
  PROVE  Rounds'
<1>1. Rounds
  BY DEF PInv
<1> QED
  BY <1>1, SamePlace DEF Rounds, setup

-----------------------------------------------------------------------------
(* Steps that are not seen, and steering *)

\* The playhead as it is seen: what the refinement mapping makes of a step that
\* changes nothing of it.
Unseen == UNCHANGED <<client, phase, seen.play, seen.fading>>

\* A step that leaves the samples, the commands and the status alone.
LEMMA NothingMoves ==
  ASSUME PInv, IInv', Sees \/ seen' = seen,
         UNCHANGED <<setup, tell, range, status, buffer, commands>>,
         \/ loader' = loader
         \/ /\ loader.pc = "idle" /\ client = "music" /\ phase = "shared"
            /\ loader'.pc = "want" /\ loader'.request \in Requests
         \/ loader.pc = "want" /\ loader'.pc = "idle",
         (client = "music" /\ phase = "shared") \/ caller' = caller
  PROVE  PInv' /\ Unseen
<1> USE DEF setup, commands
<1>1. HasBuffer' = HasBuffer
  BY DEF HasBuffer
<1>2. Now' = Now
  <2>1. Now'.play = Now.play
    BY <1>1, SamePlace, NowIs, NowIsNext
  <2>2. Now'.fading = Now.fading
    BY NowIs, NowIsNext
  <2>3. /\ Now = [play |-> Now.play, fading |-> Now.fading]
        /\ Now' = [play |-> Now'.play, fading |-> Now'.fading]
    BY DEF Now
  <2> QED
    BY <2>1, <2>2, <2>3
<1>3. Locked' = Locked
  BY DEF Locked
<1>4. seen' = seen
  BY <1>2, <1>3 DEF Sees, PInv, Between
<1>5. Rounds'
  BY StillRounds
<1>6. NotShared'
  BY <1>1 DEF PInv, NotShared
<1>7. OneCall'
  BY <1>1, <1>4 DEF PInv, OneCall
<1>8. Kept'
  BY <1>1, SamePlace DEF PInv, Kept
<1>9. Collected'
  <2>1. loader'.pc = "pcm" => loader' = loader
    OBVIOUS
  <2> QED
    BY <2>1, <1>4, SamePlace DEF PInv, Collected, Delivered
<1>10. Asked'
  BY DEF PInv, Asked
<1>11. Between'
  BY <1>2, <1>3, <1>4 DEF PInv, Between
<1> QED
  BY <1>4, <1>5, <1>6, <1>7, <1>8, <1>9, <1>10, <1>11 DEF PInv, Unseen

\* A step of the game's thread while nobody holds the lock.
LEMMA Steers ==
  ASSUME PInv, IInv', Sees, ~Locked, client = "music", phase = "shared",
         UNCHANGED <<setup, tell, range, buffer, next, times, loader>>,
         status = "TERMINATED" => status' = "TERMINATED",
         ending'.armed \/ ending'.left = 0
  PROVE  /\ PInv' /\ UNCHANGED <<client, phase>>
         /\ seen.fading \in BOOLEAN /\ seen'.fading \in BOOLEAN
         /\ seen.fading <=> status # "TERMINATED" /\ ending.left > 0
         /\ seen'.fading <=> status' # "TERMINATED" /\ ending'.left > 0
         /\ status = "TERMINATED" => seen.play = Ended
         /\ status' = "TERMINATED" => seen'.play = Ended
         /\ status # "TERMINATED" => seen.play.status = status
         /\ status # "TERMINATED" /\ status' # "TERMINATED"
              => seen'.play = [seen.play EXCEPT !.status = status']
         /\ status' = status => seen'.play = seen.play
<1> USE DEF setup
<1>1. HasBuffer' = HasBuffer
  BY DEF HasBuffer
<1>2. seen = Now /\ seen' = Now' /\ Locked' = Locked
  BY DEF Sees, PInv, Between, Locked
<1>3. Rounds'
  BY StillRounds
<1>4. NotShared' /\ OneCall'
  BY DEF NotShared, OneCall
<1>5. Kept'
  BY <1>1, SamePlace DEF PInv, Kept
<1>6. Collected' /\ Asked'
  BY DEF PInv, Collected, Asked, Locked
<1>7. PInv'
  BY <1>2, <1>3, <1>4, <1>5, <1>6 DEF PInv, Between
<1>8. /\ seen.fading \in BOOLEAN /\ seen'.fading \in BOOLEAN
      /\ seen.fading <=> status # "TERMINATED" /\ ending.left > 0
      /\ seen'.fading <=> status' # "TERMINATED" /\ ending'.left > 0
  BY <1>2, NowIs, NowIsNext
<1> DEFINE head == IF HasBuffer THEN buffer.frame.fr ELSE Bare
           at(st) == [head |-> head, again |-> First, stop |-> End, passes |-> Left, status |-> st]
<1>9. /\ seen.play = IF status = "TERMINATED" THEN Ended ELSE at(status)
      /\ seen'.play = IF status' = "TERMINATED" THEN Ended ELSE at(status')
  BY <1>1, <1>2, SamePlace, NowIs, NowIsNext
<1>10. [at(status) EXCEPT !.status = status'] = at(status') /\ at(status).status = status
  OBVIOUS
<1> HIDE DEF at
<1> QED
  BY <1>7, <1>8, <1>9, <1>10

\* Pause and Unpause, when they have the mutex, whatever they saw before.
LEMMA PauseIsSeen ==
  ASSUME PInv, IInv', Sees, Pause \/ Unpause
  PROVE  PInv' /\ (Unseen \/ Abstract!Steer)
<1>1. /\ ~Locked /\ client = "music" /\ phase = "shared"
      /\ UNCHANGED <<setup, tell, range, buffer, next, times, loader>> /\ ending' = ending
      /\ status = "TERMINATED" => status' = "TERMINATED"
      /\ \/ status' = status
         \/ status = "PLAYING" /\ status' = "PAUSED"
         \/ status = "PAUSED" /\ status' = "PLAYING"
  BY DEF Pause, Unpause, PInv, NotShared, commands
<1>2. ending'.armed \/ ending'.left = 0
  BY <1>1 DEF PInv, NotShared
<1>3. PInv' /\ UNCHANGED <<client, phase>>
  BY <1>1, <1>2, Steers
<1>4. seen'.fading = seen.fading
  BY <1>1, <1>2, Steers
<1>5. CASE status' = status
  BY <1>1, <1>2, <1>3, <1>4, <1>5, Steers DEF Unseen
<1>6. CASE status' # status
  <2>1. status # "TERMINATED" /\ status' # "TERMINATED"
    BY <1>1, <1>6
  <2>2. seen.play.status = status /\ seen'.play = [seen.play EXCEPT !.status = status']
    BY <2>1, <1>1, <1>2, Steers
  <2> QED
    BY <2>2, <1>1, <1>3, <1>4, <1>6 DEF Abstract!Steer
<1> QED
  BY <1>5, <1>6

\* Terminate.
LEMMA TerminateIsSeen ==
  ASSUME PInv, IInv', Sees, Terminate
  PROVE  PInv' /\ Abstract!Steer
<1>1. /\ ~Locked /\ client = "music" /\ phase = "shared" /\ status' = "TERMINATED"
      /\ UNCHANGED <<setup, tell, range, buffer, next, times, loader>> /\ ending' = ending
  BY DEF Terminate, Steered, commands
<1>2. ending'.armed \/ ending'.left = 0
  BY <1>1 DEF PInv, NotShared
<1>3. PInv' /\ UNCHANGED <<client, phase>> /\ seen'.play = Ended /\ seen'.fading = FALSE
  BY <1>1, <1>2, Steers
<1> QED
  BY <1>1, <1>3 DEF Abstract!Steer, Abstract!Ended, Ended

\* FadeOut: the playhead may stop from now on.
LEMMA FadeOutIsSeen ==
  ASSUME PInv, IInv', Sees, NEW f \in Fades, FadeOut(f)
  PROVE  PInv' /\ (Unseen \/ Abstract!Steer)
<1>1. /\ ~Locked /\ client = "music" /\ phase = "shared" /\ status' = status
      /\ UNCHANGED <<setup, tell, range, buffer, next, times, loader>>
  BY DEF FadeOut, Steered, commands
<1>2. f \in Nat /\ ending.left \in Nat
  BY FadeAssumption DEF PInv, IInv, TypeOK
<1>3. /\ Min({ending.left, f}) = IF ending.left <= f THEN ending.left ELSE f
      /\ Max({ending.left, f}) = IF ending.left >= f THEN ending.left ELSE f
  BY <1>2, MinOfTwo, MaxOfTwo
<1>4. /\ ending'.armed
      /\ ending'.left > 0 <=> ending.left > 0 \/ f > 0
  BY <1>2, <1>3 DEF FadeOut
<1>5. PInv' /\ UNCHANGED <<client, phase>> /\ seen'.play = seen.play
  BY <1>1, <1>4, Steers
<1>6. /\ seen.fading \in BOOLEAN /\ seen'.fading \in BOOLEAN
      /\ seen.fading <=> status # "TERMINATED" /\ ending.left > 0
      /\ seen'.fading <=> status # "TERMINATED" /\ ending'.left > 0
      /\ status # "TERMINATED" => seen.play.status = status
  BY <1>1, <1>4, Steers
<1>7. CASE seen'.fading = seen.fading
  BY <1>5, <1>7 DEF Unseen
<1>8. CASE seen'.fading # seen.fading
  <2>1. seen'.fading = TRUE /\ seen.play.status # "TERMINATED"
    BY <1>4, <1>6, <1>8
  <2> QED
    BY <2>1, <1>1, <1>5 DEF Abstract!Steer
<1> QED
  BY <1>7, <1>8

-----------------------------------------------------------------------------
(* LoadPCM: the lock and the end of the call *)

\* What a block of samples does once it is known where the one before came to.
LEMMA BlockDelivered ==
  ASSUME NEW p, NEW g \in Nat, NEW h \in Int, NEW a \in Int, NEW s \in Int, NEW n \in Int,
         NEW k \in Nat \ {0}, h + k <= s,
         NEW q, q = Abstract!Moved(p, g), ComesTo(q, h, a, s, n)
  PROVE  Abstract!Moved(p, g + k) = TurnedTo(h + k, a, s, n)
<1>1. Abstract!Moved(p, g + k) = Abstract!Moved(q, k)
  BY MovedTwice
<1>2. CASE q = HeadAt(h, a, s, n)
  BY <1>1, <1>2, MovedInside
<1>3. CASE h = a /\ n \in Nat /\ q = HeadAt(s, a, s, n + 1)
  <2>1. n + 1 \in Nat \ {0} /\ (n + 1) - 1 = n /\ n # -1 /\ a + k <= s
    BY <1>3
  <2>2. Abstract!Moved(q, k) = HeadAt(a + k, a, s, n)
    BY <1>3, <2>1, MovedAcross
  <2> QED
    BY <1>1, <1>3, <2>1, <2>2 DEF TurnedTo
<1> QED
  BY <1>2, <1>3 DEF ComesTo

\* When LoadPCM has the mutex, nothing is collected but the remainder, and the head is there.
LEMMA LockPCMIsUnseen ==
  ASSUME PInv, IInv', Sees, LockPCM, status = "PLAYING"
  PROVE  PInv' /\ Unseen
<1> USE DEF setup, commands
<1> DEFINE c == Count(buffer.frame)
           r == loader.request
<1>1. /\ loader' = Call("pcm", r, c, buffer.frame, tell, buffer.gain) /\ buffer' = NoBuffer
      /\ UNCHANGED <<setup, tell, range, status, commands, caller>>
  BY DEF LockPCM
<1>2. /\ loader'.pc = "pcm" /\ loader'.request = r /\ loader'.got = c
      /\ loader'.piece = buffer.frame
  BY <1>1 DEF Call
<1>3. /\ client = "music" /\ phase = "shared" /\ r \in Requests /\ r \in Nat \ {0}
      /\ ~Locked /\ Locked'
  BY <1>2, RequestAssumption DEF LockPCM, PInv, IInv, LoaderOK, Asked, Locked
<1>4. seen = Now /\ seen' = seen
  BY <1>3 DEF PInv, Between, Sees
<1>5. /\ seen.play = HeadAt(IF HasBuffer THEN buffer.frame.fr ELSE Bare, First, End, Left)
      /\ seen.fading \in BOOLEAN /\ (seen.fading <=> ending.left > 0)
  BY <1>4, NowIs DEF HeadAt
<1>6. seen.play.status = "PLAYING"
  BY <1>5 DEF HeadAt
<1>7. First \in Int /\ End \in Int /\ Left \in Int
  BY RestTypes DEF PInv
<1>8. /\ buffer.frame.fr \in Int /\ buffer.frame.to \in Int
      /\ buffer.frame.fr <= buffer.frame.to /\ c = buffer.frame.to - buffer.frame.fr
  BY DEF PInv, IInv, TypeOK, BufferFits, Count
<1> HIDE DEF c, r
<1>9. /\ c < r => ComesTo(Delivered(c), Bare, First, End, Left)
      /\ c = r => Delivered(r) = Rest
      /\ c > r => /\ Delivered(r) = HeadAt(buffer.frame.to - (c - r), First, End, Left)
                  /\ buffer.frame.to <= End
                  /\ TurnedTo(buffer.frame.to, First, End, Left) = Rest
  <2>1. CASE ~HasBuffer
    <3>1. c = 0
      BY <2>1, <1>8 DEF HasBuffer, c
    <3>2. Delivered(c) = Rest
      BY <2>1, <3>1, <1>5, MovedBySteps DEF Delivered, Rest
    <3> QED
      BY <3>1, <3>2, <1>3 DEF ComesTo, Rest
  <2>2. CASE HasBuffer
    <3>1. /\ buffer.frame.to <= End
          /\ TurnedTo(buffer.frame.to, First, End, Left) = Rest
      BY <2>2, <1>3 DEF PInv, Kept, LockPCM
    <3>2. c \in Nat \ {0} /\ buffer.frame.fr + c = buffer.frame.to
      BY <2>2, <1>8 DEF HasBuffer, c
    <3>3. seen.play = HeadAt(buffer.frame.fr, First, End, Left)
      BY <2>2, <1>5
    <3>4. Delivered(c) = Rest
      BY <3>1, <3>2, <3>3, <1>7, <1>8, MovedInside DEF Delivered
    <3>5. ASSUME c > r
          PROVE  Delivered(r) = HeadAt(buffer.frame.to - (c - r), First, End, Left)
      <4>1. /\ buffer.frame.fr + r <= End /\ buffer.frame.fr + r # End
            /\ buffer.frame.to - (c - r) = buffer.frame.fr + r
        BY <3>1, <3>2, <3>5, <1>3, <1>7, <1>8
      <4>2. Delivered(r) = TurnedTo(buffer.frame.fr + r, First, End, Left)
        BY <4>1, <3>3, <1>3, <1>7, <1>8, MovedInside DEF Delivered
      <4> QED
        BY <4>1, <4>2 DEF TurnedTo
    <3> QED
      BY <3>1, <3>4, <3>5 DEF ComesTo, Rest
  <2> QED
    BY <2>1, <2>2
<1>10. ~HasBuffer'
  BY <1>1 DEF HasBuffer, NoBuffer, NoFrame, Frame, Count
<1>11. Collected'
  <2>1. Delivered(loader.got)' = Delivered(c) /\ Delivered(loader.request)' = Delivered(r)
    BY <1>2, <1>4 DEF Delivered
  <2>2. /\ Bare' = Bare /\ First' = First /\ End' = End /\ Left' = Left /\ Rest' = Rest
        /\ status' = status /\ ending' = ending
    BY <1>1, SamePlace
  <2> QED
    BY <1>2, <1>4, <1>5, <1>6, <1>9, <2>1, <2>2 DEF Collected
<1>12. Rounds'
  BY <1>1, StillRounds
<1>13. NotShared' /\ OneCall' /\ Kept' /\ Asked' /\ Between'
  BY <1>1, <1>2, <1>3, <1>10 DEF PInv, NotShared, OneCall, Kept, Asked, Between, Locked
<1> QED
  BY <1>1, <1>4, <1>11, <1>12, <1>13 DEF PInv, Unseen

\* The end of LoadPCM is a block for the playhead: what was collected is what was asked for.
LEMMA FinishPCMIsABlock ==
  ASSUME PInv, IInv', Sees, FinishPCM
  PROVE  PInv' /\ \E n \in Requests : Abstract!PlayBlock(n)
<1> USE DEF setup, commands
<1> DEFINE r == loader.request
           excess == loader.got - r
<1>1. /\ loader.pc = "pcm" /\ loader' = Idle
      /\ UNCHANGED <<setup, tell, range, status, commands, caller>>
      /\ loader.got >= r \/ status # "PLAYING"
      /\ buffer' = IF excess <= 0 THEN buffer
                   ELSE [frame |-> Frame(loader.piece.to - excess, loader.piece.to),
                         cur |-> loader.cur - excess, gain |-> loader.gain + 1]
  BY DEF FinishPCM
<1>2. /\ client = "music" /\ phase = "shared" /\ ~HasBuffer /\ r \in Requests
      /\ r \in Nat /\ loader.got \in Nat
      /\ loader.piece.fr \in Int /\ loader.piece.to \in Int
  BY <1>1 DEF PInv, IInv, LoaderOK, Asked, TypeOK
<1>3. /\ seen.play.status = "PLAYING" /\ seen.fading \in BOOLEAN
      /\ status \in {"PLAYING", "TERMINATED"}
  BY <1>1 DEF PInv, Collected
<1>4. ~Locked' /\ loader'.pc = "idle"
  BY <1>1 DEF Locked, Idle, Call
<1>5. seen' = Now'
  BY <1>4 DEF Sees
<1>6. Rounds' /\ NotShared' /\ OneCall' /\ Collected' /\ Asked' /\ Between'
  <2>1. Rounds'
    BY <1>1, StillRounds
  <2> QED
    BY <2>1, <1>1, <1>2, <1>4, <1>5 DEF PInv, NotShared, OneCall, Collected, Asked, Between
<1>7. CASE status = "TERMINATED"
  <2>1. seen'.play = Ended /\ seen'.fading = FALSE
    BY <1>1, <1>5, <1>7, NowIsNext
  <2>2. Abstract!Moved(seen.play, r) = Ended \/ seen.fading
    BY <1>1, <1>7 DEF PInv, Collected, Delivered
  <2>3. Abstract!PlayBlock(r)
    BY <1>1, <1>2, <1>3, <2>1, <2>2 DEF Abstract!PlayBlock, Abstract!Ended, Ended
  <2>4. Kept'
    BY <1>1, <1>7 DEF Kept
  <2> QED
    BY <1>2, <1>6, <2>3, <2>4 DEF PInv
<1>8. CASE status = "PLAYING"
  <2>1. /\ seen.fading <=> ending.left > 0
        /\ loader.got = r => Delivered(r) = Rest
        /\ loader.got > r =>
             /\ Delivered(r) = HeadAt(loader.piece.to - excess, First, End, Left)
             /\ loader.piece.to <= End
             /\ TurnedTo(loader.piece.to, First, End, Left) = Rest
    BY <1>1, <1>8 DEF PInv, Collected
  <2>2. seen'.play = Delivered(r) /\ Kept'
    <3>1. CASE excess <= 0
      <4>1. loader.got = r /\ buffer' = buffer
        BY <3>1, <1>1, <1>2, <1>8
      <4>2. ~HasBuffer'
        BY <4>1, <1>2 DEF HasBuffer
      <4> QED
        BY <4>1, <4>2, <2>1, <1>1, <1>5, <1>8, SamePlace, NowIsNext DEF Kept, Rest, HeadAt
    <3>2. CASE ~(excess <= 0)
      <4>1. /\ loader.got > r /\ buffer'.frame.fr = loader.piece.to - excess
            /\ buffer'.frame.to = loader.piece.to
        BY <3>2, <1>1, <1>2 DEF Frame
      <4>2. HasBuffer'
        BY <3>2, <4>1, <1>2 DEF HasBuffer, Count
      <4> HIDE DEF excess
      <4>3. seen'.play = HeadAt(loader.piece.to - excess, First, End, Left)
        BY <4>1, <4>2, <1>1, <1>5, <1>8, SamePlace, NowIsNext DEF HeadAt
      <4>4. Kept'
        BY <4>1, <2>1, <1>1, SamePlace DEF Kept
      <4> QED
        BY <4>1, <4>3, <4>4, <2>1
    <3> QED
      BY <3>1, <3>2
  <2>3. seen'.fading = seen.fading
    BY <2>1, <1>1, <1>3, <1>5, <1>8, NowIsNext
  <2>4. seen'.play # Ended
    BY <1>1, <1>5, <1>8, NowIsNext DEF Ended
  <2>5. Abstract!PlayBlock(r)
    BY <2>2, <2>3, <2>4, <1>1, <1>2, <1>3 DEF Abstract!PlayBlock, Abstract!Ended, Ended, Delivered
  <2> QED
    BY <2>2, <2>5, <1>2, <1>6 DEF PInv
<1> QED
  BY <1>3, <1>7, <1>8

-----------------------------------------------------------------------------
(* LoadPCM: one frame *)

\* What a pull of LoadPCM leaves of everything but the samples.
LEMMA PullKeeps ==
  ASSUME PInv, IInv', Sees, PullPCM, Rounds', ending'.armed \/ ending'.left = 0,
         loader'.pc = "pcm", loader'.request = loader.request
  PROVE  /\ seen' = seen /\ NotShared' /\ OneCall' /\ Kept' /\ Asked' /\ Between' /\ Unseen
<1>1. /\ client = "music" /\ phase = "shared" /\ ~HasBuffer /\ loader.pc = "pcm"
      /\ UNCHANGED <<setup, buffer, caller>>
  BY DEF PullPCM, PInv, IInv, LoaderOK
<1>2. Locked' /\ seen' = seen
  BY DEF Locked, Sees
<1>3. ~HasBuffer'
  BY <1>1 DEF HasBuffer
<1> QED
  BY <1>1, <1>2, <1>3 DEF setup, PInv, NotShared, OneCall, Kept, Asked, Between, Unseen

\* Another frame for LoadPCM: the head it comes to is further by what the frame leaves.
LEMMA PullPCMIsUnseen ==
  ASSUME PInv, IInv', Sees, PullPCM
  PROVE  PInv' /\ Unseen
<1> DEFINE r == loader.request
           g == loader.got
           piece == ClipFrame(NextFrame, RangeAfter)
           count == Count(piece)
<1>1. /\ loader.pc = "pcm" /\ g < r /\ LoadNext /\ UNCHANGED setup
      /\ status = "PLAYING" /\ ending' = EndingAfter
  BY DEF PullPCM, LoadNext, Loaded
<1>2. /\ client = "music" /\ phase = "shared" /\ g \in Nat /\ r \in Nat
      /\ IInv /\ Rounds /\ TypeOK
  BY <1>1 DEF PInv, IInv, LoaderOK, TypeOK
<1>3. /\ seen.play.status = "PLAYING" /\ seen.fading \in BOOLEAN
      /\ seen.fading <=> ending.left > 0
      /\ ComesTo(Delivered(g), Bare, First, End, Left)
  BY <1>1 DEF PInv, Collected
<1>4. /\ First \in Int /\ End \in Int /\ Left \in Int /\ First < End
      /\ range.on
      /\ next.armed /\ times.armed => next.cur = times.cur
  <2>1. First \in Int /\ End \in Int /\ Left \in Int
    BY <1>2, RestTypes
  <2>2. /\ range.on
        /\ SeekTo(range.fr) \in 0 .. range.fr /\ range.fr < SeekTo(range.fr) + Chunk
        /\ SeekTo(range.fr) + Chunk < End
        /\ next.armed => /\ SeekTo(next.from) \in 0 .. next.from
                         /\ next.from < SeekTo(next.from) + Chunk
                         /\ SeekTo(next.from) + Chunk < End
        /\ next.armed /\ times.armed => next.cur = times.cur
    BY <1>1, <1>2, RoundPlaces
  <2>3. range.fr \in Int /\ next.from \in Int /\ Chunk \in Int
    BY <1>2, SourceAssumption DEF TypeOK
  <2> QED
    BY <2>1, <2>2, <2>3 DEF First
<1>5. ending'.armed \/ ending'.left = 0
  BY <1>1 DEF EndingAfter, NoEnding
<1>6. ending.armed \/ ending.left = 0
  BY DEF PInv, NotShared
<1>7. ~PassesAreOver =>
        /\ status' \in {"PLAYING", "TERMINATED"}
        /\ status' = "PLAYING" => (ending'.left > 0 <=> ending.left > 0)
        /\ status' = "TERMINATED" => ending.left > 0
  BY <1>1, <1>2, <1>4, <1>6, PullFades
<1>8. \A j : Abstract!Moved(seen.play, j) = Delivered(j)
  BY DEF Delivered
<1>9. Count(NextFrame) = 0 => loader' = loader
  BY DEF PullPCM
<1>10. Count(NextFrame) # 0 /\ count # 0 =>
         loader' = Call("pcm", r, g + count, piece, piece.to, 0)
  BY DEF PullPCM
<1> HIDE DEF r, g, piece, count
<1>11. CASE PassIsOver(times) /\ times.n = 0
  <2>1. /\ Count(NextFrame) = 0 /\ status' = "TERMINATED" /\ Bare = End /\ Left = 0
    BY <1>1, <1>2, <1>11, PullEnds
  <2>2. loader' = loader
    BY <1>9, <2>1
  <2>3. Rounds'
    BY <2>1 DEF Rounds
  <2>4. seen' = seen /\ NotShared' /\ OneCall' /\ Kept' /\ Asked' /\ Between' /\ Unseen
    BY <1>1, <1>5, <2>2, <2>3, PullKeeps
  <2>5. Delivered(r) = Abstract!Ended
    <3>1. Delivered(g) = HeadAt(End, First, End, 0)
      BY <1>3, <1>4, <2>1 DEF ComesTo
    <3>2. r - g \in Nat \ {0} /\ g + (r - g) = r
      BY <1>1, <1>2 DEF g, r
    <3>3. Abstract!Moved(HeadAt(End, First, End, 0), r - g) = Abstract!Ended
      BY <3>2, <1>4, MovedOut
    <3> QED
      BY <3>1, <3>2, <3>3, <1>2, <1>8, MovedTwice
  <2>6. Collected'
    BY <2>1, <2>2, <2>4, <2>5, <1>3 DEF Collected, Delivered, Abstract!Ended, Ended, r
  <2> QED
    BY <2>3, <2>4, <2>6 DEF PInv
<1>12. CASE PassIsOver(next) /\ ~(PassIsOver(times) /\ times.n = 0)
  <2>1. times.armed => times.n # 0
    BY <1>4, <1>12 DEF PassIsOver
  <2>2. /\ Count(NextFrame) = 0 /\ ~PassesAreOver
        /\ First' = First /\ End' = End /\ Bare' = First
        /\ IF times.armed THEN Bare = End /\ Left \in Nat \ {0} /\ Left' = Left - 1
                          ELSE Bare = First /\ Left = -1 /\ Left' = -1
        /\ Rounds'
    BY <1>1, <1>2, <1>12, <2>1, PullEnters
  <2>3. loader' = loader
    BY <1>9, <2>2
  <2>4. seen' = seen /\ NotShared' /\ OneCall' /\ Kept' /\ Asked' /\ Between' /\ Unseen
    BY <1>1, <1>5, <2>2, <2>3, PullKeeps
  <2>5. ComesTo(Delivered(g), Bare', First', End', Left')
    <3>1. CASE times.armed
      <4>1. Delivered(g) = HeadAt(End, First, End, Left)
        BY <3>1, <2>2, <1>3, <1>4 DEF ComesTo
      <4>2. Left' \in Nat /\ Left = Left' + 1
        BY <3>1, <2>2
      <4> QED
        BY <4>1, <4>2, <2>2 DEF ComesTo
    <3>2. CASE ~times.armed
      <4>1. Delivered(g) = HeadAt(First, First, End, Left)
        BY <3>2, <2>2, <1>3 DEF ComesTo
      <4> QED
        BY <3>2, <4>1, <2>2 DEF ComesTo
    <3> QED
      BY <3>1, <3>2
  <2>6. Delivered(loader.got)' = Delivered(g)
    BY <2>3, <2>4 DEF Delivered, g
  <2>7. Collected'
    BY <2>2, <2>3, <2>4, <2>5, <2>6, <1>1, <1>2, <1>3, <1>7 DEF Collected, g, r
  <2> QED
    BY <2>2, <2>4, <2>7 DEF PInv
<1>13. CASE ~PassIsOver(next) /\ ~(PassIsOver(times) /\ times.n = 0)
  <2>1. /\ Count(NextFrame) # 0 /\ count # 0
        /\ piece.fr \in Int /\ piece.fr < piece.to /\ piece.to \in Int /\ piece.to <= End
        /\ ~PassesAreOver
        /\ First' = First /\ End' = End
        /\ Rest' = TurnedTo(piece.to, First, End, Left')
        /\ Rounds'
        /\ Left' \in Int
        /\ ComesTo(Delivered(g), piece.fr, First, End, Left')
    <3>1. CASE ~PassIsOver(times)
      <4>1. /\ Count(NextFrame) # 0 /\ Count(piece) # 0
            /\ piece.fr = Bare /\ piece.fr \in Int /\ piece.fr < piece.to /\ piece.to \in Int
            /\ piece.to <= End
            /\ ~PassesAreOver
            /\ First' = First /\ End' = End /\ Left' = Left
            /\ Rest' = TurnedTo(piece.to, First, End, Left)
            /\ Rounds'
        BY <1>1, <1>2, <1>13, <3>1, PullRuns DEF piece
      <4> QED
        BY <4>1, <1>3, <1>4 DEF count
    <3>2. CASE PassIsOver(times)
      <4>1. ~next.armed
        BY <3>2, <1>4, <1>13 DEF PassIsOver
      <4>2. /\ Count(NextFrame) # 0 /\ Count(piece) # 0
            /\ piece.fr = First /\ piece.fr \in Int /\ piece.fr < piece.to /\ piece.to \in Int
            /\ piece.to <= End
            /\ ~PassesAreOver
            /\ Bare = End /\ Left \in Nat \ {0}
            /\ First' = First /\ End' = End /\ Left' = Left - 1
            /\ Rest' = TurnedTo(piece.to, First, End, Left - 1)
            /\ Rounds'
        BY <1>1, <1>2, <1>13, <3>2, <4>1, PullCounts DEF piece
      <4>3. Delivered(g) = HeadAt(End, First, End, Left)
        BY <4>2, <1>3, <1>4 DEF ComesTo
      <4>4. Left' \in Nat /\ Left' + 1 = Left
        BY <4>2
      <4> QED
        BY <4>2, <4>3, <4>4 DEF count, ComesTo
    <3> QED
      BY <3>1, <3>2
  <2>2. loader' = Call("pcm", r, g + count, piece, piece.to, 0)
    BY <2>1, <1>10
  <2>3. /\ loader'.pc = "pcm" /\ loader'.request = r /\ loader'.got = g + count
        /\ loader'.piece = piece
    BY <2>2 DEF Call
  <2>4. seen' = seen /\ NotShared' /\ OneCall' /\ Kept' /\ Asked' /\ Between' /\ Unseen
    BY <1>1, <1>5, <2>1, <2>3, PullKeeps DEF r
  <2>5. count \in Nat \ {0} /\ piece.fr + count = piece.to
    BY <2>1 DEF count, Count
  <2>6. ASSUME NEW k \in Nat \ {0}, k <= count
        PROVE  Delivered(g + k) = TurnedTo(piece.fr + k, First, End, Left')
    <3>1. piece.fr + k <= End
      BY <2>1, <2>5, <2>6, <1>4
    <3>2. Delivered(g) = Abstract!Moved(seen.play, g)
      BY DEF Delivered
    <3>3. Abstract!Moved(seen.play, g + k) = TurnedTo(piece.fr + k, First, End, Left')
      BY <3>1, <3>2, <2>1, <1>2, <1>4, BlockDelivered
    <3> QED
      BY <3>3, <1>8
  <2>7. Delivered(g + count) = Rest'
    BY <2>1, <2>5, <2>6
  <2>8. ASSUME g + count > r
        PROVE  Delivered(r) = HeadAt(piece.to - ((g + count) - r), First, End, Left')
    <3>1. /\ r - g \in Nat \ {0} /\ r - g <= count /\ g + (r - g) = r
          /\ piece.fr + (r - g) = piece.to - ((g + count) - r)
          /\ piece.fr + (r - g) # End
      BY <2>1, <2>5, <2>8, <1>1, <1>2, <1>4 DEF g, r
    <3>2. Delivered(r) = TurnedTo(piece.fr + (r - g), First, End, Left')
      BY <2>6, <3>1
    <3> QED
      BY <3>1, <3>2 DEF TurnedTo
  <2>9. /\ Delivered(loader.got)' = Delivered(g + count)
         /\ Delivered(loader.request)' = Delivered(r)
    BY <2>3, <2>4 DEF Delivered
  <2>10. status' = "PLAYING" =>
          /\ loader'.got < loader'.request =>
               ComesTo(Delivered(loader.got)', Bare', First', End', Left')
          /\ loader'.got = loader'.request => Delivered(loader.request)' = Rest'
          /\ loader'.got > loader'.request =>
               /\ Delivered(loader.request)'
                  = HeadAt(loader'.piece.to - (loader'.got - loader'.request), First', End', Left')
               /\ loader'.piece.to <= End'
               /\ TurnedTo(loader'.piece.to, First', End', Left') = Rest'
    BY <2>1, <2>3, <2>7, <2>8, <2>9 DEF ComesTo, Rest
  <2>11. Collected'
    BY <2>1, <2>4, <2>10, <1>3, <1>7 DEF Collected
  <2> QED
    BY <2>1, <2>4, <2>11 DEF PInv
<1> QED
  BY <1>11, <1>12, <1>13

-----------------------------------------------------------------------------
(* LoadRemain, and the refinement *)

\* LoadRemain: what a step of it needs to leave.
LEMMA RemainKeeps ==
  ASSUME PInv, IInv', Sees, client # "music", phase = "shared", UNCHANGED <<setup, caller>>,
         OneCall', ~ending'.armed, ending'.left = 0, loader'.pc \in {"idle", "remain"}
  PROVE  PInv'
<1>1. Rounds' /\ Kept' /\ Collected' /\ Asked'
  BY DEF Rounds, Kept, Collected, Asked, setup
<1>2. NotShared'
  BY DEF PInv, NotShared, setup
<1>3. Between'
  BY DEF Between, Sees
<1> QED
  BY <1>1, <1>2, <1>3 DEF PInv

\* When LoadRemain has the mutex.
LEMMA LockRemainIsUnseen ==
  ASSUME PInv, IInv', Sees, LockRemain
  PROVE  PInv' /\ Unseen
<1> USE DEF setup, commands
<1>1. /\ client # "music" /\ phase = "shared" /\ status = "PLAYING" /\ loader.pc = "idle"
      /\ loader' = Call("remain", 0, 0, buffer.frame, PcmLocation, buffer.gain)
      /\ buffer' = NoBuffer
      /\ UNCHANGED <<setup, tell, range, status, commands, caller>>
  BY DEF LockRemain
<1>2. /\ tell = 0 /\ ~HasBuffer /\ ~ending.armed /\ ending.left = 0
      /\ ~next.armed /\ range.fr = 0 /\ range.to = Npos /\ tell < Length
  BY <1>1 DEF PInv, OneCall, NotShared
<1>3. loader'.pc = "remain" /\ loader'.cur = 0
  BY <1>1, <1>2 DEF Call, PcmLocation
<1>4. seen = Now /\ seen' = seen
  BY <1>1, <1>3 DEF Sees, PInv, Between, Locked
<1>5. seen.play.status = "PLAYING"
  <2>1. seen.play = [head |-> IF HasBuffer THEN buffer.frame.fr ELSE Bare,
                     again |-> First, stop |-> End, passes |-> Left, status |-> "PLAYING"]
    BY <1>1, <1>4, NowIs
  <2> QED
    BY <2>1
<1>6. seen.fading = FALSE
  BY <1>2, <1>4, NowIs
<1>7. ~HasBuffer'
  BY <1>1 DEF HasBuffer, NoBuffer, NoFrame, Frame, Count
<1>8. OneCall'
  BY <1>1, <1>2, <1>3, <1>4, <1>5, <1>6, <1>7 DEF OneCall
<1>9. PInv'
  BY <1>1, <1>2, <1>3, <1>8, RemainKeeps
<1> QED
  BY <1>1, <1>4, <1>9 DEF Unseen

\* Another frame for LoadRemain: if it is the last one, the rest has been played.
LEMMA PullRemainPlays ==
  ASSUME PInv, IInv', Sees, PullRemain
  PROVE  PInv' /\ (Unseen \/ Abstract!PlayRest)
<1> USE SourceAssumption DEF setup, commands
<1>1. /\ loader.pc = "remain" /\ LoadNext /\ Loaded /\ UNCHANGED <<setup, caller>>
      /\ IInv /\ TypeOK /\ RangesOK
  BY DEF PullRemain, LoadNext, PInv, IInv
<1>2. client # "music"
  BY <1>1 DEF IInv, LoaderOK
<1>3. /\ ~next.armed /\ range.fr = 0 /\ range.to = Npos /\ ~HasBuffer
      /\ phase = "shared" /\ loader.cur = 0
      /\ seen.play.status = "PLAYING" /\ seen.fading = FALSE
      /\ ~ending.armed
  BY <1>1, <1>2 DEF PInv, OneCall, NotShared
<1>4. /\ NextStart \in 0 .. Length - 1 /\ NextEnd \in NextStart + 1 .. Length
  BY <1>1, LoadNextTypes
<1>5. ~EntersNextLoop
  BY <1>3 DEF EntersNextLoop
<1>6. /\ range' = range /\ next' = next /\ ending' = NoEnding /\ tell' = TellAfter
      /\ status' = IF PassesAreOver THEN "TERMINATED" ELSE StatusAfter
  BY <1>1, <1>3, <1>5 DEF LoadNext, RangeAfter, NextAfter, EndingAfter, TellInLoop, FadeIsOver
<1>7. ~ending'.armed /\ ending'.left = 0
  BY <1>6 DEF NoEnding
<1>8. buffer' = buffer
  BY <1>3, <1>4 DEF PullRemain
<1>9. ~HasBuffer'
  BY <1>3, <1>8 DEF HasBuffer
<1>10. status' = "TERMINATED" \/ (status' = "PLAYING" /\ tell' < Length)
  <2>1. SeekTo(range.fr) \in 0 .. 0
    BY <1>1, <1>3, SeekLands DEF TypeOK
  <2> QED
    BY <2>1, <1>4, <1>6 DEF StatusAfter, TellAfter, EndOfPlayback
<1>11. CASE PassesAreOver
  <2>1. Count(NextFrame) = 0
    BY <1>11 DEF NextFrame, NoFrame, Frame, Count
  <2>2. loader' = Idle /\ status' = "TERMINATED"
    BY <2>1, <1>6, <1>11 DEF PullRemain
  <2>3. loader'.pc = "idle" /\ ~Locked'
    BY <2>2 DEF Idle, Call, Locked
  <2>4. OneCall'
    BY <2>2, <2>3, <1>3, <1>6, <1>9 DEF OneCall
  <2>5. PInv'
    BY <2>3, <2>4, <1>1, <1>2, <1>3, <1>7, RemainKeeps
  <2>6. seen' = Now'
    BY <2>3 DEF Sees
  <2>7. seen'.play = Ended /\ seen'.fading = FALSE
    BY <2>2, <2>6, NowIsNext
  <2>8. Abstract!PlayRest
    BY <2>7, <1>1, <1>2, <1>3 DEF Abstract!PlayRest, Abstract!Ended, Ended
  <2> QED
    BY <2>5, <2>8
<1>12. CASE ~PassesAreOver
  <2>1. NextFrame = Frame(NextStart, NextEnd)
    BY <1>5, <1>12 DEF NextFrame
  <2>2. Count(NextFrame) > 0
    BY <2>1, <1>4 DEF Count, Frame
  <2>3. loader' = Call("remain", 0, 0, ClipFrame(NextFrame, RangeAfter), loader.cur, 0)
    BY <2>2, <1>3, <1>4 DEF PullRemain
  <2>4. loader'.pc = "remain" /\ loader'.cur = 0 /\ Locked'
    BY <2>3, <1>3 DEF Call, Locked
  <2>5. seen' = seen
    BY <2>4 DEF Sees
  <2>6. OneCall'
    BY <2>4, <2>5, <1>1, <1>3, <1>6, <1>9, <1>10 DEF OneCall
  <2>7. PInv'
    BY <2>4, <2>6, <1>1, <1>2, <1>3, <1>7, RemainKeeps
  <2> QED
    BY <2>5, <2>7, <1>1 DEF Unseen
<1> QED
  BY <1>11, <1>12

\* The end of LoadRemain is one block, however long it is.
LEMMA FinishRemainPlays ==
  ASSUME PInv, IInv', Sees, FinishRemain
  PROVE  PInv' /\ Abstract!PlayRest
<1> USE DEF setup, commands
<1>1. /\ loader.pc = "remain" /\ ~Loaded /\ loader' = Idle
      /\ UNCHANGED <<setup, tell, range, status, buffer, commands, caller>>
  BY DEF FinishRemain
<1>2. client # "music"
  BY <1>1 DEF PInv, IInv, LoaderOK
<1>3. /\ ~next.armed /\ range.fr = 0 /\ range.to = Npos /\ ~HasBuffer
      /\ phase = "shared" /\ seen.play.status = "PLAYING" /\ seen.fading = FALSE
      /\ ~ending.armed /\ ending.left = 0
      /\ status = "TERMINATED"
  BY <1>1, <1>2 DEF PInv, OneCall, NotShared, Loaded, HasNext
<1>4. loader'.pc = "idle" /\ ~Locked'
  BY <1>1 DEF Idle, Call, Locked
<1>5. ~HasBuffer'
  BY <1>1, <1>3 DEF HasBuffer
<1>6. OneCall'
  BY <1>1, <1>3, <1>4, <1>5 DEF OneCall
<1>7. PInv'
  BY <1>1, <1>2, <1>3, <1>4, <1>6, RemainKeeps
<1>8. seen' = Now'
  BY <1>4 DEF Sees
<1>9. seen'.play = Ended /\ seen'.fading = FALSE
  BY <1>1, <1>3, <1>8, NowIsNext
<1>10. Abstract!PlayRest
  BY <1>9, <1>1, <1>2, <1>3 DEF Abstract!PlayRest, Abstract!Ended, Ended
<1> QED
  BY <1>7, <1>10

\* Every step of the player is a step of the playhead, or none.
LEMMA PlayerStep ==
  ASSUME LongLoops, PInv, [PlayerNext]_<<vars, seen>>
  PROVE  PInv' /\ (Abstract!Next \/ Unseen)
<1>1. IInv'
  <2>1. [Next]_vars /\ IInv
    BY DEF PlayerNext, PInv
  <2> QED
    BY <2>1, NextIInv
<1>2. CASE UNCHANGED <<vars, seen>>
  BY <1>1, <1>2, NothingMoves DEF vars
<1>3. CASE PlayerNext
  <2>1. Sees
    BY <1>3 DEF PlayerNext, Sees
  <2>2. ASSUME NEW l \in Loops, SetPLoop(l) PROVE PInv' /\ Abstract!Next
    <3>1. PInv' /\ Abstract!SetLoop(l)
      BY <2>2, <1>1, <2>1, SetPLoopPlays
    <3> QED
      BY <3>1 DEF Abstract!Next
  <2>3. ASSUME NEW n \in MusicTimes \cup SoundTimes, SetLoopTimes(n) PROVE PInv' /\ Abstract!Next
    <3>1. PInv' /\ Abstract!SetTimes(n)
      BY <2>3, <1>1, <2>1, SetLoopTimesPlays
    <3> QED
      BY <3>1 DEF Abstract!Next
  <2>4. ASSUME NEW n \in Requests, WantPCM(n) PROVE PInv' /\ Unseen
    <3>1. /\ loader.pc = "idle" /\ client = "music" /\ phase = "shared"
          /\ loader'.pc = "want" /\ loader'.request \in Requests
          /\ UNCHANGED <<setup, tell, range, status, buffer, commands>> /\ caller' = caller
      BY <2>4 DEF WantPCM, Call
    <3> QED
      BY <3>1, <1>1, <2>1, NothingMoves
  <2>5. CASE LockPCM
    <3>1. CASE status = "PLAYING"
      BY <3>1, <2>5, <1>1, <2>1, LockPCMIsUnseen
    <3>2. CASE status # "PLAYING"
      <4>1. /\ loader.pc = "want" /\ loader'.pc = "idle" /\ caller' = caller
            /\ UNCHANGED <<setup, tell, range, status, buffer, commands>>
        BY <3>2, <2>5 DEF LockPCM, Idle, Call
      <4> QED
        BY <4>1, <1>1, <2>1, NothingMoves
    <3> QED
      BY <3>1, <3>2
  <2>6. CASE PullPCM
    BY <2>6, <1>1, <2>1, PullPCMIsUnseen
  <2>7. CASE FinishPCM
    <3>1. PInv' /\ \E n \in Requests : Abstract!PlayBlock(n)
      BY <2>7, <1>1, <2>1, FinishPCMIsABlock
    <3> QED
      BY <3>1 DEF Abstract!Next
  <2>8. CASE LockRemain
    BY <2>8, <1>1, <2>1, LockRemainIsUnseen
  <2>9. CASE PullRemain \/ FinishRemain
    <3>1. PInv' /\ (Unseen \/ Abstract!PlayRest)
      BY <2>9, <1>1, <2>1, PullRemainPlays, FinishRemainPlays
    <3> QED
      BY <3>1 DEF Abstract!Next
  <2>10. CASE WantPause \/ WantUnpause
    <3>1. /\ client = "music" /\ phase = "shared" /\ loader' = loader
          /\ UNCHANGED <<setup, tell, range, status, buffer, commands>>
      BY <2>10 DEF WantPause, WantUnpause, Steered
    <3> QED
      BY <3>1, <1>1, <2>1, NothingMoves
  <2>11. CASE Pause \/ Unpause \/ Terminate \/ \E f \in Fades : FadeOut(f)
    <3>1. PInv' /\ (Unseen \/ Abstract!Steer)
      BY <2>11, <1>1, <2>1, PauseIsSeen, TerminateIsSeen, FadeOutIsSeen
    <3> QED
      BY <3>1 DEF Abstract!Next
  <2> QED
    BY <1>3, <2>2, <2>3, <2>4, <2>5, <2>6, <2>7, <2>8, <2>9, <2>10, <2>11
    DEF PlayerNext, Next, SetUp, WantBlock, Load, Steer
<1> QED
  BY <1>2, <1>3

\* Seen between two calls, a player is a playhead over the samples of its source:
\* whatever the sizes of chunks and blocks, wherever seeks land, and whoever steers
\* it, a block is the samples that come next, over the ends of passes and loops
\* (LoadPCM, LoadRemain, LoadNext, ClipFrame and the commands).  The loops are those
\* of LongLoops: with shorter ones the end of a pass is missed, or the start of the
\* second loop is skipped.
THEOREM PlayerIsAPlayhead ==
  ASSUME LongLoops
  PROVE  PlayerSpec => ImplementsPlayhead
<1>1. PlayerInit => PInv /\ Abstract!Init
  BY InitPInv, InitPlayhead
<1>2. PInv /\ [PlayerNext]_<<vars, seen>>
      => PInv' /\ [Abstract!Next]_<<client, phase, seen.play, seen.fading>>
  BY PlayerStep DEF Unseen
<1> QED
  BY <1>1, <1>2, PTL DEF PlayerSpec, ImplementsPlayhead, Abstract!Spec

-----------------------------------------------------------------------------
(* The channels *)


Entry == [player : Sounds \union {None}, implementor : BOOLEAN,
          buffer : Chunks \union {None}, chunk : Chunks \union {None}]

MainSet ==
  [pc : {"ready", "halt", "load", "assign", "replace", "free", "start", "clear", "close"},
   via : {"ready", "halt", "load", "clear"}, c : Channels, sound : Sounds \union {None},
   chunk : Chunks \union {None}, old : Chunks \union {None}]

\* The types, with the fields of main and audio.
TypeInv ==
  /\ ch \in [Channels -> Entry]
  /\ mixer \in [Channels -> Chunks \union {None}]
  /\ live \in SUBSET Chunks
  /\ main \in MainSet
  /\ audio \in [pc : {"out", "reset", "drop"}, c : Channels]
  /\ audio.pc = "out" => audio = Outside
  /\ broken \in BOOLEAN /\ taken \in SUBSET Channels

\* The audio thread is inside OnChannelFinished(c).
Reporting(c) == audio.pc # "out" /\ audio.c = c

\* The chunk is somewhere on the channel.
On(k, c) == k \in {mixer[c], ch[c].chunk, ch[c].buffer}

\* No chunk is on two channels, not even on those that were taken: freeing one
\* stops no other channel.  What PlayChannel has loaded or is about to free is on
\* its own channel only, and what has just been loaded is on none.
Apart ==
  /\ \A k \in Chunks, c, d \in Channels : On(k, c) /\ On(k, d) => c = d
  /\ \A k \in Chunks, c \in Channels :
       On(k, c) /\ (k = main.chunk \/ (main.pc \in {"free", "clear"} /\ k = main.old))
         => c = main.c /\ main.pc # "assign"

\* The locals of the main thread's call.
MainInv ==
  /\ main.pc \in {"ready", "halt", "load", "assign"} => main.old = None
  /\ main.pc \in {"ready", "halt", "load", "clear", "close"} => main.chunk = None
  /\ main.pc = "assign" => main.chunk \in live
  /\ main.pc = "start" => main.chunk # None
  /\ main.pc = "halt" => main.via = "halt"
  /\ main.pc \in {"load", "assign"} => main.via \in {"halt", "load"}

\* Nothing plays on the channel, and its entry holds nothing.
Silent(c) ==
  /\ mixer[c] = None /\ ~Reporting(c)
  /\ ~ch[c].implementor /\ ch[c].buffer = None /\ ch[c].chunk = None

\* SDL_mixer plays on the channel what its entry holds.
Playing(c) ==
  /\ mixer[c] \in live /\ ~Reporting(c)
  /\ ch[c].implementor /\ ch[c].buffer = mixer[c] /\ ch[c].chunk = mixer[c]

\* OnChannelFinished has reset none or all of the entry but its chunk.
Ending(c) ==
  /\ mixer[c] = None /\ Reporting(c) /\ ch[c].chunk \in live
  /\ audio.pc = "reset" => ch[c].implementor /\ ch[c].buffer = ch[c].chunk
  /\ audio.pc = "drop" => ~ch[c].implementor /\ ch[c].buffer = None

\* PlayChannel is changing the entry of a channel that nobody uses.
InPlayChannel(c) == main.pc \in {"replace", "free", "start"} /\ main.c = c

Starting(c) ==
  /\ main.chunk \in live /\ main.old = None
  /\ ch[c].implementor /\ ch[c].buffer = main.chunk
  /\ ch[c].chunk = IF main.pc = "replace" THEN None ELSE main.chunk

Refusing(c) ==
  /\ main.chunk = None /\ main.pc # "start"
  /\ ~ch[c].implementor /\ ch[c].buffer = None
  /\ main.pc = "replace" => ch[c].chunk \in live /\ main.old = None
  /\ main.pc = "free" => ch[c].chunk = None /\ main.old \in live

\* A channel that was never taken while in use.
ChannelInv(c) ==
  /\ InPlayChannel(c) => /\ mixer[c] = None /\ ~Reporting(c)
                         /\ Starting(c) \/ Refusing(c)
  /\ ~InPlayChannel(c) => Silent(c) \/ Playing(c) \/ Ending(c)
  /\ main.pc \in {"load", "assign"} /\ main.via = "halt" /\ main.c = c => Silent(c)
  /\ main.pc \in {"clear", "close"} => Silent(c) /\ (main.c = c => main.old = None)

Parts ==
  /\ TypeInv
  /\ Apart
  /\ MainInv
  /\ \A c \in Channels \ taken : ChannelInv(c)
  /\ NothingBroken
  /\ NoChunkIsLost

-----------------------------------------------------------------------------
\* The smallest of some channels is one of them.
LEMMA MinOfChannels ==
  ASSUME NEW S \in SUBSET Channels, S # {}
  PROVE  Min(S) \in S
  <1> DEFINE R == {ss \in Nat \X Nat : ss[1] < ss[2]}
  <1>1. IsWellFoundedOn(R, Nat)
    BY NatLessThanWellFounded DEF OpToRel
  <1>2. S \subseteq Nat
    BY ChannelsAssumption DEF Channels
  <1>3. PICK x \in S : \A y \in S : <<y, x>> \notin R
    BY <1>1, <1>2, WFMin
  <1>4. \A y \in S : ~(y < x)
    BY <1>2, <1>3
  <1>5. \A y \in S : x <= y
    BY <1>2, <1>4
  <1> QED BY <1>5 DEF Min

\* The first and the last channel, and the next one.
LEMMA ChannelNumbers ==
  /\ 0 \in Channels /\ KoeChannel \in Channels
  /\ \A c \in Channels : c # KoeChannel => c + 1 \in Channels /\ c + 1 # c
  BY ChannelsAssumption DEF Channels, KoeChannel

\* Between two calls the locals mean nothing.
LEMMA ReadyType == Ready \in MainSet /\ IdleEntry \in Entry
  BY ChannelNumbers DEF Ready, Main, MainSet, IdleEntry, Entry

\* A call begins: nothing but the locals changes.
LEMMA BeginParts ==
  ASSUME Parts, NEW pc \in {"halt", "load"}, NEW n \in Channels,
         NEW sound \in Sounds \union {None}, Begin(pc, n, sound)
  PROVE  Parts'
<1> USE ChannelsAssumption
<1>1. TypeInv'
  BY DEF Parts, TypeInv, MainSet, Entry, Begin, Main
<1>2. Apart'
  BY DEF Parts, TypeInv, MainSet, Apart, On, Begin, Main
<1>3. MainInv'
  BY DEF Parts, TypeInv, MainSet, MainInv, Begin, Main
<1>4. ASSUME NEW c \in Channels, c \notin taken' PROVE ChannelInv(c)'
  BY <1>4 DEF Parts, TypeInv, MainSet, MainInv, ChannelInv, InPlayChannel, Starting, Refusing,
              Silent, Playing, Ending, Reporting, Begin, Main, Ready
<1>5. NothingBroken'
  BY DEF Parts, TypeInv, MainSet, NothingBroken, Begin, Main
<1>6. NoChunkIsLost'
  BY DEF Parts, TypeInv, MainSet, NoChunkIsLost, Begin, Main, Ready
<1> QED
  BY <1>1, <1>2, <1>3, <1>4, <1>5, <1>6 DEF Parts

\* A fresh chunk is on no channel.
LEMMA LoadSamplesParts == Parts /\ LoadSamples => Parts'
<1> SUFFICES ASSUME Parts, LoadSamples PROVE Parts'
  OBVIOUS
<1> USE ChannelsAssumption
<1>1. TypeInv'
  BY DEF Parts, TypeInv, MainSet, Entry, LoadSamples
<1>2. Apart'
  BY DEF Parts, TypeInv, MainSet, Apart, On, LoadSamples
<1>3. MainInv'
  BY DEF Parts, TypeInv, MainSet, MainInv, LoadSamples
<1>4. ASSUME NEW c \in Channels, c \notin taken' PROVE ChannelInv(c)'
  BY <1>4 DEF Parts, TypeInv, MainSet, MainInv, Apart, On, ChannelInv, InPlayChannel, Starting, Refusing,
              Silent, Playing, Ending, Reporting, LoadSamples
<1>5. NothingBroken'
  BY DEF Parts, TypeInv, MainSet, NothingBroken, LoadSamples
<1>6. NoChunkIsLost'
  BY DEF Parts, TypeInv, MainSet, MainInv, NoChunkIsLost, LoadSamples
<1> QED
  BY <1>1, <1>2, <1>3, <1>4, <1>5, <1>6 DEF Parts

\* Without InUse the channel is silent: its entry holds nothing to lose.
LEMMA AssignEntryParts == Parts /\ AssignEntry => Parts'
<1> SUFFICES ASSUME Parts, AssignEntry PROVE Parts'
  OBVIOUS
<1> USE ChannelsAssumption
<1>1. TypeInv'
  BY DEF Parts, TypeInv, MainSet, Entry, AssignEntry, InUse, Outside
<1>2. Apart'
  BY DEF Parts, TypeInv, MainSet, Apart, On, AssignEntry, InUse, Outside
<1>3. MainInv'
  BY DEF Parts, TypeInv, MainSet, MainInv, AssignEntry, InUse, Outside
<1>4. ASSUME NEW c \in Channels, c \notin taken' PROVE ChannelInv(c)'
  BY <1>4 DEF Parts, TypeInv, MainSet, MainInv, Apart, On, ChannelInv, InPlayChannel, Starting, Refusing,
              Silent, Playing, Ending, Reporting, AssignEntry, InUse, Outside
<1>5. NothingBroken'
  BY DEF Parts, TypeInv, MainSet, NothingBroken, AssignEntry, InUse, Outside
<1>6. NoChunkIsLost'
  BY DEF Parts, TypeInv, MainSet, NoChunkIsLost, AssignEntry, InUse, Outside
<1> QED
  BY <1>1, <1>2, <1>3, <1>4, <1>5, <1>6 DEF Parts

\* The chunk moves from the locals to the entry, and back when SDL refused it.
LEMMA ReplaceChunkParts == Parts /\ ReplaceChunk => Parts'
<1> SUFFICES ASSUME Parts, ReplaceChunk PROVE Parts'
  OBVIOUS
<1> USE ChannelsAssumption
<1>1. TypeInv'
  <2>1. ch' \in [Channels -> Entry]
    BY DEF Parts, TypeInv, MainSet, Entry, ReplaceChunk
  <2>2. mixer' \in [Channels -> Chunks \union {None}]
    BY DEF Parts, TypeInv, ReplaceChunk
  <2>3. main' \in MainSet
    BY DEF Parts, TypeInv, MainSet, Entry, ReplaceChunk
  <2>4. live' \in SUBSET Chunks
    BY DEF Parts, TypeInv, ReplaceChunk
  <2> QED
    BY <2>1, <2>2, <2>3, <2>4 DEF Parts, TypeInv, ReplaceChunk
<1>2. Apart'
  BY DEF Parts, TypeInv, MainSet, Apart, On, ReplaceChunk
<1>3. MainInv'
  BY DEF Parts, TypeInv, MainSet, MainInv, ReplaceChunk
<1>4. ASSUME NEW c \in Channels, c \notin taken' PROVE ChannelInv(c)'
  BY <1>4 DEF Parts, TypeInv, MainSet, MainInv, Apart, On, ChannelInv, InPlayChannel, Starting, Refusing,
              Silent, Playing, Ending, Reporting, ReplaceChunk
<1>c. taken = {} => \A c \in Channels : ChannelInv(c)
  BY DEF Parts
<1>5. NothingBroken'
  BY <1>c DEF Parts, TypeInv, MainSet, MainInv, NothingBroken, ChannelInv, InPlayChannel, Starting, Refusing, Silent,
              Playing, Ending, Reporting, ReplaceChunk
<1>6. NoChunkIsLost'
  BY <1>c DEF Parts, TypeInv, MainSet, MainInv, NoChunkIsLost, ChannelInv, InPlayChannel, Starting, Refusing, Silent,
              Playing, Ending, Reporting, ReplaceChunk
<1> QED
  BY <1>1, <1>2, <1>3, <1>4, <1>5, <1>6 DEF Parts

\* What is freed is on no other channel.
LEMMA FreeOldParts == Parts /\ FreeOld => Parts'
<1> SUFFICES ASSUME Parts, FreeOld PROVE Parts'
  OBVIOUS
<1> USE ChannelsAssumption
<1>1. TypeInv'
  <2>1. ch' \in [Channels -> Entry]
    BY ReadyType DEF Parts, TypeInv, MainSet, FreeOld
  <2>2. mixer' \in [Channels -> Chunks \union {None}]
    BY DEF Parts, TypeInv, FreeOld, Free, Ready, Main
  <2>3. main' \in MainSet
    BY ReadyType DEF Parts, TypeInv, MainSet, FreeOld
  <2>4. live' \in SUBSET Chunks
    BY DEF Parts, TypeInv, FreeOld, Free, Ready, Main
  <2> QED
    BY <2>1, <2>2, <2>3, <2>4 DEF Parts, TypeInv, FreeOld, Free, Ready, Main
<1>2. Apart'
  BY DEF Parts, TypeInv, MainSet, Apart, On, FreeOld, Free, LockFree, Outside, Ready, Main
<1>3. MainInv'
  BY DEF Parts, TypeInv, MainSet, MainInv, FreeOld, Free, LockFree, Outside, Ready, Main
<1>4. ASSUME NEW c \in Channels, c \notin taken' PROVE ChannelInv(c)'
  BY <1>4 DEF Parts, TypeInv, MainSet, MainInv, Apart, On, ChannelInv, InPlayChannel, Starting, Refusing,
              Silent, Playing, Ending, Reporting, FreeOld, Free, LockFree, Outside, Ready, Main
<1>c. taken = {} => \A c \in Channels : ChannelInv(c)
  BY DEF Parts
<1>5. NothingBroken'
  BY <1>c DEF Parts, TypeInv, MainSet, MainInv, NothingBroken, ChannelInv, InPlayChannel, Starting, Refusing, Silent,
              Playing, Ending, Reporting, FreeOld, Free, LockFree, Outside, Ready, Main
<1>6. NoChunkIsLost'
  BY <1>c DEF Parts, TypeInv, MainSet, MainInv, NoChunkIsLost, ChannelInv, InPlayChannel, Starting, Refusing, Silent,
              Playing, Ending, Reporting, FreeOld, Free, LockFree, Outside, Ready, Main
<1> QED
  BY <1>1, <1>2, <1>3, <1>4, <1>5, <1>6 DEF Parts

\* The channel starts playing what its entry holds.
LEMMA StartChunkParts == Parts /\ StartChunk => Parts'
<1> SUFFICES ASSUME Parts, StartChunk PROVE Parts'
  OBVIOUS
<1> USE ChannelsAssumption
<1>1. TypeInv'
  BY DEF Parts, TypeInv, MainSet, Entry, StartChunk, LockFree, Outside, Ready, Main, IdleEntry
<1>2. Apart'
  BY DEF Parts, TypeInv, MainSet, Apart, On, StartChunk, LockFree, Outside, Ready, Main, IdleEntry
<1>3. MainInv'
  BY DEF Parts, TypeInv, MainSet, MainInv, StartChunk, LockFree, Outside, Ready, Main, IdleEntry
<1>4. ASSUME NEW c \in Channels, c \notin taken' PROVE ChannelInv(c)'
  BY <1>4 DEF Parts, TypeInv, MainSet, MainInv, Apart, On, ChannelInv, InPlayChannel, Starting, Refusing,
              Silent, Playing, Ending, Reporting, StartChunk, LockFree, Outside, Ready, Main, IdleEntry
<1>c. taken = {} => \A c \in Channels : ChannelInv(c)
  BY DEF Parts
<1>5. NothingBroken'
  BY <1>c DEF Parts, TypeInv, MainSet, MainInv, NothingBroken, ChannelInv, InPlayChannel, Starting, Refusing, Silent,
              Playing, Ending, Reporting, StartChunk, LockFree, Outside, Ready, Main, IdleEntry
<1>6. NoChunkIsLost'
  BY <1>c DEF Parts, TypeInv, MainSet, MainInv, NoChunkIsLost, ChannelInv, InPlayChannel, Starting, Refusing, Silent,
              Playing, Ending, Reporting, StartChunk, LockFree, Outside, Ready, Main, IdleEntry
<1> QED
  BY <1>1, <1>2, <1>3, <1>4, <1>5, <1>6 DEF Parts

\* The entry of a refused sound is taken back.
LEMMA StartRefusedParts == Parts /\ StartRefused => Parts'
<1> SUFFICES ASSUME Parts, StartRefused PROVE Parts'
  OBVIOUS
<1> USE ChannelsAssumption
<1>1. TypeInv'
  <2>1. ch' \in [Channels -> Entry]
    BY DEF Parts, TypeInv, MainSet, Entry, StartRefused
  <2>2. mixer' \in [Channels -> Chunks \union {None}]
    BY DEF Parts, TypeInv, StartRefused
  <2>3. main' \in MainSet
    BY DEF Parts, TypeInv, MainSet, Entry, StartRefused
  <2>4. live' \in SUBSET Chunks
    BY DEF Parts, TypeInv, StartRefused
  <2> QED
    BY <2>1, <2>2, <2>3, <2>4 DEF Parts, TypeInv, StartRefused
<1>2. Apart'
  BY DEF Parts, TypeInv, MainSet, Apart, On, StartRefused
<1>3. MainInv'
  BY DEF Parts, TypeInv, MainSet, MainInv, StartRefused
<1>4. ASSUME NEW c \in Channels, c \notin taken' PROVE ChannelInv(c)'
  BY <1>4 DEF Parts, TypeInv, MainSet, MainInv, Apart, On, ChannelInv, InPlayChannel, Starting, Refusing,
              Silent, Playing, Ending, Reporting, StartRefused
<1>c. taken = {} => \A c \in Channels : ChannelInv(c)
  BY DEF Parts
<1>5. NothingBroken'
  BY <1>c DEF Parts, TypeInv, MainSet, MainInv, NothingBroken, ChannelInv, InPlayChannel, Starting, Refusing, Silent,
              Playing, Ending, Reporting, StartRefused
<1>6. NoChunkIsLost'
  BY <1>c DEF Parts, TypeInv, MainSet, MainInv, NoChunkIsLost, ChannelInv, InPlayChannel, Starting, Refusing, Silent,
              Playing, Ending, Reporting, StartRefused
<1> QED
  BY <1>1, <1>2, <1>3, <1>4, <1>5, <1>6 DEF Parts

\* Every channel in use is taken, the others are silent.
LEMMA CloseAudioParts == Parts /\ CloseAudio => Parts'
<1> SUFFICES ASSUME Parts, CloseAudio PROVE Parts'
  OBVIOUS
<1> USE ChannelsAssumption
<1>1. TypeInv'
  BY DEF Parts, TypeInv, MainSet, Entry, CloseAudio, InUse, Outside, Ready, Main
<1>2. Apart'
  BY DEF Parts, TypeInv, MainSet, Apart, On, CloseAudio, InUse, Outside, Ready, Main
<1>3. MainInv'
  BY DEF Parts, TypeInv, MainSet, MainInv, CloseAudio, InUse, Outside, Ready, Main
<1>4. ASSUME NEW c \in Channels, c \notin taken' PROVE ChannelInv(c)'
  BY <1>4 DEF Parts, TypeInv, MainSet, MainInv, Apart, On, ChannelInv, InPlayChannel, Starting, Refusing,
              Silent, Playing, Ending, Reporting, CloseAudio, InUse, Outside, Ready, Main
<1>5. NothingBroken'
  BY DEF Parts, TypeInv, MainSet, NothingBroken, CloseAudio, InUse, Outside, Ready, Main
<1>6. NoChunkIsLost'
  BY DEF Parts, TypeInv, MainSet, NoChunkIsLost, CloseAudio, InUse, Outside, Ready, Main
<1> QED
  BY <1>1, <1>2, <1>3, <1>4, <1>5, <1>6 DEF Parts

\* Clearing frees nothing of the channels that were not taken.
LEMMA ClearEntryParts == Parts /\ ClearEntry => Parts'
<1> SUFFICES ASSUME Parts, ClearEntry PROVE Parts'
  OBVIOUS
<1> USE ChannelsAssumption, ChannelNumbers, ReadyType
<1>1. TypeInv'
  <2>1. ch' \in [Channels -> Entry]
    BY DEF Parts, TypeInv, MainSet, Entry, ClearEntry, Free
  <2>2. mixer' \in [Channels -> Chunks \union {None}]
    BY DEF Parts, TypeInv, ClearEntry, Free
  <2>3. main' \in MainSet
    BY DEF Parts, TypeInv, MainSet, Entry, ClearEntry, Free
  <2>4. live' \in SUBSET Chunks
    BY DEF Parts, TypeInv, ClearEntry, Free
  <2> QED
    BY <2>1, <2>2, <2>3, <2>4 DEF Parts, TypeInv, ClearEntry, Free
<1>2. Apart'
  BY DEF Parts, TypeInv, MainSet, MainInv, Apart, On, ClearEntry, Free, LockFree, Outside, IdleEntry
<1>3. MainInv'
  BY DEF Parts, TypeInv, MainSet, MainInv, ClearEntry, Free, LockFree, Outside, IdleEntry
<1>4. ASSUME NEW c \in Channels, c \notin taken' PROVE ChannelInv(c)'
  BY <1>4 DEF Parts, TypeInv, MainSet, MainInv, Apart, On, ChannelInv, InPlayChannel, Starting, Refusing,
              Silent, Playing, Ending, Reporting, ClearEntry, Free, LockFree, Outside, IdleEntry
<1>c. taken = {} => \A c \in Channels : ChannelInv(c)
  BY DEF Parts
<1>5. NothingBroken'
  BY <1>c DEF Parts, TypeInv, MainSet, MainInv, NothingBroken, ChannelInv, InPlayChannel, Starting, Refusing, Silent,
              Playing, Ending, Reporting, ClearEntry, Free, LockFree, Outside, IdleEntry
<1>6. NoChunkIsLost'
  BY <1>c DEF Parts, TypeInv, MainSet, MainInv, NoChunkIsLost, ChannelInv, InPlayChannel, Starting, Refusing, Silent,
              Playing, Ending, Reporting, ClearEntry, Free, LockFree, Outside, IdleEntry
<1> QED
  BY <1>1, <1>2, <1>3, <1>4, <1>5, <1>6 DEF Parts

\* The mixer is closed when nothing that was not taken plays.
LEMMA ReopenAudioParts == Parts /\ ReopenAudio => Parts'
<1> SUFFICES ASSUME Parts, ReopenAudio PROVE Parts'
  OBVIOUS
<1> USE ChannelsAssumption
<1>1. TypeInv'
  BY DEF Parts, TypeInv, MainSet, Entry, ReopenAudio, LockFree, Outside, Ready, Main
<1>2. Apart'
  BY DEF Parts, TypeInv, MainSet, Apart, On, ReopenAudio, LockFree, Outside, Ready, Main
<1>3. MainInv'
  BY DEF Parts, TypeInv, MainSet, MainInv, ReopenAudio, LockFree, Outside, Ready, Main
<1>4. ASSUME NEW c \in Channels, c \notin taken' PROVE ChannelInv(c)'
  BY <1>4 DEF Parts, TypeInv, MainSet, MainInv, Apart, On, ChannelInv, InPlayChannel, Starting, Refusing,
              Silent, Playing, Ending, Reporting, ReopenAudio, LockFree, Outside, Ready, Main
<1>c. taken = {} => \A c \in Channels : ChannelInv(c)
  BY DEF Parts
<1>5. NothingBroken'
  BY <1>c DEF Parts, TypeInv, MainSet, MainInv, NothingBroken, ChannelInv, InPlayChannel, Starting, Refusing, Silent,
              Playing, Ending, Reporting, ReopenAudio, LockFree, Outside, Ready, Main
<1>6. NoChunkIsLost'
  BY <1>c DEF Parts, TypeInv, MainSet, MainInv, NoChunkIsLost, ChannelInv, InPlayChannel, Starting, Refusing, Silent,
              Playing, Ending, Reporting, ReopenAudio, LockFree, Outside, Ready, Main
<1> QED
  BY <1>1, <1>2, <1>3, <1>4, <1>5, <1>6 DEF Parts

\* The callback finds the entry of what has played.
LEMMA ChannelEndsParts == Parts /\ (\E c \in Channels : ChannelEnds(c)) => Parts'
<1> SUFFICES ASSUME Parts, (\E c \in Channels : ChannelEnds(c)) PROVE Parts'
  OBVIOUS
<1> USE ChannelsAssumption
<1>1. TypeInv'
  BY DEF Parts, TypeInv, MainSet, Entry, ChannelEnds, LockFree, Outside
<1>2. Apart'
  BY DEF Parts, TypeInv, MainSet, Apart, On, ChannelEnds, LockFree, Outside
<1>3. MainInv'
  BY DEF Parts, TypeInv, MainSet, MainInv, ChannelEnds, LockFree, Outside
<1>4. ASSUME NEW c \in Channels, c \notin taken' PROVE ChannelInv(c)'
  BY <1>4 DEF Parts, TypeInv, MainSet, MainInv, Apart, On, ChannelInv, InPlayChannel, Starting, Refusing,
              Silent, Playing, Ending, Reporting, ChannelEnds, LockFree, Outside
<1>5. NothingBroken'
  BY DEF Parts, TypeInv, MainSet, NothingBroken, ChannelEnds, LockFree, Outside
<1>6. NoChunkIsLost'
  BY DEF Parts, TypeInv, MainSet, NoChunkIsLost, ChannelEnds, LockFree, Outside
<1> QED
  BY <1>1, <1>2, <1>3, <1>4, <1>5, <1>6 DEF Parts

\* The entry becomes idle but for its chunk.
LEMMA ResetEntryParts == Parts /\ ResetEntry => Parts'
<1> SUFFICES ASSUME Parts, ResetEntry PROVE Parts'
  OBVIOUS
<1> USE ChannelsAssumption
<1>1. TypeInv'
  BY DEF Parts, TypeInv, MainSet, Entry, ResetEntry
<1>2. Apart'
  BY DEF Parts, TypeInv, MainSet, Apart, On, ResetEntry
<1>3. MainInv'
  BY DEF Parts, TypeInv, MainSet, MainInv, ResetEntry
<1>4. ASSUME NEW c \in Channels, c \notin taken' PROVE ChannelInv(c)'
  BY <1>4 DEF Parts, TypeInv, MainSet, MainInv, Apart, On, ChannelInv, InPlayChannel, Starting, Refusing,
              Silent, Playing, Ending, Reporting, ResetEntry
<1>5. NothingBroken'
  BY DEF Parts, TypeInv, MainSet, NothingBroken, ResetEntry
<1>6. NoChunkIsLost'
  BY DEF Parts, TypeInv, MainSet, NoChunkIsLost, ResetEntry
<1> QED
  BY <1>1, <1>2, <1>3, <1>4, <1>5, <1>6 DEF Parts

\* The chunk is freed with the last pointer to it.
LEMMA DropChunkParts == Parts /\ DropChunk => Parts'
<1> SUFFICES ASSUME Parts, DropChunk PROVE Parts'
  OBVIOUS
<1> USE ChannelsAssumption
<1>1. TypeInv'
  <2>1. ch' \in [Channels -> Entry]
    BY DEF Parts, TypeInv, MainSet, Entry, DropChunk, Free, Outside
  <2>2. mixer' \in [Channels -> Chunks \union {None}]
    BY DEF Parts, TypeInv, MainSet, DropChunk, Free, Outside
  <2>3. main' \in MainSet
    BY DEF Parts, TypeInv, MainSet, Entry, DropChunk, Free, Outside
  <2>4. live' \in SUBSET Chunks
    BY DEF Parts, TypeInv, MainSet, DropChunk, Free, Outside
  <2>5. audio' \in [pc : {"out", "reset", "drop"}, c : Channels]
    BY ChannelNumbers DEF DropChunk, Outside
  <2> QED
    BY <2>1, <2>2, <2>3, <2>4, <2>5 DEF Parts, TypeInv, MainSet, DropChunk, Free, Outside
<1>2. Apart'
  BY DEF Parts, TypeInv, MainSet, Apart, On, DropChunk, Free, Outside
<1>3. MainInv'
  BY DEF On, Apart, Parts, TypeInv, MainSet, MainInv, DropChunk, Free, Outside
<1>4. ASSUME NEW c \in Channels, c \notin taken' PROVE ChannelInv(c)'
  BY <1>4 DEF Parts, TypeInv, MainSet, MainInv, Apart, On, ChannelInv, InPlayChannel, Starting, Refusing,
              Silent, Playing, Ending, Reporting, DropChunk, Free, Outside
<1>c. taken = {} => \A c \in Channels : ChannelInv(c)
  BY DEF Parts
<1>5. NothingBroken'
  BY <1>c DEF Parts, TypeInv, MainSet, MainInv, NothingBroken, ChannelInv, InPlayChannel, Starting, Refusing, Silent,
              Playing, Ending, Reporting, DropChunk, Free, Outside
<1>6. NoChunkIsLost'
  BY <1>c DEF Parts, TypeInv, MainSet, MainInv, NoChunkIsLost, ChannelInv, InPlayChannel, Starting, Refusing, Silent,
              Playing, Ending, Reporting, DropChunk, Free, Outside
<1> QED
  BY <1>1, <1>2, <1>3, <1>4, <1>5, <1>6 DEF Parts

\* Halting channels frees what they hold and touches no other.
LEMMA HaltParts ==
  ASSUME Parts, NEW cs \in SUBSET Channels, main.pc \in {"ready", "halt"}, LockFree, Halt(cs),
         UNCHANGED <<audio, taken>>,
         \/ main.pc = "ready" /\ UNCHANGED main
         \/ main.pc = "halt" /\ main' = Ready
         \/ main.pc = "halt" /\ main' = [main EXCEPT !.pc = "load"] /\ main.c \in cs
  PROVE  Parts'
<1> USE ChannelsAssumption
<1> DEFINE told == {c \in cs : mixer[c] # None}
           ks == {ch[c].chunk : c \in told} \ {None}
<1>h. /\ ch' = [c \in Channels |-> IF c \in told THEN IdleEntry ELSE ch[c]]
      /\ live' = live \ ks
      /\ mixer' = [c \in Channels |-> IF c \in told \/ mixer[c] \in ks THEN None ELSE mixer[c]]
      /\ broken' = (broken \/ ~(ks \subseteq live))
  BY DEF Halt
<1>m. /\ main' \in MainSet
      /\ main.pc = "halt" => main' = Ready \/ main' = [main EXCEPT !.pc = "load"]
  BY ReadyType DEF Parts, TypeInv, MainSet
<1>k. /\ \A c \in told : ch[c].chunk # None => ch[c].chunk \in ks
      /\ \A k \in ks : k \in Chunks /\ \E c \in told : On(k, c)
  BY DEF Parts, TypeInv, Entry, On
<1>1. TypeInv'
  BY <1>h, <1>m, ReadyType DEF Parts, TypeInv
<1>2. Apart'
  <2>1. \A k \in Chunks, c \in Channels : On(k, c)' => On(k, c)
    BY <1>h DEF On, IdleEntry
  <2> QED
    BY <2>1, <1>m DEF Parts, TypeInv, MainSet, MainInv, Apart, Ready, Main
<1>3. MainInv'
  BY <1>m DEF Parts, TypeInv, MainSet, MainInv, Ready, Main
<1>4. ASSUME NEW c \in Channels, c \notin taken' PROVE ChannelInv(c)'
  <2>1. ~Reporting(c) /\ ~Reporting(c)'
    BY DEF LockFree, Outside, Reporting
  <2>2. Silent(c) \/ Playing(c)
    BY <1>4, <2>1 DEF Parts, ChannelInv, InPlayChannel, Ending
  <2>3. c \in told => Silent(c)'
    BY <1>h, <2>1 DEF IdleEntry, Silent
  <2>4. ASSUME c \notin told PROVE (Silent(c) \/ Playing(c))' /\ (c \in cs => Silent(c)')
    <3>1. mixer[c] # None => mixer[c] \notin ks
      BY <1>k, <2>4 DEF Parts, TypeInv, Apart, On
    <3>2. mixer'[c] = mixer[c] /\ ch'[c] = ch[c]
      BY <1>h, <2>4, <3>1
    <3> QED
      BY <1>h, <2>1, <2>2, <2>4, <3>1, <3>2 DEF Parts, TypeInv, Silent, Playing
  <2>5. (Silent(c) \/ Playing(c))' /\ (c \in cs => Silent(c)')
    BY <1>h, <2>1, <2>2, <2>3, <2>4 DEF Silent, Playing
  <2> QED
    BY <2>5, <1>m DEF ChannelInv, InPlayChannel, Parts, TypeInv, MainSet, Ready, Main
<1>5. NothingBroken'
  <2>1. ASSUME taken = {} PROVE ks \subseteq live
    <3>1. \A c \in told : Playing(c)
      BY <2>1 DEF Parts, ChannelInv, InPlayChannel, Silent, Ending
    <3> QED BY <3>1 DEF Playing
  <2> QED
    BY <1>h, <2>1 DEF Parts, NothingBroken
<1>6. NoChunkIsLost'
  <2>1. ASSUME taken = {}, NEW k \in live, k \notin ks PROVE \E c \in Channels : ch'[c].chunk = k
    <3>1. PICK c \in Channels : ch[c].chunk = k
      BY <2>1 DEF Parts, TypeInv, MainInv, NoChunkIsLost
    <3> QED BY <1>h, <1>k, <2>1, <3>1 DEF Parts, TypeInv
  <2> QED
    BY <1>h, <2>1 DEF NoChunkIsLost
<1> QED
  BY <1>1, <1>2, <1>3, <1>4, <1>5, <1>6 DEF Parts

\* ChannelsInit: nothing plays, nothing is allocated.
LEMMA InitParts == ChannelsInit => Parts
<1> SUFFICES ASSUME ChannelsInit PROVE Parts
  OBVIOUS
<1> USE ChannelsAssumption, ReadyType, ChannelNumbers
<1>1. TypeInv
  BY DEF ChannelsInit, TypeInv, Outside
<1>2. Apart /\ MainInv
  BY DEF ChannelsInit, Apart, MainInv, On, IdleEntry, Ready, Main
<1>3. \A c \in Channels : ChannelInv(c)
  BY DEF ChannelsInit, ChannelInv, InPlayChannel, Silent, Reporting, Outside, IdleEntry, Ready, Main
<1> QED
  BY <1>1, <1>2, <1>3 DEF ChannelsInit, Parts, NothingBroken, NoChunkIsLost

\* A step that changes nothing.
LEMMA StutterParts == Parts /\ UNCHANGED channelVars => Parts'
  BY DEF channelVars, Parts, TypeInv, Apart, On, MainInv, ChannelInv, InPlayChannel, Starting, Refusing,
         Silent, Playing, Ending, Reporting, NothingBroken, NoChunkIsLost

\* Every step of either thread keeps the invariant.
LEMMA NextParts == Parts /\ [ChannelsNext]_channelVars => Parts'
<1> SUFFICES ASSUME Parts, [ChannelsNext]_channelVars PROVE Parts'
  OBVIOUS
<1>t. IdleChannels # {} => FindIdleChannel \in Channels
  BY MinOfChannels DEF IdleChannels, FindIdleChannel
<1>1. CASE WavPlay \/ WavPlayOn \/ KoePlay \/ PlaySe
  BY <1>1, <1>t, BeginParts, ChannelNumbers DEF WavPlay, WavPlayOn, KoePlay, PlaySe, Sounds
<1>2. CASE PlaySeHalts
  <2>1. main.c \in Channels
    BY DEF Parts, TypeInv, MainSet
  <2> QED BY <1>2, <2>1, HaltParts DEF PlaySeHalts
<1>3. CASE Stop
  <2>1. PICK cs \in {{c} : c \in Channels} \union {Channels} : Halt(cs)
    BY <1>3 DEF Stop
  <2> QED BY <1>3, <2>1, HaltParts DEF Stop, Ready, Main
<1>4. CASE PlayChannel
  BY <1>4, LoadSamplesParts, AssignEntryParts, ReplaceChunkParts, FreeOldParts, StartChunkParts,
     StartRefusedParts DEF PlayChannel
<1>5. CASE CloseAudio \/ ClearEntry \/ ReopenAudio
  BY <1>5, CloseAudioParts, ClearEntryParts, ReopenAudioParts
<1>6. CASE OnChannelFinished
  BY <1>6, ChannelEndsParts, ResetEntryParts, DropChunkParts DEF OnChannelFinished
<1>7. CASE UNCHANGED channelVars
  BY <1>7, StutterParts
<1> QED
  BY <1>1, <1>2, <1>3, <1>4, <1>5, <1>6, <1>7 DEF ChannelsNext

\* What both threads keep of the table, in every reachable state.
THEOREM ChannelsInvariant == ChannelsSpec => []Parts
  BY InitParts, NextParts, PTL DEF ChannelsSpec

-----------------------------------------------------------------------------
\* What SDL_mixer plays is allocated, and the entry of its channel still holds it:
\* nobody frees or replaces the samples under the audio thread.
THEOREM SoundsAreOwned == ChannelsSpec => []SoundIsOwned
<1>1. Parts => SoundIsOwned
  BY ChannelsAssumption DEF Parts, SoundIsOwned, ChannelInv, InPlayChannel, Silent, Playing, Ending
<1> QED BY <1>1, ChannelsInvariant, PTL

\* IsIdle is the truth about SDL_mixer but for the channel a thread is changing.
THEOREM TableIsTrue == ChannelsSpec => []TableMatchesMixer
<1>1. Parts => TableMatchesMixer
  BY ChannelsAssumption DEF Parts, TypeInv, TableMatchesMixer, ChannelInv, InPlayChannel, Silent,
     Playing, Ending, Reporting, IsIdle, Outside
<1> QED BY <1>1, ChannelsInvariant, PTL

\* No chunk is freed twice and OnChannelFinished never indexes the cleared table.
THEOREM NothingBreaks == ChannelsSpec => []NothingBroken
  BY ChannelsInvariant, PTL DEF Parts

\* Every allocated chunk is in the table, or in the call that is about to store or
\* free it.
THEOREM ChunksAreFreed == ChannelsSpec => []NoChunkIsLost
  BY ChannelsInvariant, PTL DEF Parts

-----------------------------------------------------------------------------
(* The music *)

Player ==
  [name : Tracks \union {NoTrack}, looped : BOOLEAN, ending : BOOLEAN,
   status : {"none", "playing", "paused", "terminated"}, volume : 0 .. Full * Full]

\* The types, and that a fade has a length.
MusicInv ==
  /\ MusicTypeOK
  /\ fade \in [from : 0 .. Full, to : 0 .. Full, past : Nat, total : Nat]
  /\ fade # NoFade => fade.total # 0

\* A level times a level is a volume.
LEMMA Products ==
  ASSUME NEW a \in 0 .. Full, NEW b \in 0 .. Full
  PROVE  a * b \in 0 .. Full * Full
<1>1. Full \in Nat /\ a \in Nat /\ b \in Nat /\ a <= Full /\ b <= Full
  BY SoundAssumption
<1>2. a * b \in Nat /\ Full * b \in Nat /\ Full * Full \in Nat
  BY <1>1
<1>3. a * b <= Full * b
  BY <1>1
<1>4. Full * b <= Full * Full
  BY <1>1
<1> QED BY <1>2, <1>3, <1>4

\* A part of a number is no larger than the number.
LEMMA PartOf ==
  ASSUME NEW t \in Nat \ {0}, NEW p \in 0 .. t, NEW d \in Nat
  PROVE  (p * d) \div t \in 0 .. d
<1>1. p \in Nat /\ p <= t
  OBVIOUS
<1>2. PICK n : n = p * d
  OBVIOUS
<1>3. n \in Nat /\ n <= t * d /\ t * d \in Nat
  BY <1>1, <1>2
<1>4. PICK q \in Int : q = n \div t
  BY <1>3
<1>5. q * t <= n /\ n < q * t + t
  BY <1>3, <1>4, SMTT(20)
<1>6. q >= 0
  <2>1. CASE q <= -1
    <3>1. q * t <= -t
      BY <2>1
    <3> QED BY <1>3, <1>5, <3>1
  <2> QED BY <2>1
<1>7. q <= d
  <2>1. CASE q >= d + 1
    <3>1. q * t >= (d + 1) * t
      BY <2>1
    <3>2. (d + 1) * t = t * d + t
      OBVIOUS
    <3>3. q * t \in Int
      OBVIOUS
    <3> QED BY <1>3, <1>5, <3>1, <3>2, <3>3
  <2> QED BY <2>1
<1> QED BY <1>2, <1>4, <1>6, <1>7

\* During a fade the level stays between the two it fades between.
LEMMA FadeStaysBetween ==
  ASSUME MusicInv, fade # NoFade
  PROVE  calculateVolumeFor \in 0 .. Full
<1>1. PICK a, b, p, t : a = fade.from /\ b = fade.to /\ p = fade.past /\ t = fade.total
  OBVIOUS
<1>2. /\ a \in 0 .. Full /\ b \in 0 .. Full /\ t \in Nat \ {0} /\ p \in 0 .. t /\ Full \in Nat
  BY <1>1, SoundAssumption DEF MusicInv, MusicTypeOK
<1>3. CASE b >= a
  <2>1. b - a \in Nat /\ p * (b - a) \in Nat
    BY <1>2, <1>3
  <2>2. (p * (b - a)) \div t \in 0 .. b - a
    BY <1>2, <2>1, PartOf
  <2>3. calculateVolumeFor = a + (p * (b - a)) \div t
    BY <1>1, <2>1 DEF calculateVolumeFor, Quotient
  <2> QED BY <1>2, <1>3, <2>2, <2>3
<1>4. CASE b < a
  <2>1. PICK d, n : d = a - b /\ n = p * d
    OBVIOUS
  <2>2. d \in Nat /\ n \in Nat /\ p * (b - a) = -n
    BY <1>2, <1>4, <2>1
  <2>3. n \div t \in 0 .. d
    BY <1>2, <2>1, <2>2, PartOf
  <2>4. CASE n = 0
    <3>1. Quotient(0, t) \in 0 .. d
      <4>1. n \div t = Quotient(0, t)
        BY <2>2, <2>4 DEF Quotient
      <4> QED BY <2>3, <4>1
    <3>2. calculateVolumeFor = a + Quotient(0, t)
      BY <1>1, <2>2, <2>4 DEF calculateVolumeFor
    <3>3. 0 \div t = 0
      BY <1>2, SMTT(20)
    <3>4. Quotient(0, t) = 0
      BY <3>3 DEF Quotient
    <3> QED BY <1>2, <3>2, <3>4
  <2>5. CASE n # 0
    <3>1. Quotient(-n, t) = -(n \div t)
      BY <2>2, <2>5 DEF Quotient
    <3>2. calculateVolumeFor = a - (n \div t)
      BY <1>1, <1>2, <2>2, <2>3, <3>1 DEF calculateVolumeFor
    <3> QED BY <1>2, <1>4, <2>1, <2>3, <3>2
  <2> QED BY <2>4, <2>5
<1> QED BY <1>2, <1>3, <1>4

LEMMA InitMusicInv == MusicInit => MusicInv
  BY SoundAssumption, Products DEF MusicInit, MusicInv, MusicTypeOK, NoMusic, NoFade

\* An opcode or a block that leaves the volume and the fades alone.
LEMMA PlayerSteps ==
  ASSUME MusicInv, UNCHANGED volumes, bgm' \in Player,
         waiting' \in {"no", "wait", "fadeout"}, {heard', asked', saved'} \subseteq Tracks \union {NoTrack}
  PROVE  MusicInv'
  BY DEF MusicInv, MusicTypeOK, volumes, Player

\* A volume that is set is one.
LEMMA LouderPlayer ==
  ASSUME MusicInv, NEW product \in 0 .. Full * Full
  PROVE  Louder(product) \in Player
  BY DEF MusicInv, MusicTypeOK, Louder, Player

LEMMA NextMusicInv == MusicInv /\ [MusicNext]_musicVars => MusicInv'
<1> SUFFICES ASSUME MusicInv, [MusicNext]_musicVars PROVE MusicInv'
  OBVIOUS
<1> USE DEF volumes, history
<1>1. /\ bgm \in Player /\ waiting \in {"no", "wait", "fadeout"}
      /\ {heard, asked, saved} \subseteq Tracks \union {NoTrack}
      /\ settings \in [bgm_enabled : BOOLEAN, bgm_volume : 0 .. Full]
      /\ fade \in [from : 0 .. Full, to : 0 .. Full, past : Nat, total : Nat]
      /\ fade.past <= fade.total
      /\ fade # NoFade => fade.total # 0
      /\ Full \in Nat
  BY SoundAssumption DEF MusicInv, MusicTypeOK, Player
<1>2. Terminated(bgm) \in Player /\ FadedOut(bgm) \in Player
  BY <1>1 DEF Player, Terminated, FadedOut
<1>3. NoMusic \in Player
  <2>1. 0 \in 0 .. Full * Full
    BY <1>1, Products
  <2> QED BY <2>1 DEF Player, NoMusic
<1>4. \A t \in Tracks, loop \in BOOLEAN : LoadMusic(t, loop) \in Player
  <2>1. Full * Full \in 0 .. Full * Full
    BY <1>1, Products
  <2> QED BY <2>1 DEF Player, LoadMusic
<1>5. CASE BgmPlay
  BY <1>1, <1>4, <1>5, PlayerSteps DEF BgmPlay
<1>6. CASE BgmStop \/ BgmFadeOut \/ LoadGame \/ LastBlock
  BY <1>1, <1>2, <1>6, PlayerSteps DEF BgmStop, BgmFadeOut, LoadGame, LastBlock, Player
<1>7. CASE BgmPause \/ BgmUnPause
  <2>1. [bgm EXCEPT !.status = "paused"] \in Player /\ [bgm EXCEPT !.status = "playing"] \in Player
    BY <1>1 DEF Player
  <2> QED BY <1>1, <1>7, <2>1, PlayerSteps DEF BgmPause, BgmUnPause
<1>8. CASE bgmWait \/ WaitOver \/ WaitSkipped
  BY <1>1, <1>8, PlayerSteps DEF bgmWait, WaitOver, WaitSkipped
<1>9. CASE SaveGame
  BY <1>1, <1>9, PlayerSteps DEF SaveGame, GetBgmName, Player
<1>10. CASE OnMusic
  BY <1>1, <1>3, <1>10, PlayerSteps DEF OnMusic, Player
<1>11. CASE ChangeSoundSettings
  BY <1>11 DEF ChangeSoundSettings, MusicInv, MusicTypeOK
<1>12. ASSUME NEW v \in 0 .. Full, SetVolumeNow(v)
       PROVE  /\ bgm' \in Player
              /\ settings' \in [bgm_enabled : BOOLEAN, bgm_volume : 0 .. Full]
  BY <1>1, <1>12, Products, LouderPlayer DEF SetVolumeNow
<1>13. CASE SetBgmVolumeScript
  <2>1. PICK v \in Levels :
          \/ SetVolumeNow(v) /\ UNCHANGED fade
          \/ \E ms \in FadeTimes : SetVolumeLater(v, ms)
    BY <1>13 DEF SetBgmVolumeScript
  <2>2. v \in 0 .. Full
    BY SoundAssumption
  <2>3. UNCHANGED <<waiting, heard, history>>
    BY <1>13 DEF SetBgmVolumeScript
  <2>4. CASE SetVolumeNow(v) /\ UNCHANGED fade
    BY <1>1, <1>12, <2>2, <2>3, <2>4 DEF MusicInv, MusicTypeOK, Player
  <2>5. CASE \E ms \in FadeTimes : SetVolumeLater(v, ms)
    <3>1. PICK ms \in FadeTimes : SetVolumeLater(v, ms)
      BY <2>5
    <3>2. ms \in Nat \ {0}
      BY SoundAssumption
    <3>3. bgm' \in Player /\ UNCHANGED settings
      <4>1. settings.bgm_volume \in 0 .. Full
        BY <1>1
      <4>2. settings.bgm_volume * v \in 0 .. Full * Full
        BY <2>2, <4>1, Products
      <4> QED BY <3>1, <4>2, LouderPlayer DEF SetVolumeLater
    <3>4. /\ fade' \in [from : 0 .. Full, to : 0 .. Full, past : Nat, total : Nat]
          /\ fade'.past <= fade'.total /\ fade'.total # 0 /\ fade'.past = 0
      BY <1>1, <2>2, <3>1, <3>2 DEF SetVolumeLater
    <3> QED BY <1>1, <2>3, <3>3, <3>4 DEF MusicInv, MusicTypeOK, Player
  <2> QED BY <2>1, <2>4, <2>5
<1>14. CASE ExecuteSoundSystem
  <2>1. PICK v : v = IF FadeHasEnded THEN fade.to ELSE calculateVolumeFor
    OBVIOUS
  <2>2. v \in 0 .. Full
    BY <1>1, <1>14, <2>1, FadeStaysBetween DEF ExecuteSoundSystem
  <2>3. SetVolumeNow(v) /\ UNCHANGED <<waiting, heard, history>>
    BY <1>14, <2>1 DEF ExecuteSoundSystem
  <2>4. fade' = fade \/ fade' = NoFade
    BY <1>14 DEF ExecuteSoundSystem
  <2> QED BY <1>1, <1>12, <2>2, <2>3, <2>4 DEF MusicInv, MusicTypeOK, Player, NoFade
<1>15. CASE TimePasses
  BY <1>1, <1>15 DEF TimePasses, FadeHasEnded, MusicInv, MusicTypeOK, Player
<1>16. CASE UNCHANGED musicVars
  BY <1>16 DEF musicVars, MusicInv, MusicTypeOK
<1> QED
  BY <1>5, <1>6, <1>7, <1>8, <1>9, <1>10, <1>11, <1>13, <1>14, <1>15, <1>16 DEF MusicNext, Opcodes

\* Levels and volumes stay in their range, during a fade too, and a fade that runs
\* has a length: calculateVolumeFor never divides by zero.
THEOREM VolumesInRange == MusicSpec => []MusicInv
  BY InitMusicInv, NextMusicInv, PTL DEF MusicSpec

\* A fade ends at the level that was asked for, whatever is played, paused, stopped,
\* faded or loaded meanwhile: FadeArrives.
THEOREM FadesArrive == MusicSpec => FadeArrives
<1>1. ASSUME MusicInv, MusicNext, fade # NoFade, fade' = NoFade
      PROVE  settings'.bgm_volume = fade.to /\ bgm'.volume \in {0, fade.to * fade.to}
  <2>1. bgm \in Player /\ settings \in [bgm_enabled : BOOLEAN, bgm_volume : 0 .. Full]
    BY <1>1 DEF MusicInv, MusicTypeOK, Player
  <2>2. ASSUME NEW v, NEW ms \in FadeTimes, SetVolumeLater(v, ms) PROVE FALSE
    <3>1. fade'.total = ms /\ ms # 0
      BY <2>2, SoundAssumption DEF SetVolumeLater
    <3> QED BY <1>1, <3>1 DEF NoFade
  <2>3. CASE ExecuteSoundSystem
    <3>1. SetVolumeNow(fade.to)
      BY <1>1, <2>3 DEF ExecuteSoundSystem
    <3> QED BY <2>1, <3>1 DEF SetVolumeNow, Louder, Player, NoMusic
  <2>4. CASE TimePasses
    <3>1. fade'.past = fade.past + 1 /\ fade.past \in Nat
      BY <1>1, <2>4 DEF TimePasses, MusicInv
    <3> QED BY <1>1, <3>1 DEF NoFade
  <2>5. CASE ~ExecuteSoundSystem /\ ~TimePasses
    <3>1. UNCHANGED fade
      BY <1>1, <2>2, <2>5 DEF MusicNext, Opcodes, BgmPlay, BgmStop, BgmPause, BgmUnPause, BgmFadeOut,
         bgmWait, WaitOver, WaitSkipped, SetBgmVolumeScript, ChangeSoundSettings, SaveGame, LoadGame,
         OnMusic, LastBlock, volumes
    <3> QED BY <1>1, <3>1
  <2> QED BY <2>3, <2>4, <2>5
<1>2. MusicInv /\ [MusicNext]_musicVars =>
        [fade # NoFade /\ fade' = NoFade =>
           settings'.bgm_volume = fade.to /\ bgm'.volume \in {0, fade.to * fade.to}]_musicVars
  BY <1>1
<1> QED BY <1>2, VolumesInRange, PTL DEF MusicSpec, FadeArrives
=============================================================================
