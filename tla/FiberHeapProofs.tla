-------------------------- MODULE FiberHeapProofs --------------------------
(***************************************************************************)
(* The collector, for every set of fibers and futures.  Whatever scripts   *)
(* do, it keeps the invariant of the scheduler and deletes no fiber that   *)
(* is still in fibres_ (HeapInv is inductive).  For scripts that await     *)
(* neither what is blocked nor what is queued, keep a reference to it, and *)
(* make futures by Sleep and Timeout, no fiber is queued twice, what is    *)
(* deleted is dead and settled, and no pointer of the machine leads to it  *)
(* (CarefulInv is inductive).                                              *)
(***************************************************************************)
EXTENDS FiberHeapInvariants, FiberRuntimeProofs

(***************************************************************************)
(* The collector.  A step of FiberHeap is a step of FiberRuntime, a step   *)
(* that only moves references, or a collection; FiberRuntimeProofs covers  *)
(* the first.                                                              *)
(***************************************************************************)

USE DEF fiberVars, promiseVars, schedVars, sweepVars, loopVars

\* What a step of FiberHeap is to FiberRuntime.
LEMMA HeapSteps == [HeapNext]_hvars => [Next]_vars \/ CollectGarbage
<1> SUFFICES ASSUME [HeapNext]_hvars PROVE [Next]_vars \/ CollectGarbage
  OBVIOUS
<1>1. CASE UNCHANGED hvars
  BY <1>1 DEF hvars
<1>2. CASE MovesNoReference
  BY <1>2 DEF MovesNoReference, Next, Step, Calls, Instructions
<1>3. CASE HandToFiber \/ HandToFuture \/ ClearStack \/ ResetPromise
  BY <1>3 DEF HandToFiber, HandToFuture, ClearStack, ResetPromise, Next, Step, Calls
<1>4. CASE HeapInstructions
  BY <1>4 DEF HeapInstructions, HeapReturn, HeapYield, HeapSpawn, HeapSpawnBad,
              HeapCreate, HeapAwait, Drop, Next, Step, Instructions
<1>5. CASE \E f \in Fibers : Evaluate(f)
  BY <1>5 DEF Next
<1> QED
  BY <1>1, <1>2, <1>3, <1>4, <1>5 DEF HeapNext, HeapStep

-----------------------------------------------------------------------------
(* The scheduler *)

\* A collection happens between two turns, when no call is in progress; the
\* promises it touches are those of objects nobody can reach.
LEMMA CollectScheduling ==
  ASSUME SchedulingInv, CollectGarbage
  PROVE  SchedulingInv'
<1>1. /\ phase = "sweep"
      /\ UNCHANGED <<fiberVars, told, fut, left, schedVars, sweepVars, loopVars, agenda>>
      /\ pstat' = [o \in Objs |-> IF o \in Allocations \ Marked THEN "Rejected" ELSE pstat[o]]
      /\ wakers' = [o \in Objs |-> IF o \in Allocations \ Marked THEN <<>> ELSE wakers[o]]
  BY DEF CollectGarbage, Sweep
<1>2. TypeOK'
  <2>1. pstat' \in [Objs -> {"New", "Pending", "Resolved", "Rejected"}]
    BY <1>1 DEF SchedulingInv, TypeOK
  <2>2. wakers' \in [Objs -> Seq(Objs)]
    BY <1>1 DEF SchedulingInv, TypeOK
  <2> QED
    BY <1>1, <2>1, <2>2 DEF SchedulingInv, TypeOK
<1>3. (RunnableQueued /\ AgendaShape /\ CurrentFiber /\ YieldIsCalm)'
  BY <1>1 DEF SchedulingInv, RunnableQueued, Queued, AgendaShape, CurrentFiber, YieldIsCalm, Calm
<1> QED
  BY <1>2, <1>3 DEF SchedulingInv

\* The collector loses no runnable fiber and upsets no call in progress.
THEOREM HeapScheduling == HeapSpec => []SchedulingInv
<1>1. HeapInit => SchedulingInv
  BY SchedulingInit DEF HeapInit
<1>2. SchedulingInv /\ [HeapNext]_hvars => SchedulingInv'
  BY HeapSteps, SchedulingNext, CollectScheduling
<1> QED
  BY <1>1, <1>2, PTL DEF HeapSpec

\* A dead fiber stays dead.
THEOREM HeapNoResurrection == HeapSpec => DeadStaysDead
<1>1. SchedulingInv /\ [HeapNext]_hvars
        => [\A f \in Fibers : fstate[f] = "Dead" => fstate'[f] = "Dead"]_vars
  <2>1. CollectGarbage => fstate' = fstate
    BY DEF CollectGarbage
  <2> QED
    BY <2>1, HeapSteps, DeadStep
<1> QED
  BY HeapScheduling, <1>1, PTL DEF HeapSpec, DeadStaysDead

-----------------------------------------------------------------------------
(* The heap *)

\* An object that has been allocated stays so.
LEMMA AllocatedForGood ==
  ASSUME SchedulingInv, [HeapNext]_hvars, NEW o \in Objs, Allocated(o)
  PROVE  Allocated(o)'
<1> USE DEF Allocated
<1>1. CASE CollectGarbage
  BY <1>1 DEF CollectGarbage
<1>2. CASE [Next]_vars
  <2>1. TypeOK
    BY DEF SchedulingInv
  <2>2. CASE Calls
    BY <2>1, <2>2 DEF Calls, AwaitCall, DeliverToFiber, DeliverToFuture, Arrived, Settle, Woken,
           Bump, RaiseError, KillDead, Bury, LoopTail, Leave, MicroTask, ResumeAwaited, Kill,
           Detach, TypeOK
  <2>3. CASE Loop
    BY <2>3 DEF Loop, FireTimer, NextTask, SweepKeep, SweepErase, SweepThrow, SweepDone
  <2>4. ASSUME NEW f \in Fibers, \E g \in Fibers : Spawn(f, g) \/ SpawnBadArguments(f, g)
        PROVE  Allocated(o)'
    BY <2>1, <2>4 DEF Spawn, SpawnBadArguments, TypeOK
  <2>5. ASSUME NEW f \in Fibers, NEW p \in Futures, NEW kind \in FutureKinds,
               NEW items \in Items(kind), CreateFuture(f, p, kind, items)
        PROVE  Allocated(o)'
    <3>1. /\ fstate' = fstate
          /\ fut[p].kind = "none"
          /\ fut' = [fut EXCEPT ![p] = [kind |-> kind, of |-> items]]
      BY <2>5 DEF CreateFuture
    <3>2. o # p \/ (o \in Fibers /\ fstate[o] # "Free")
      BY <3>1
    <3>3. (o \in Futures /\ o # p) => fut'[o] = fut[o]
      BY <2>1, <3>1 DEF TypeOK
    <3> QED
      BY <3>1, <3>2, <3>3
  <2>6. ASSUME NEW f \in Fibers, \E x \in Objs \cup {None} : Await(f, x)
        PROVE  Allocated(o)'
    BY <2>1, <2>6 DEF Await, TypeOK
  <2>7. ASSUME NEW f \in Fibers,
               \/ CallFunction(f) \/ CallBadArguments(f) \/ Throw(f)
               \/ TryBegin(f) \/ TryEnd(f) \/ Return(f) \/ Yield(f)
        PROVE  Allocated(o)'
    BY <2>7 DEF CallFunction, CallBadArguments, Throw, TryBegin, TryEnd, Return, Yield
  <2>8. CASE Instructions
    BY <2>4, <2>5, <2>6, <2>7, <2>8 DEF Instructions
  <2>9. ASSUME NEW f \in Fibers, Evaluate(f) PROVE Allocated(o)'
    BY <2>1, <2>9 DEF Evaluate, TypeOK
  <2>10. CASE UNCHANGED vars
    BY <2>10 DEF vars
  <2> QED
    BY <1>2, <2>2, <2>3, <2>8, <2>9, <2>10 DEF Next, Step
<1> QED
  BY HeapSteps, <1>1, <1>2

\* A fiber enters fibres_ when it is made, and the sweep only drops some.
LEMMA FibresGrow ==
  ASSUME SchedulingInv, [Next]_vars, NEW g \in ToSet(fibres') \cup ToSet(kept')
  PROVE  \/ g \in ToSet(fibres) \cup ToSet(kept)
         \/ g \in Fibers /\ fstate[g] = "Free" /\ Allocated(g)'
<1>0. /\ fibres \in Seq(Fibers) /\ kept \in Seq(Fibers) /\ scan \in Nat \ {0}
      /\ fstate \in [Fibers -> {"Free", "Running", "Suspended", "Dead"}]
  BY DEF SchedulingInv, TypeOK
<1> USE DEF ToSet
<1>1. CASE UNCHANGED <<fibres, kept>>
  BY <1>1
<1>2. ASSUME NEW h \in Fibers, fstate[h] = "Free", fibres' = Append(fibres, h), kept' = kept,
             fstate'[h] # "Free"
      PROVE  \/ g \in ToSet(fibres) \cup ToSet(kept)
             \/ g \in Fibers /\ fstate[g] = "Free" /\ Allocated(g)'
  <2>1. ToSet(fibres') = ToSet(fibres) \cup {h}
    BY <1>0, <1>2, AppendSet
  <2>2. g = h \/ g \in ToSet(fibres) \cup ToSet(kept)
    BY <1>2, <2>1
  <2> QED
    BY <1>2, <2>2 DEF Allocated
<1>3. CASE SweepKeep
  <2>1. fibres' = fibres /\ kept' = Append(kept, fibres[scan]) /\ scan \in DOMAIN fibres
    BY <1>0, <1>3 DEF SweepKeep
  <2>2. PICK e \in Fibers : e = fibres[scan]
    BY <1>0, <2>1
  <2>3. ToSet(kept') = ToSet(kept) \cup {e}
    BY <1>0, <2>1, <2>2, AppendSet
  <2> QED
    BY <2>1, <2>2, <2>3
<1>4. CASE SweepThrow
  <2>1. fibres' = kept \o SubSeq(fibres, Len(kept) + 1, Len(fibres)) /\ kept' = <<>>
    BY <1>4 DEF SweepThrow
  <2>2. ToSet(kept') = {}
    BY <2>1
  <2>3. PICK i \in DOMAIN fibres' : g = fibres'[i]
    BY <2>2
  <2>4. CASE i <= Len(kept)
    BY <1>0, <2>1, <2>3, <2>4
  <2>5. CASE i > Len(kept)
    BY <1>0, <2>1, <2>3, <2>5
  <2> QED
    BY <1>0, <2>1, <2>3, <2>4, <2>5
<1>5. CASE SweepDone
  <2>1. fibres' = kept /\ kept' = <<>>
    BY <1>5 DEF SweepDone
  <2> QED
    BY <2>1
<1>6. CASE FireTimer \/ NextTask \/ SweepErase
  BY <1>1, <1>6 DEF FireTimer, NextTask, RunOrSkip, SweepErase
<1>7. CASE Calls
  BY <1>1, <1>7 DEF Calls, AwaitCall, DeliverToFiber, DeliverToFuture, Arrived, Settle, Woken,
         Bump, RaiseError, KillDead, Bury, LoopTail, Leave, MicroTask, ResumeAwaited, Kill, Detach
<1>8. ASSUME NEW f \in Fibers, NEW h \in Fibers, Spawn(f, h) \/ SpawnBadArguments(f, h)
      PROVE  \/ g \in ToSet(fibres) \cup ToSet(kept)
             \/ g \in Fibers /\ fstate[g] = "Free" /\ Allocated(g)'
  BY <1>0, <1>2, <1>8 DEF Spawn, SpawnBadArguments
<1>9. ASSUME NEW f \in Fibers, Evaluate(f)
      PROVE  \/ g \in ToSet(fibres) \cup ToSet(kept)
             \/ g \in Fibers /\ fstate[g] = "Free" /\ Allocated(g)'
  BY <1>0, <1>2, <1>9 DEF Evaluate
<1>10. ASSUME NEW f \in Fibers, NEW p, NEW kind, NEW items, CreateFuture(f, p, kind, items)
       PROVE  UNCHANGED <<fibres, kept>>
  BY <1>10 DEF CreateFuture
<1>11. ASSUME NEW f \in Fibers,
              \/ CallFunction(f) \/ CallBadArguments(f) \/ Throw(f)
              \/ TryBegin(f) \/ TryEnd(f) \/ Return(f) \/ Yield(f)
              \/ \E x \in Objs \cup {None} : Await(f, x)
       PROVE  UNCHANGED <<fibres, kept>>
  BY <1>11 DEF CallFunction, CallBadArguments, Throw, TryBegin, TryEnd, Return, Yield, Await
<1>12. CASE Instructions
  BY <1>1, <1>8, <1>10, <1>11, <1>12 DEF Instructions
<1>13. CASE UNCHANGED vars
  BY <1>1, <1>13 DEF vars
<1> QED
  BY <1>3, <1>4, <1>5, <1>6, <1>7, <1>9, <1>12, <1>13 DEF Next, Step, Loop

\* A collection deletes no fiber of fibres_.
LEMMA CollectKeepsFibres ==
  ASSUME HeapInv, CollectGarbage
  PROVE  HeapInv'
<1>1. SchedulingInv'
  BY CollectScheduling DEF HeapInv
<1>2. /\ fibres' = fibres /\ kept' = kept /\ fstate' = fstate /\ fut' = fut /\ kept = <<>>
      /\ freed' = freed \cup (Allocations \ Marked)
  BY DEF CollectGarbage, Sweep
<1>3. ToSet(kept) = {}
  BY <1>2 DEF ToSet
<1>4. ASSUME NEW g \in ToSet(fibres) PROVE g \in Marked
  <2>1. g \in Allocations
    BY <1>4 DEF HeapInv, Allocations
  <2>2. g \in Roots
    BY <1>4 DEF Roots
  <2> QED
    BY <2>1, <2>2 DEF Marked
<1>5. \A g \in ToSet(fibres') \cup ToSet(kept') : g \in Objs /\ Allocated(g)' /\ g \notin freed'
  BY <1>2, <1>3, <1>4 DEF HeapInv, Allocated
<1>6. \A o \in freed' : o \in Objs /\ Allocated(o)'
  BY <1>2 DEF HeapInv, Allocations, Allocated
<1> QED
  BY <1>1, <1>5, <1>6 DEF HeapInv

\* Nor does any other step of the runtime and the collector.
LEMMA HeapInvNext == HeapInv /\ [HeapNext]_hvars => HeapInv'
<1> SUFFICES ASSUME HeapInv, [HeapNext]_hvars PROVE HeapInv'
  OBVIOUS
<1>1. CASE CollectGarbage
  BY <1>1, CollectKeepsFibres
<1>2. CASE [Next]_vars /\ freed' = freed
  <2>1. SchedulingInv /\ SchedulingInv'
    BY <1>2, SchedulingNext DEF HeapInv
  <2>2. ASSUME NEW o \in Objs, Allocated(o) PROVE Allocated(o)'
    BY <2>1, <2>2, AllocatedForGood
  <2>3. \A o \in freed' : o \in Objs /\ Allocated(o)'
    BY <1>2, <2>2 DEF HeapInv
  <2>4. ASSUME NEW g \in ToSet(fibres') \cup ToSet(kept')
        PROVE  g \in Objs /\ Allocated(g)' /\ g \notin freed'
    <3>1. CASE g \in ToSet(fibres) \cup ToSet(kept)
      BY <1>2, <2>2, <3>1 DEF HeapInv
    <3>2. CASE g \in Fibers /\ fstate[g] = "Free" /\ Allocated(g)'
      <4>1. ~Allocated(g)
        BY <3>2, ObjsAssumption DEF Allocated, Objs
      <4> QED
        BY <1>2, <3>2, <4>1 DEF HeapInv, Objs
    <3> QED
      BY <1>2, <2>1, <3>1, <3>2, FibresGrow
  <2> QED
    BY <2>1, <2>3, <2>4 DEF HeapInv
<1>3. CollectGarbage \/ freed' = freed
  BY DEF HeapNext, HeapStep, HandToFiber, HandToFuture, ClearStack, ResetPromise,
         HeapInstructions, HeapReturn, HeapYield, HeapSpawn, HeapSpawnBad, HeapCreate,
         HeapAwait, Drop, hvars, heapVars
<1> QED
  BY <1>1, <1>2, <1>3, HeapSteps

\* Whatever scripts do, the collector deletes no fiber the machine still has.
THEOREM NoFiberCollected == HeapSpec => []FibresSurvive
<1>1. HeapInit => HeapInv
  BY SchedulingInit DEF HeapInit, Init, HeapInv, ToSet
<1>2. HeapInv => FibresSurvive
  BY DEF HeapInv, FibresSurvive
<1> QED
  BY <1>1, <1>2, HeapInvNext, PTL DEF HeapSpec

HIDE DEF fiberVars, promiseVars, schedVars, sweepVars, loopVars

(***************************************************************************)
(* Turns.                                                                  *)
(***************************************************************************)

\* The head of the agenda puts the calls X in its place: nobody is queued, or
\* moves on, whom a call behind it is about.
LEMMA CascadeTurns ==
  ASSUME SchedulingInv, TurnsInv, agenda # <<>>, NEW X \in Seq(CallSet), agenda' = X \o Rest,
         UNCHANGED <<runq, microq, cur>>,
         \A f \in Fibers : Queued(f) => fstate'[f] = "Running",
         cur # None /\ Blocked(cur)' => Blocked(cur),
         \A c \in Behind :
           /\ c.op # "await"
           /\ c.op = "task" => fstate'[c.who] # "Suspended"
           /\ c.op = "detach" => fstate'[c.who] = "Running",
         \A i \in 1..Len(X) :
           /\ TurnOK(X[i])'
           /\ X[i].op = "micro" =>
                /\ \A j \in 1..Len(X) : X[j].op = "micro" /\ X[j].who = X[i].who => i = j
                /\ \A c \in Behind : ~(c.op = "micro" /\ c.who = X[i].who)
  PROVE  TurnsInv'
  <1>1. TypeOK
    BY DEF SchedulingInv
  <1>2. /\ Entries = {Top} \cup Behind /\ Top = agenda[1] /\ 1 \in DOMAIN agenda
        /\ Entries' = ToSet(X) \cup Behind
        /\ ToSet(X) = {X[i] : i \in 1..Len(X)}
    BY <1>1, PushedCalls
  <1>3. QueueInv'
    BY DEF TurnsInv, QueueInv, Queued
  <1>4. ASSUME NEW c \in Behind PROVE TurnOK(c)'
    <2>1. TurnOK(c)
      BY <1>2 DEF TurnsInv
    <2>2. \A f : Queued(f)' <=> Queued(f)
      BY DEF Queued
    <2> QED BY <2>1, <2>2 DEF TurnOK
  <1>5. \A c \in Entries' : TurnOK(c)'
    BY <1>2, <1>4
  <1>6. /\ agenda \in Seq(CallSet) /\ Len(agenda) \in Nat \ {0} /\ Len(X) \in Nat
        /\ DOMAIN agenda = 1..Len(agenda)
    BY <1>1, EmptySeq DEF TypeOK
  <1>7. /\ Len(agenda') = Len(X) + Len(agenda) - 1
        /\ \A j \in 1..Len(X) : agenda'[j] = X[j]
        /\ \A i \in 2..Len(agenda) : agenda'[Len(X) + i - 1] = agenda[i]
        /\ \A j \in 1..Len(agenda') :
             \/ j \in 1..Len(X)
             \/ \E i \in 2..Len(agenda) : j = Len(X) + i - 1
    BY <1>6, PushIndices DEF Rest
  <1>8. DOMAIN agenda' = 1..Len(agenda')
    BY <1>6, HeadTailProperties, ConcatProperties DEF Rest
  <1>9. ASSUME NEW i \in 1..Len(agenda'), NEW j \in 1..Len(agenda'),
               agenda'[i].op = "micro", agenda'[j].op = "micro", agenda'[i].who = agenda'[j].who
        PROVE  i = j
    <2>1. CASE i \in 1..Len(X) /\ j \in 1..Len(X)
      BY <1>7, <1>9, <2>1
    <2>2. ASSUME NEW a \in 1..Len(X), NEW b \in 2..Len(agenda), agenda'[a].op = "micro",
                 agenda'[Len(X) + b - 1].op = "micro",
                 agenda'[a].who = agenda'[Len(X) + b - 1].who
          PROVE  FALSE
      <3>1. agenda[b] \in Behind /\ agenda[b].op = "micro" /\ agenda[b].who = X[a].who
        BY <1>7, <2>2 DEF Behind
      <3>2. X[a].op = "micro"
        BY <1>7, <2>2
      <3> QED BY <3>1, <3>2
    <2>3. ASSUME NEW a \in 2..Len(agenda), NEW b \in 2..Len(agenda),
                 i = Len(X) + a - 1, j = Len(X) + b - 1
          PROVE  i = j
      <3>1. agenda[a].op = "micro" /\ agenda[b].op = "micro" /\ agenda[a].who = agenda[b].who
        BY <1>7, <1>9, <2>3
      <3>2. a \in DOMAIN agenda /\ b \in DOMAIN agenda
        BY <1>6
      <3>3. a = b
        BY <3>1, <3>2 DEF TurnsInv, QueuedOnce
      <3> QED BY <2>3, <3>3
    <2> QED BY <1>7, <1>9, <2>1, <2>2, <2>3
  <1>10. QueuedOnce'
    BY <1>8, <1>9 DEF QueuedOnce
  <1> QED BY <1>3, <1>5, <1>10 DEF TurnsInv

\* No call behind a head that is not a first await is one, or takes a blocked
\* executed fiber for granted.
LEMMA NoAwaitBehind ==
  ASSUME SchedulingInv, TurnsInv, agenda # <<>>
  PROVE  \A c \in Behind : c.op # "await"
  <1>1. TypeOK
    BY DEF SchedulingInv
  <1>2. agenda \in Seq(CallSet) /\ Len(agenda) \in Nat \ {0}
    BY <1>1, EmptySeq DEF TypeOK
  <1> SUFFICES ASSUME NEW k \in 2..Len(agenda), NEW c, c = agenda[k],
                      c.op = "await"
               PROVE  FALSE
    BY DEF Behind
  <1>3. c \in Entries
    BY <1>2 DEF Entries, ToSet
  <1>4. agenda = <<c, Do("leave", cur)>>
    BY <1>3 DEF TurnsInv, TurnOK
  <1>5. k = 2 /\ c = Do("leave", cur)
    BY <1>4
  <1> QED BY <1>5 DEF Do, Call

\* Once all calls have returned only the queues matter.
LEMMA NoCallsTurns ==
  ASSUME QueueInv', agenda' = <<>>
  PROVE  TurnsInv'
  BY DEF TurnsInv, Entries, QueuedOnce, ToSet

\* The head of the agenda may rely on what any call may rely on.
LEMMA TopTurn ==
  ASSUME SchedulingInv, AnswersInv, TurnsInv, NEW op, Running(op)
  PROVE  /\ TypeOK /\ agenda # <<>> /\ Rest \in Seq(CallSet)
         /\ Top \in CallSet /\ Top.op = op /\ CallOK(Top) /\ TurnOK(Top)
         /\ <<>> \o Rest = Rest /\ <<>> \in Seq(CallSet)
         /\ \A c \in Behind : c.op # "await" /\ TurnOK(c) /\ CallOK(c) /\ c \in CallSet
         /\ \A c \in Behind : c.op = "micro" /\ Top.op = "micro" => c.who # Top.who
         /\ \A c \in Behind : c.op \notin {"error", "kill"}
         /\ Entries = {Top} \cup Behind
  <1>1. /\ TypeOK /\ agenda # <<>> /\ Rest \in Seq(CallSet)
        /\ Top \in CallSet /\ Top.op = op /\ CallOK(Top)
        /\ Top = agenda[1] /\ 1 \in DOMAIN agenda
        /\ <<>> \o Rest = Rest /\ <<>> \in Seq(CallSet)
    BY TopFacts
  <1>2. /\ agenda \in Seq(CallSet) /\ DOMAIN agenda = 1..Len(agenda) /\ Len(agenda) \in Nat
    BY <1>1 DEF TypeOK
  <1>3. Entries = {Top} \cup Behind
    <2>1. PICK X : X = <<>> /\ X \in Seq(CallSet)
      BY <1>1
    <2>2. \A i \in 1..Len(agenda) : i = 1 \/ i \in 2..Len(agenda)
      BY <1>2
    <2>3. \A i \in 2..Len(agenda) : i \in DOMAIN agenda
      BY <1>2
    <2> QED BY <1>1, <1>2, <2>2, <2>3 DEF Entries, ToSet, Behind
  <1>4. \A c \in Entries : TurnOK(c) /\ CallOK(c) /\ c \in CallSet
    BY <1>2 DEF TurnsInv, AnswersInv, CallsOK, Entries, ToSet
  <1>5. ASSUME NEW k \in 2..Len(agenda)
        PROVE  /\ agenda[k].op = "micro" /\ Top.op = "micro" => agenda[k].who # Top.who
               /\ agenda[k].op \notin {"error", "kill"}
    <2>1. k \in DOMAIN agenda /\ k # 1
      BY <1>2
    <2> QED BY <1>1, <2>1 DEF TurnsInv, QueuedOnce, AnswersInv, PlacesOK, PlaceOK
  <1>6. \A c \in Behind : c.op = "micro" /\ Top.op = "micro" => c.who # Top.who
    BY <1>5 DEF Behind
  <1>7. \A c \in Behind : c.op \notin {"error", "kill"}
    BY <1>5 DEF Behind
  <1> QED BY <1>1, <1>3, <1>4, <1>6, <1>7, NoAwaitBehind

\* A call that changes no fiber's state and queues nobody.
LEMMA PlainTurns ==
  ASSUME SchedulingInv, AnswersInv, TurnsInv, NEW op, Running(op),
         NEW X \in Seq(CallSet), agenda' = X \o Rest,
         UNCHANGED <<fstate, waiting, runq, microq, cur>>,
         X = <<>> \/ op \notin {"await", "micro", "leave"},
         \A i \in 1..Len(X) :
           /\ X[i].op \notin {"micro", "await", "task", "detach"}
           /\ X[i].op \in {"error", "kill"} => ~Queued(X[i].who)
           /\ X[i].op = "deliver" => X[i].by # None
  PROVE  TurnsInv'
  <1>1. /\ agenda # <<>> /\ Top.op = op /\ TurnOK(Top)
        /\ \A c \in Behind : c.op # "await" /\ TurnOK(c)
    BY TopTurn
  <1>2. /\ \A f : Queued(f)' <=> Queued(f)
        /\ \A f : Blocked(f)' <=> Blocked(f)
    BY DEF Queued, Blocked
  <1>3. X # <<>> => ~(cur # None /\ Blocked(cur))
    BY <1>1 DEF TurnOK
  <1>4. \A i \in 1..Len(X) : X # <<>>
    OBVIOUS
  <1>5. \A i \in 1..Len(X) : TurnOK(X[i])'
    BY <1>2, <1>3, <1>4 DEF TurnOK
  <1>6. \A f \in Fibers : Queued(f) => fstate'[f] = "Running"
    BY DEF TurnsInv, QueueInv
  <1>7. \A c \in Behind :
           /\ c.op # "await"
           /\ c.op = "task" => fstate'[c.who] # "Suspended"
           /\ c.op = "detach" => fstate'[c.who] = "Running"
    BY <1>1 DEF TurnOK
  <1> QED BY <1>1, <1>2, <1>5, <1>6, <1>7, CascadeTurns

\* Settling a promise, and what follows it.
LEMMA SettlingTurns ==
  ASSUME SchedulingInv, AnswersInv, TurnsInv,
         DeliverToFuture \/ Arrived \/ Settle \/ Woken \/ Bump \/ Bury
  PROVE  TurnsInv'
  <1> USE DEF fiberVars, promiseVars, schedVars, sweepVars, loopVars
  <1>1. PICK op \in {"deliver", "arrived", "settle", "woken", "bump", "bury"} : Running(op)
    BY DEF DeliverToFuture, Arrived, Settle, Woken, Bump, Bury
  <1>2. /\ TypeOK /\ agenda # <<>> /\ Top \in CallSet /\ Top.op = op
        /\ Rest \in Seq(CallSet) /\ <<>> \o Rest = Rest /\ <<>> \in Seq(CallSet)
    BY <1>1, TopTurn
  <1>3. UNCHANGED <<fstate, waiting, runq, microq, cur>>
    BY DEF DeliverToFuture, Arrived, Settle, Woken, Bump, Bury
  <1>4. CASE agenda' = Rest
    <2>1. PICK X : X = <<>>
      OBVIOUS
    <2>2. agenda' = X \o Rest /\ X \in Seq(CallSet) /\ \A i \in 1..Len(X) : FALSE
      BY <1>2, <1>4, <2>1
    <2> QED BY <1>1, <1>3, <2>1, <2>2, PlainTurns
  <1>5. CASE Settle /\ agenda' = WakeAll(Top.who, Top.res) \o Rest
    <2>1. PICK o \in Objs, r \in Results : o = Top.who /\ r = Top.res
      BY <1>2, <1>5 DEF Settle, Running, CallSet, Top
    <2>2. PICK X : X = WakeAll(o, r)
      OBVIOUS
    <2>3. X \in Seq(CallSet)
      BY <1>2, <2>2, WakeAllType
    <2>4. ASSUME NEW i \in 1..Len(X)
          PROVE  X[i].op \in {"deliver", "woken"} /\ (X[i].op = "deliver" => X[i].by = o)
      <3>1. wakers[o] \in Seq(Objs)
        BY <1>2 DEF TypeOK
      <3>2. PICK D : D = [k \in 1..Len(wakers[o]) |-> Call("deliver", wakers[o][k], o, r)]
        OBVIOUS
      <3>3. PICK w : w = Do("woken", o)
        OBVIOUS
      <3>4. w.op = "woken"
        BY <3>3 DEF Do, Call
      <3>5. D \in Seq(CallSet) /\ Len(D) = Len(wakers[o])
        <4>1. \A k \in 1..Len(wakers[o]) : Call("deliver", wakers[o][k], o, r) \in CallSet
          BY <3>1 DEF CallSet, Call, CallOps, FiberOps
        <4> QED BY <3>1, <3>2, <4>1, IsASeq
      <3>6. \A k \in 1..Len(D) : D[k].op = "deliver" /\ D[k].by = o
        BY <3>2, <3>5 DEF Call
      <3>7. w \in CallSet
        BY <3>3 DEF CallSet, Call, Do, CallOps, FiberOps, Results
      <3>8. <<w>> \in Seq(CallSet) /\ Len(<<w>>) = 1 /\ \A k \in 1..1 : <<w>>[k] = w
        BY <3>7
      <3>9. X = D \o <<w>>
        BY <2>2, <3>2, <3>3 DEF WakeAll
      <3>10. /\ Len(X) = Len(D) + 1
             /\ X[i] = IF i <= Len(D) THEN D[i] ELSE <<w>>[i - Len(D)]
        BY <3>5, <3>8, <3>9, ConcatProperties
      <3>11. CASE i <= Len(D)
        <4>1. i \in 1..Len(D)
          BY <3>5, <3>11
        <4> QED BY <3>6, <3>10, <3>11, <4>1
      <3>12. CASE ~(i <= Len(D))
        <4>1. i - Len(D) \in 1..1
          BY <3>5, <3>10, <3>12
        <4> QED BY <3>4, <3>8, <3>10, <3>12, <4>1
      <3> QED BY <3>11, <3>12
    <2>5. o # None
      BY ObjsAssumption
    <2>6. op \notin {"await", "micro", "leave"} /\ agenda' = X \o Rest
      BY <1>5, <2>1, <2>2
    <2>7. \A i \in 1..Len(X) :
           /\ X[i].op \notin {"micro", "await", "task", "detach"}
           /\ X[i].op \in {"error", "kill"} => ~Queued(X[i].who)
           /\ X[i].op = "deliver" => X[i].by # None
      BY <2>4, <2>5
    <2> QED BY <1>1, <1>3, <2>3, <2>6, <2>7, PlainTurns
  <1>6. CASE Arrived
    <2>1. PICK a : a = Do("settle", Top.who)
      OBVIOUS
    <2>2. a.op = "settle" /\ a \in CallSet
      BY <1>2, <1>6, <2>1 DEF Do, Call, CallSet, CallOps, FiberOps, Results, Arrived, Running, Top, Objs
    <2>3. agenda' = Rest \/ agenda' = <<a>> \o Rest
      BY <1>2, <1>6, <2>1 DEF Arrived
    <2>4. /\ <<a>> \in Seq(CallSet) /\ Len(<<a>>) = 1
          /\ \A i \in 1..Len(<<a>>) : <<a>>[i] = a
      BY <2>2
    <2>5. CASE agenda' = <<a>> \o Rest
      <3>1. \A i \in 1..Len(<<a>>) :
             /\ <<a>>[i].op \notin {"micro", "await", "task", "detach"}
             /\ <<a>>[i].op \in {"error", "kill"} => ~Queued(<<a>>[i].who)
             /\ <<a>>[i].op = "deliver" => <<a>>[i].by # None
        BY <2>2, <2>4
      <3>2. op \notin {"await", "micro", "leave"}
        OBVIOUS
      <3> QED BY <1>1, <1>3, <2>4, <2>5, <3>1, <3>2, PlainTurns
    <2> QED BY <1>4, <2>3, <2>5
  <1>7. CASE DeliverToFuture
    <2>1. PICK p \in Futures : p = Top.who
      BY <1>7 DEF DeliverToFuture
    <2>2. PICK a, b : a = Call("settle", p, None, Top.res) /\ b = Do("arrived", p)
      OBVIOUS
    <2>3. a.op = "settle" /\ a \in CallSet /\ b.op = "arrived" /\ b \in CallSet
      BY <1>2, <2>1, <2>2 DEF Do, Call, CallSet, CallOps, FiberOps, Results, Objs
    <2>4. PICK A, B : /\ A = IF fut[p].kind # "gather" \/ Top.res = "err" THEN <<a>> ELSE <<>>
                      /\ B = IF fut[p].kind = "gather" THEN <<b>> ELSE <<>>
      OBVIOUS
    <2>5. A \in Seq({a, b}) /\ B \in Seq({a, b})
      <3>1. <<>> \in Seq({a, b}) /\ <<a>> \in Seq({a, b}) /\ <<b>> \in Seq({a, b})
        OBVIOUS
      <3>2. (A = <<a>> \/ A = <<>>) /\ (B = <<b>> \/ B = <<>>)
        BY <2>4
      <3> QED BY <3>1, <3>2
    <2>6. PICK X : X = A \o B
      OBVIOUS
    <2>7. X \in Seq({a, b})
      BY <2>5, <2>6, ConcatProperties
    <2>8. agenda' = X \o Rest
      BY <1>7, <2>1, <2>2, <2>4, <2>6 DEF DeliverToFuture
    <2>9. X \in Seq(CallSet)
      BY <2>3, <2>7
    <2>10. \A i \in 1..Len(X) : X[i] \in {a, b}
      BY <2>7
    <2>11. \A i \in 1..Len(X) :
             /\ X[i].op \notin {"micro", "await", "task", "detach"}
             /\ X[i].op \in {"error", "kill"} => ~Queued(X[i].who)
             /\ X[i].op = "deliver" => X[i].by # None
      BY <2>3, <2>10
    <2>12. op \notin {"await", "micro", "leave"}
      OBVIOUS
    <2> QED BY <1>1, <1>3, <2>8, <2>9, <2>11, <2>12, PlainTurns
  <1>8. CASE Settle /\ agenda' # Rest
    BY <1>5, <1>8 DEF Settle
  <1>9. CASE Woken \/ Bump \/ Bury
    BY <1>4, <1>9 DEF Woken, Bump, Bury
  <1> QED BY <1>4, <1>6, <1>7, <1>8, <1>9

\* An error that is raised, and an ended fiber that is killed.
LEMMA DyingTurns ==
  ASSUME SchedulingInv, AnswersInv, TurnsInv, RaiseError \/ LoopTail
  PROVE  TurnsInv'
  <1> USE DEF fiberVars, promiseVars, schedVars, sweepVars, loopVars
  <1>1. PICK op \in {"error", "tail"} : Running(op)
    BY DEF RaiseError, LoopTail
  <1>2. /\ TypeOK /\ agenda # <<>> /\ Top \in CallSet /\ Top.op = op /\ TurnOK(Top)
        /\ Rest \in Seq(CallSet) /\ <<>> \o Rest = Rest /\ <<>> \in Seq(CallSet)
    BY <1>1, TopTurn
  <1>3. UNCHANGED <<fstate, waiting, runq, microq, cur>>
    BY DEF RaiseError, LoopTail
  <1>4. PICK f \in Fibers : f = Top.who
    BY <1>2 DEF CallSet, FiberOps
  <1>5. ~Queued(f)
    <2>1. CASE op = "error"
      BY <1>2, <1>4, <2>1 DEF TurnOK
    <2>2. CASE op = "tail"
      <3>1. Top = Do("tail", cur) \/ Top = Do("leave", cur)
        BY <1>2, <2>2, ControlAlone DEF SchedulingInv, Top, Control
      <3>2. f = cur
        BY <1>4, <3>1 DEF Do, Call
      <3> QED BY <3>2 DEF TurnsInv, QueueInv
    <2> QED BY <2>1, <2>2
  <1>6. PICK k, d, e : k = Call("kill", f, None, "err") /\ d = Do("kill", f) /\ e = Do("leave", f)
    OBVIOUS
  <1>7. /\ k.op = "kill" /\ k.who = f /\ d.op = "kill" /\ d.who = f /\ e.op = "leave"
        /\ k \in CallSet /\ d \in CallSet /\ e \in CallSet
    BY <1>6 DEF Do, Call, CallSet, CallOps, FiberOps, Results, Objs
  <1>8. PICK X : X \in {<<>>, <<k>>, <<d, e>>, <<e>>} /\ agenda' = X \o Rest
    <2>1. CASE RaiseError
      <3>1. agenda' = <<k>> \o Rest \/ agenda' = Rest
        BY <1>4, <1>6, <2>1 DEF RaiseError
      <3> QED BY <1>2, <3>1
    <2>2. CASE LoopTail
      <3>1. Rest = <<>>
        BY <1>2, <2>2, ControlAlone DEF SchedulingInv, Control, LoopTail, Running, Rest
      <3>2. agenda' \in {<<d, e>>, <<>>, <<e>>}
        BY <1>4, <1>6, <2>2 DEF LoopTail
      <3>3. <<d, e>> \o <<>> = <<d, e>> /\ <<e>> \o <<>> = <<e>> /\ <<>> \o <<>> = <<>>
        BY <1>7
      <3> QED BY <3>1, <3>2, <3>3
    <2> QED BY <2>1, <2>2
  <1>9. X \in Seq(CallSet) /\ \A i \in 1..Len(X) : X[i] \in {k, d, e}
    <2>1. /\ <<>> \in Seq({k, d, e}) /\ <<k>> \in Seq({k, d, e})
          /\ <<d, e>> \in Seq({k, d, e}) /\ <<e>> \in Seq({k, d, e})
      OBVIOUS
    <2>2. X \in Seq({k, d, e})
      BY <1>8, <2>1
    <2> QED BY <1>7, <2>2
  <1>10. \A i \in 1..Len(X) :
           /\ X[i].op \notin {"micro", "await", "task", "detach"}
           /\ X[i].op \in {"error", "kill"} => ~Queued(X[i].who)
           /\ X[i].op = "deliver" => X[i].by # None
    BY <1>5, <1>7, <1>9
  <1>11. op \notin {"await", "micro", "leave"}
    OBVIOUS
  <1> QED BY <1>1, <1>3, <1>8, <1>9, <1>10, <1>11, PlainTurns

\* A fiber that dies is in no queue.
LEMMA KillTurns ==
  ASSUME SchedulingInv, AnswersInv, TurnsInv, Kill
  PROVE  TurnsInv'
  <1> USE DEF fiberVars, promiseVars, schedVars, sweepVars, loopVars
  <1>1. /\ TypeOK /\ agenda # <<>> /\ Top \in CallSet /\ Top.op = "kill" /\ TurnOK(Top)
        /\ Rest \in Seq(CallSet) /\ Entries = {Top} \cup Behind
        /\ \A c \in Behind : c.op # "await" /\ TurnOK(c) /\ c \in CallSet
    BY TopTurn DEF Kill
  <1>2. PICK f \in Fibers : f = Top.who
    BY <1>1 DEF CallSet, FiberOps
  <1>3. /\ fstate' = [fstate EXCEPT ![f] = "Dead"] /\ ~Queued(f)
        /\ UNCHANGED <<waiting, runq, microq, cur>>
    BY <1>1, <1>2 DEF Kill, TurnOK
  <1>4. PICK a, b : a = Call("settle", f, None, Top.res) /\ b = Do("bury", f)
    OBVIOUS
  <1>5. a.op = "settle" /\ a \in CallSet /\ b.op = "bury" /\ b \in CallSet
    BY <1>1, <1>4 DEF Do, Call, CallSet, CallOps, FiberOps, Results, Objs
  <1>6. PICK X : X = <<a, b>>
    OBVIOUS
  <1>7. X \in Seq(CallSet) /\ \A i \in 1..Len(X) : X[i] \in {a, b}
    BY <1>5, <1>6
  <1>8. agenda' = X \o Rest
    BY <1>2, <1>4, <1>6 DEF Kill
  <1>9. /\ \A g : Queued(g)' <=> Queued(g)
        /\ \A g : Blocked(g)' <=> Blocked(g)
    BY <1>3 DEF Queued, Blocked
  <1>10. ~(cur # None /\ Blocked(cur))
    BY <1>1 DEF TurnOK
  <1>11. \A i \in 1..Len(X) : TurnOK(X[i])' /\ X[i].op # "micro"
    BY <1>3, <1>5, <1>7, <1>9, <1>10 DEF TurnOK
  <1>12. \A g \in Fibers : Queued(g) => fstate'[g] = "Running"
    BY <1>1, <1>3 DEF TurnsInv, QueueInv, TypeOK
  <1>13. ASSUME NEW c \in Behind
         PROVE  /\ c.op # "await"
                /\ c.op = "task" => fstate'[c.who] # "Suspended"
                /\ c.op # "detach"
    <2>1. \A c1 \in Entries : c1.op # "detach"
      <3>1. ASSUME NEW i \in DOMAIN agenda, agenda[i].op = "detach" PROVE FALSE
        <4>1. Calm
          BY <3>1 DEF SchedulingInv, YieldIsCalm
        <4>2. Top = agenda[1] /\ 1 \in DOMAIN agenda
          BY TopFacts DEF Kill
        <4> QED BY <1>1, <4>1, <4>2 DEF Calm, CalmOps, Control
      <3> QED BY <3>1 DEF Entries, ToSet
    <2>2. c.op = "task" => c.who \in Fibers /\ fstate[c.who] # "Suspended"
      BY <1>1 DEF TurnOK, CallSet, FiberOps
    <2> QED BY <1>1, <1>3, <2>1, <2>2 DEF TypeOK
  <1> QED BY <1>1, <1>3, <1>7, <1>8, <1>9, <1>11, <1>12, <1>13, CascadeTurns

\* A sequence without repetitions has none after an element it lacks is appended.
LEMMA OnceAppended ==
  ASSUME NEW S, NEW q \in Seq(S), NEW f \in S, f \notin ToSet(q),
         \A i, j \in DOMAIN q : q[i] = q[j] => i = j
  PROVE  /\ \A i, j \in DOMAIN Append(q, f) : Append(q, f)[i] = Append(q, f)[j] => i = j
         /\ ToSet(Append(q, f)) = ToSet(q) \cup {f}
  <1>0. PICK r : r = Append(q, f)
    OBVIOUS
  <1>1. /\ Len(r) = Len(q) + 1 /\ r \in Seq(S) /\ Len(q) \in Nat
        /\ \A i \in 1..Len(q) : r[i] = q[i]
        /\ r[Len(q) + 1] = f
    BY <1>0, AppendProperties
  <1>2. DOMAIN r = 1..Len(q) + 1 /\ DOMAIN q = 1..Len(q)
    BY <1>1
  <1>3. \A i \in 1..Len(q) : q[i] # f
    BY <1>2 DEF ToSet
  <1>4. \A k \in 1..Len(q) + 1 : k \in 1..Len(q) \/ k = Len(q) + 1
    OBVIOUS
  <1>5. ASSUME NEW i \in 1..Len(q) + 1, NEW j \in 1..Len(q) + 1, r[i] = r[j]
        PROVE  i = j
    <2>1. CASE i \in 1..Len(q) /\ j \in 1..Len(q)
      BY <1>1, <1>2, <1>5, <2>1
    <2>2. CASE i = Len(q) + 1 \/ j = Len(q) + 1
      BY <1>1, <1>3, <1>4, <1>5, <2>2
    <2> QED BY <1>4, <2>1, <2>2
  <1>6. \A i, j \in DOMAIN r : r[i] = r[j] => i = j
    BY <1>2, <1>5
  <1> QED BY <1>0, <1>6, AppendSet

\* A sequence without repeats has none once its head is taken, and that one is gone.
LEMMA HeadOnce ==
  ASSUME NEW S, NEW q \in Seq(S), q # <<>>,
         \A i, j \in DOMAIN q : q[i] = q[j] => i = j,
         NEW r, NEW f, r = Tail(q), f = Head(q)
  PROVE  /\ \A i, j \in DOMAIN r : r[i] = r[j] => i = j
         /\ ToSet(r) \subseteq ToSet(q) /\ f \in ToSet(q) /\ f \notin ToSet(r)
  <1>1. Len(q) \in Nat \ {0} /\ DOMAIN q = 1..Len(q)
    BY EmptySeq
  <1>2. /\ DOMAIN r = 1..Len(q) - 1
        /\ \A i \in 1..Len(q) - 1 : r[i] = q[i + 1]
    <2>1. /\ Tail(q) \in Seq(S) /\ Len(Tail(q)) = Len(q) - 1
          /\ \A i \in 1..Len(Tail(q)) : Tail(q)[i] = q[i + 1]
      BY HeadTailProperties
    <2> QED BY <2>1, LenProperties
  <1>3. \A i \in 1..Len(q) - 1 : i + 1 \in 1..Len(q) /\ i + 1 # 1
    BY <1>1
  <1>4. f = q[1] /\ 1 \in 1..Len(q)
    BY <1>1
  <1>5. \A i, j \in 1..Len(q) - 1 : r[i] = r[j] => i + 1 = j + 1
    BY <1>1, <1>2, <1>3
  <1>6. \A i, j \in 1..Len(q) - 1 : i + 1 = j + 1 => i = j
    OBVIOUS
  <1>7. \A i \in 1..Len(q) - 1 : r[i] # f
    BY <1>1, <1>2, <1>3, <1>4
  <1>8. \A i \in 1..Len(q) - 1 : r[i] \in ToSet(q)
    BY <1>1, <1>2, <1>3 DEF ToSet
  <1> QED BY <1>1, <1>2, <1>4, <1>5, <1>6, <1>7, <1>8 DEF ToSet

\* The same, when its last element is taken.
LEMMA LastOnce ==
  ASSUME NEW S, NEW q \in Seq(S), q # <<>>,
         \A i, j \in DOMAIN q : q[i] = q[j] => i = j,
         NEW r, NEW f, r = Front(q), f = Last(q)
  PROVE  /\ \A i, j \in DOMAIN r : r[i] = r[j] => i = j
         /\ ToSet(r) \subseteq ToSet(q) /\ f \in ToSet(q) /\ f \notin ToSet(r)
  <1>1. Len(q) \in Nat \ {0} /\ DOMAIN q = 1..Len(q)
    BY EmptySeq
  <1>2. Front(q) \in Seq(S) /\ Len(Front(q)) = Len(q) - 1
    BY <1>1, FrontType DEF Front
  <1>3. \A i \in 1..Len(q) - 1 : Front(q)[i] = q[i]
    <2>1. \A i \in 1..Len(q) - 1 : q[i] \in S
      BY <1>1
    <2>2. \A i \in 1..(Len(q) - 1) - 1 + 1 : SubSeq(q, 1, Len(q) - 1)[i] = q[1 + i - 1]
      BY <1>1, <2>1, SubSeqProperties
    <2> QED BY <1>1, <2>2 DEF Front
  <1>4. /\ DOMAIN r = 1..Len(q) - 1
        /\ \A i \in 1..Len(q) - 1 : r[i] = q[i]
    BY <1>2, <1>3, LenProperties
  <1>5. \A i \in 1..Len(q) - 1 : i \in 1..Len(q) /\ i # Len(q)
    <2>1. \A n \in Nat : \A i \in 1..n - 1 : i \in 1..n /\ i # n
      OBVIOUS
    <2> QED BY <1>1, <2>1
  <1>6. f = q[Len(q)] /\ Len(q) \in 1..Len(q)
    BY <1>1 DEF Last
  <1>7. \A i \in 1..Len(q) - 1 : r[i] # f
    BY <1>1, <1>4, <1>5, <1>6
  <1>8. \A i \in 1..Len(q) - 1 : r[i] \in ToSet(q)
    BY <1>1, <1>4, <1>5 DEF ToSet
  <1>9. \A i, j \in 1..Len(q) - 1 : r[i] = r[j] => i = j
    BY <1>1, <1>4, <1>5
  <1> QED BY <1>1, <1>4, <1>6, <1>7, <1>8, <1>9 DEF ToSet

\* A fiber in neither queue is put in one of them.
LEMMA EnqueueInv ==
  ASSUME TypeOK, QueueInv, NEW f \in Fibers, ~Queued(f),
         \/ runq' = Append(runq, f) /\ microq' = microq
         \/ microq' = Append(microq, f) /\ runq' = runq,
         fstate'[f] = "Running", f # cur',
         \A g \in Fibers : Queued(g) => fstate'[g] = "Running" /\ g # cur'
  PROVE  QueueInv' /\ \A g : Queued(g)' <=> Queued(g) \/ g = f
  <1>1. /\ runq \in Seq(Fibers) /\ microq \in Seq(Fibers)
        /\ f \notin ToSet(runq) /\ f \notin ToSet(microq)
    BY DEF TypeOK, Queued
  <1>2. CASE runq' = Append(runq, f) /\ microq' = microq
    <2>1. /\ \A i, j \in DOMAIN runq' : runq'[i] = runq'[j] => i = j
          /\ ToSet(runq') = ToSet(runq) \cup {f}
      <3>1. \A i, j \in DOMAIN runq : runq[i] = runq[j] => i = j
        BY DEF QueueInv
      <3>2. /\ \A i, j \in DOMAIN Append(runq, f) : Append(runq, f)[i] = Append(runq, f)[j] => i = j
            /\ ToSet(Append(runq, f)) = ToSet(runq) \cup {f}
        BY <1>1, <3>1, OnceAppended
      <3> QED BY <1>2, <3>2, Zenon
    <2>2. \A g : Queued(g)' <=> Queued(g) \/ g = f
      BY <1>2, <2>1 DEF Queued
    <2> QED BY <1>1, <1>2, <2>1, <2>2 DEF QueueInv
  <1>3. CASE microq' = Append(microq, f) /\ runq' = runq
    <2>1. /\ \A i, j \in DOMAIN microq' : microq'[i] = microq'[j] => i = j
          /\ ToSet(microq') = ToSet(microq) \cup {f}
      <3>1. \A i, j \in DOMAIN microq : microq[i] = microq[j] => i = j
        BY DEF QueueInv
      <3>2. /\ \A i, j \in DOMAIN Append(microq, f) : Append(microq, f)[i] = Append(microq, f)[j] => i = j
            /\ ToSet(Append(microq, f)) = ToSet(microq) \cup {f}
        BY <1>1, <3>1, OnceAppended
      <3> QED BY <1>3, <3>2, Zenon
    <2>2. \A g : Queued(g)' <=> Queued(g) \/ g = f
      BY <1>3, <2>1 DEF Queued
    <2> QED BY <1>1, <1>3, <2>1, <2>2 DEF QueueInv
  <1> QED BY <1>2, <1>3

\* The calls behind the head once the head has returned.
LEMMA BehindRemains ==
  ASSUME SchedulingInv, TurnsInv, agenda # <<>>, agenda' = Rest
  PROVE  Entries' = Behind /\ QueuedOnce'
  <1>1. TypeOK /\ agenda \in Seq(CallSet) /\ Len(agenda) \in Nat \ {0}
    BY EmptySeq DEF SchedulingInv, TypeOK
  <1>2. /\ DOMAIN agenda' = 1..Len(agenda) - 1
        /\ \A i \in 1..Len(agenda) - 1 : agenda'[i] = agenda[i + 1]
    <2>1. /\ Tail(agenda) \in Seq(CallSet) /\ Len(Tail(agenda)) = Len(agenda) - 1
          /\ \A i \in 1..Len(Tail(agenda)) : Tail(agenda)[i] = agenda[i + 1]
      BY <1>1, HeadTailProperties
    <2> QED BY <2>1, LenProperties DEF Rest
  <1>3. \A i \in 1..Len(agenda) - 1 : i + 1 \in 2..Len(agenda) /\ i + 1 \in DOMAIN agenda
    BY <1>1
  <1>4. \A k \in 2..Len(agenda) : k - 1 \in 1..Len(agenda) - 1 /\ agenda'[k - 1] = agenda[k]
    BY <1>1, <1>2
  <1>5. Entries' = Behind
    <2>1. Entries' = {agenda'[i] : i \in 1..Len(agenda) - 1}
      BY <1>2 DEF Entries, ToSet
    <2>2. \A i \in 1..Len(agenda) - 1 : agenda'[i] \in Behind
      BY <1>2, <1>3 DEF Behind
    <2>3. \A k \in 2..Len(agenda) : agenda[k] \in Entries'
      BY <1>4, <2>1
    <2> QED BY <2>1, <2>2, <2>3 DEF Behind
  <1>6. \A i, j \in 1..Len(agenda) - 1 :
          /\ agenda'[i].op = "micro" /\ agenda'[j].op = "micro" /\ agenda'[i].who = agenda'[j].who
          => i + 1 = j + 1
    BY <1>2, <1>3 DEF TurnsInv, QueuedOnce
  <1>7. \A i, j \in 1..Len(agenda) - 1 : i + 1 = j + 1 => i = j
    OBVIOUS
  <1> QED BY <1>2, <1>5, <1>6, <1>7 DEF QueuedOnce

\* A fiber is put among the microtasks.
LEMMA MicroTaskTurns ==
  ASSUME SchedulingInv, AnswersInv, TurnsInv, MicroTask
  PROVE  TurnsInv'
  <1> USE DEF fiberVars, promiseVars, schedVars, sweepVars, loopVars
  <1>1. /\ TypeOK /\ agenda # <<>> /\ Top \in CallSet /\ Top.op = "micro" /\ TurnOK(Top)
        /\ Rest \in Seq(CallSet) /\ <<>> \o Rest = Rest /\ <<>> \in Seq(CallSet)
        /\ \A c \in Behind : c.op # "await" /\ TurnOK(c) /\ c \in CallSet
        /\ \A c \in Behind : c.op = "micro" => c.who # Top.who
        /\ \A c \in Behind : c.op \notin {"error", "kill"}
    BY TopTurn DEF MicroTask
  <1>2. PICK f \in Fibers : f = Top.who
    BY <1>1 DEF CallSet, FiberOps
  <1>3. /\ UNCHANGED <<waiting, runq, cur>> /\ agenda' = Rest /\ ~Queued(f) /\ f # cur
        /\ TypeOK /\ QueueInv
    BY <1>1, <1>2 DEF MicroTask, TurnOK, TurnsInv
  <1>4. CASE fstate[f] = "Dead"
    <2>1. UNCHANGED <<fstate, microq>>
      BY <1>2, <1>4 DEF MicroTask
    <2>2. PICK X : X = <<>>
      OBVIOUS
    <2>3. X \in Seq(CallSet) /\ agenda' = X \o Rest /\ \A i \in 1..Len(X) : FALSE
      BY <1>1, <1>3, <2>2
    <2>4. Running("micro")
      BY DEF MicroTask
    <2> QED BY <1>3, <2>1, <2>2, <2>3, <2>4, PlainTurns
  <1>5. CASE fstate[f] # "Dead"
    <2>1. fstate' = [fstate EXCEPT ![f] = "Running"] /\ microq' = Append(microq, f)
      BY <1>2, <1>5 DEF MicroTask
    <2>2. \A g \in Fibers : fstate'[g] = IF g = f THEN "Running" ELSE fstate[g]
      BY <1>1, <2>1 DEF TypeOK
    <2>3. \A g \in Fibers : Queued(g) => fstate'[g] = "Running" /\ g # cur'
      BY <1>3, <2>2 DEF QueueInv
    <2>4. QueueInv' /\ \A g : Queued(g)' <=> Queued(g) \/ g = f
      BY <1>3, <2>1, <2>2, <2>3, EnqueueInv
    <2>5. Entries' = Behind /\ QueuedOnce'
      BY <1>1, <1>3, BehindRemains
    <2>6. ASSUME NEW c \in Behind PROVE TurnOK(c)'
      <3>1. c.op # "await" /\ TurnOK(c) /\ c.op \notin {"error", "kill"}
        BY <1>1
      <3>2. c.op = "micro" => c.who # f
        BY <1>1, <1>2
      <3>3. c.op \in {"task", "detach"} => c.who \in Fibers
        BY <1>1 DEF CallSet, FiberOps
      <3>4. Blocked(cur)' <=> Blocked(cur)
        BY <1>3 DEF Blocked
      <3> QED BY <1>3, <2>2, <2>4, <3>1, <3>2, <3>3, <3>4 DEF TurnOK
    <2> QED BY <2>4, <2>5, <2>6 DEF TurnsInv
  <1> QED BY <1>4, <1>5

\* What an awaited fiber's waker finds is never suspended.
LEMMA ResumeAwaitedTurns ==
  ASSUME SchedulingInv, AnswersInv, TurnsInv, ResumeAwaited
  PROVE  TurnsInv'
  <1> USE DEF fiberVars, promiseVars, schedVars, sweepVars, loopVars
  <1>1. /\ TurnOK(Top) /\ Top.op = "task" /\ <<>> \o Rest = Rest /\ <<>> \in Seq(CallSet)
        /\ Running("task")
    BY TopTurn DEF ResumeAwaited
  <1>2. UNCHANGED <<fstate, waiting, runq, microq, cur>> /\ agenda' = Rest
    BY <1>1 DEF ResumeAwaited, TurnOK
  <1>3. PICK X : X = <<>>
    OBVIOUS
  <1>4. X \in Seq(CallSet) /\ agenda' = X \o Rest /\ \A i \in 1..Len(X) : FALSE
    BY <1>1, <1>2, <1>3
  <1> QED BY <1>1, <1>2, <1>3, <1>4, PlainTurns

\* A detached fiber is the executed one, and only its return follows.
LEMMA DetachTurns ==
  ASSUME SchedulingInv, AnswersInv, TurnsInv, Detach
  PROVE  TurnsInv'
  <1> USE DEF fiberVars, promiseVars, schedVars, sweepVars, loopVars
  <1>1. /\ TypeOK /\ agenda # <<>> /\ Top \in CallSet /\ Top.op = "detach"
        /\ Rest \in Seq(CallSet) /\ <<>> \o Rest = Rest /\ <<>> \in Seq(CallSet)
        /\ \A c \in Behind : c.op # "await" /\ TurnOK(c) /\ c \in CallSet
        /\ PlaceOK(1) /\ Top = agenda[1] /\ 1 \in DOMAIN agenda
    BY TopTurn, TopFacts DEF Detach
  <1>2. agenda \in Seq(CallSet) /\ Len(agenda) \in Nat /\ DOMAIN agenda = 1..Len(agenda)
    BY <1>1 DEF TypeOK
  <1>3. PICK f \in Fibers : f = Top.who
    BY <1>1 DEF CallSet, FiberOps
  <1>4. f = cur
    BY <1>1, <1>3 DEF SchedulingInv, YieldIsCalm
  <1>5. /\ fstate' = [fstate EXCEPT ![f] = "Suspended"]
        /\ UNCHANGED <<waiting, runq, microq, cur>> /\ agenda' = Rest
    BY <1>3 DEF Detach
  <1>6. Len(agenda) = 2
    BY <1>1, <1>2 DEF PlaceOK
  <1>7. \A c \in Behind : c.op \in Control
    <2>1. agenda[2] \in {Do("tail", cur), Do("leave", cur)}
      <3>1. phase = "exec"
        BY <1>1 DEF SchedulingInv, AgendaShape, TypeOK
      <3> QED BY <1>1, <1>6, <3>1 DEF SchedulingInv, AgendaShape
    <2>2. agenda[2].op \in Control
      BY <2>1 DEF Do, Call, Control
    <2>3. \A k \in 2..2 : k = 2
      OBVIOUS
    <2> QED BY <1>6, <2>2, <2>3 DEF Behind
  <1>8. \A g \in Fibers : Queued(g) => fstate'[g] = "Running"
    BY <1>1, <1>4, <1>5 DEF TurnsInv, QueueInv, TypeOK
  <1>9. cur # None /\ Blocked(cur)' => Blocked(cur)
    BY <1>5 DEF Blocked
  <1>10. PICK X : X = <<>>
    OBVIOUS
  <1>11. X \in Seq(CallSet) /\ agenda' = X \o Rest /\ \A i \in 1..Len(X) : FALSE
    BY <1>1, <1>5, <1>10
  <1> QED BY <1>1, <1>5, <1>7, <1>8, <1>9, <1>11, CascadeTurns DEF Control

\* A blocked fiber that gets its answer is queued once: it was suspended, and
\* nobody else is about to queue it.
LEMMA DeliverToFiberTurns ==
  ASSUME SchedulingInv, AnswersInv, TurnsInv, DeliverToFiber
  PROVE  TurnsInv'
  <1> USE DEF fiberVars, promiseVars, schedVars, sweepVars, loopVars
  <1>1. /\ TypeOK /\ agenda # <<>> /\ Top.op = "deliver" /\ Top \in CallSet
        /\ CallOK(Top) /\ TurnOK(Top) /\ Rest \in Seq(CallSet)
        /\ \A c \in Behind : c.op # "await" /\ TurnOK(c) /\ CallOK(c) /\ c \in CallSet
    BY TopTurn DEF DeliverToFiber
  <1>2. PICK f \in Fibers, o \in Objs : f = Top.who /\ o = Top.by
    BY <1>1 DEF DeliverToFiber, CallSet, TurnOK
  <1>3. UNCHANGED <<fstate, runq, microq, cur>> /\ waiting' = [waiting EXCEPT ![f] = None]
    BY <1>2 DEF DeliverToFiber
  <1>4. Blocked(f) /\ fstate[f] = "Suspended" /\ HasResult(o) /\ o # None
    BY <1>1, <1>2, ObjsAssumption DEF CallOK, AnswersInv, BlockedInv, Blocked
  <1>5. ~Queued(f)
    BY <1>4 DEF TurnsInv, QueueInv
  <1>6. f # cur /\ ~(cur # None /\ Blocked(cur))
    <2>1. ~(cur # None /\ Blocked(cur))
      BY <1>1 DEF TurnOK
    <2>2. f # None
      BY ObjsAssumption DEF Objs
    <2> QED BY <1>4, <2>1, <2>2
  <1>7. cur # None /\ Blocked(cur)' => Blocked(cur)
    BY <1>1, <1>3 DEF Blocked, TypeOK
  <1>8. o \in Fibers => fstate[o] # "Suspended"
    <2>1. ASSUME o \in Fibers, fstate[o] # "Dead" PROVE fstate[o] = "Running"
      <3>1. PICK d : d = Do("detach", o)
        OBVIOUS
      <3>2. d \in Entries /\ d.op = "detach" /\ d.who = o
        BY <1>4, <2>1, <3>1 DEF AnswersInv, BlockedInv, Do, Call
      <3> QED BY <3>2 DEF TurnsInv, TurnOK
    <2> QED BY <2>1
  <1>9. PICK a, b, c : a = Do("error", f) /\ b = Do("micro", f) /\ c = Do("task", o)
    OBVIOUS
  <1>10. /\ a.op = "error" /\ a.who = f /\ b.op = "micro" /\ b.who = f /\ c.op = "task" /\ c.who = o
         /\ a \in CallSet /\ b \in CallSet /\ (o \in Fibers => c \in CallSet)
    BY <1>9, DoType DEF Do, Call, FiberOps
  <1>11. PICK A, B : /\ A = IF Top.res = "err" THEN <<a>> ELSE <<>>
                     /\ B = IF o \in Fibers THEN <<c>> ELSE <<>>
    OBVIOUS
  <1>12. PICK X : X = A \o <<b>> \o B
    OBVIOUS
  <1>13. agenda' = X \o Rest
    BY <1>2, <1>9, <1>11, <1>12 DEF DeliverToFiber
  <1>14. /\ X \in Seq(CallSet)
         /\ \A i \in 1..Len(X) : X[i] = a \/ X[i] = b \/ (X[i] = c /\ o \in Fibers)
         /\ \A i, j \in 1..Len(X) : X[i] = b /\ X[j] = b => i = j
    <2>1. CASE A = <<>> /\ B = <<>>
      <3>1. X = <<b>>
        BY <1>10, <1>12, <2>1
      <3>2. Len(<<b>>) = 1 /\ <<b>>[1] = b /\ \A i \in 1..1 : i = 1
        OBVIOUS
      <3> QED BY <1>10, <3>1, <3>2
    <2>2. CASE A = <<a>> /\ B = <<>>
      <3>1. X = <<a, b>>
        <4>1. X = <<a, b>> \o <<>>
          BY <1>12, <2>2, JoinOne
        <4> QED BY <1>10, <4>1
      <3>2. Len(<<a, b>>) = 2 /\ <<a, b>>[1] = a /\ <<a, b>>[2] = b /\ \A i \in 1..2 : i = 1 \/ i = 2
        OBVIOUS
      <3> QED BY <1>10, <3>1, <3>2
    <2>3. CASE A = <<>> /\ B = <<c>> /\ o \in Fibers
      <3>1. X = <<b, c>>
        <4>1. <<>> \o <<b>> = <<b>>
          BY <1>10
        <4> QED BY <1>12, <2>3, <4>1, JoinOne
      <3>2. Len(<<b, c>>) = 2 /\ <<b, c>>[1] = b /\ <<b, c>>[2] = c /\ \A i \in 1..2 : i = 1 \/ i = 2
        OBVIOUS
      <3> QED BY <1>10, <2>3, <3>1, <3>2
    <2>4. CASE A = <<a>> /\ B = <<c>> /\ o \in Fibers
      <3>1. X = <<a, b, c>>
        <4>1. <<a>> \o <<b>> = <<a, b>>
          BY JoinOne
        <4> QED BY <1>12, <2>4, <4>1, JoinTwo
      <3>2. /\ Len(<<a, b, c>>) = 3 /\ <<a, b, c>>[1] = a /\ <<a, b, c>>[2] = b
            /\ <<a, b, c>>[3] = c /\ \A i \in 1..3 : i = 1 \/ i = 2 \/ i = 3
        OBVIOUS
      <3> QED BY <1>10, <2>4, <3>1, <3>2
    <2> QED BY <1>11, <2>1, <2>2, <2>3, <2>4
  <1>15. /\ TurnOK(a)' /\ TurnOK(b)' /\ (o \in Fibers => TurnOK(c)')
    <2>1. ~Queued(f)' /\ f # cur' /\ ~(cur # None /\ Blocked(cur))'
      BY <1>3, <1>5, <1>6, <1>7 DEF Queued
    <2> QED BY <1>3, <1>8, <1>10, <2>1 DEF TurnOK
  <1>16. \A d \in Behind : ~(d.op = "micro" /\ d.who = f)
    BY <1>1, <1>4 DEF CallOK
  <1>17. ASSUME NEW i \in 1..Len(X)
         PROVE  /\ TurnOK(X[i])'
                /\ X[i].op = "micro" =>
                     /\ \A j \in 1..Len(X) : X[j].op = "micro" /\ X[j].who = X[i].who => i = j
                     /\ \A d \in Behind : ~(d.op = "micro" /\ d.who = X[i].who)
    <2>1. TurnOK(X[i])'
      BY <1>14, <1>15
    <2>2. \A j \in 1..Len(X) : X[j].op = "micro" => X[j] = b
      BY <1>10, <1>14
    <2> QED BY <1>10, <1>14, <1>16, <2>1, <2>2
  <1>18. \A g \in Fibers : Queued(g) => fstate'[g] = "Running"
    BY <1>3 DEF TurnsInv, QueueInv
  <1>19. \A d \in Behind :
           /\ d.op # "await"
           /\ d.op = "task" => fstate'[d.who] # "Suspended"
           /\ d.op = "detach" => fstate'[d.who] = "Running"
    BY <1>1, <1>3 DEF TurnOK
  <1> QED BY <1>1, <1>3, <1>7, <1>13, <1>14, <1>17, <1>18, <1>19, CascadeTurns

\* The return from ExecuteFiber queues the fiber at most once more.
LEMMA LeavingTurns ==
  ASSUME SchedulingInv, AnswersInv, TurnsInv, Leave \/ KillDead
  PROVE  TurnsInv'
  <1> USE DEF fiberVars, promiseVars, schedVars, sweepVars, loopVars
  <1>0. TypeOK /\ QueueInv /\ None \notin Fibers
    BY ObjsAssumption DEF SchedulingInv, TurnsInv, Objs
  <1>1. CASE KillDead
    <2>1. /\ agenda' = <<>> /\ UNCHANGED <<fstate, runq, microq>> /\ (cur' = cur \/ cur' = None)
      BY <1>1 DEF KillDead
    <2>2. QueueInv'
      BY <1>0, <2>1 DEF QueueInv, Queued
    <2> QED BY <2>1, <2>2, NoCallsTurns
  <1>2. CASE Leave
    <2>1. agenda # <<>> /\ Head(agenda).op = "leave"
      BY <1>2 DEF Leave, Running
    <2>2. /\ cur \in Fibers /\ Tail(agenda) = <<>>
          /\ Head(agenda) \in {Do("tail", cur), Do("leave", cur)}
      BY <2>1, ControlAlone DEF SchedulingInv, Control
    <2>3. PICK f \in Fibers : f = cur /\ f = Top.who
      BY <2>2 DEF Top, Do, Call
    <2>4. ~Queued(f)
      BY <1>0, <2>3 DEF QueueInv
    <2>5. agenda' = <<>> /\ UNCHANGED <<fstate, microq>> /\ cur' = None
      BY <1>2, <2>2 DEF Leave, Rest
    <2>6. \/ runq' = runq
          \/ fstate[f] = "Running" /\ runq' = Append(runq, f)
      BY <1>2, <2>3 DEF Leave
    <2>7. \A g \in Fibers : Queued(g) => fstate'[g] = "Running" /\ g # cur'
      BY <1>0, <2>5 DEF QueueInv
    <2>8. QueueInv'
      <3>1. CASE runq' = runq
        BY <1>0, <2>5, <2>7, <3>1 DEF QueueInv, Queued
      <3>2. CASE fstate[f] = "Running" /\ runq' = Append(runq, f)
        <4>1. fstate'[f] = "Running" /\ f # cur'
          BY <1>0, <2>5, <3>2
        <4> QED BY <1>0, <2>4, <2>5, <2>7, <3>2, <4>1, EnqueueInv
      <3> QED BY <2>6, <3>1, <3>2
    <2> QED BY <2>5, <2>8, NoCallsTurns
  <1> QED BY <1>1, <1>2

\* A new agenda of calls that queue nobody.
LEMMA FreshTurns ==
  ASSUME QueueInv', NEW X \in Seq(CallSet), agenda' = X,
         \A i \in 1..Len(X) : TurnOK(X[i])' /\ X[i].op # "micro"
  PROVE  TurnsInv'
  <1>1. DOMAIN agenda' = 1..Len(X) /\ \A i \in 1..Len(X) : agenda'[i] = X[i]
    OBVIOUS
  <1>2. \A c \in Entries' : TurnOK(c)'
    BY <1>1 DEF Entries, ToSet
  <1>3. QueuedOnce'
    BY <1>1 DEF QueuedOnce
  <1> QED BY <1>2, <1>3 DEF TurnsInv

\* A new agenda that ends a fiber in error or kills it.
LEMMA LastTurns ==
  ASSUME QueueInv', NEW f \in Fibers, NEW op \in {"error", "kill"}, NEW e \in Control,
         agenda' = <<Do(op, f), Do(e, f)>>, ~Queued(f)', ~Blocked(cur)'
  PROVE  TurnsInv'
  <1>1. PICK a, b : a = Do(op, f) /\ b = Do(e, f)
    OBVIOUS
  <1>2. /\ a.op = op /\ a.who = f /\ b.op = e
        /\ a \in CallSet /\ b \in CallSet
    BY <1>1, DoType DEF Do, Call, FiberOps, Control
  <1>3. PICK X : X = <<a, b>>
    OBVIOUS
  <1>4. X \in Seq(CallSet) /\ \A i \in 1..Len(X) : X[i] \in {a, b}
    BY <1>2, <1>3
  <1>5. TurnOK(a)' /\ TurnOK(b)' /\ a.op # "micro" /\ b.op # "micro"
    BY <1>2 DEF TurnOK, Control
  <1>6. \A i \in 1..Len(X) : TurnOK(X[i])' /\ X[i].op # "micro"
    BY <1>4, <1>5
  <1>7. agenda' = X
    BY <1>1, <1>3
  <1> QED BY <1>4, <1>6, <1>7, FreshTurns

\* What a first await of an idle object puts before the return of the awaiter.
LEMMA FirstAwaitTurns ==
  ASSUME TypeOK, QueueInv', UNCHANGED fut, cur' \in Fibers,
         NEW S \in SUBSET Objs, NEW x \in S,
         \A y \in S : Idle(y)' /\ y # cur',
         \A p \in S \cap Futures :
           pstat'[p] = "New" => \A i \in DOMAIN fut[p].of : fut[p].of[i] \in S,
         NEW first \in BOOLEAN,
         first /\ x \in Futures =>
           /\ \A i \in DOMAIN fut[x].of : fut[x].of[i] \in S
           /\ fut[x].of # <<>> => Len(fut[x].of) = 1,
         agenda' = (IF first THEN InitialAwait(x) ELSE <<>>)
                     \o (IF x \in Fibers THEN <<Do("micro", x)>> ELSE <<>>)
                     \o <<Do("leave", cur')>>
  PROVE  TurnsInv'
  <1>1. PICK k : k = cur'
    OBVIOUS
  <1>2. PICK e, m : e = Do("leave", k) /\ m = Do("micro", x)
    OBVIOUS
  <1>3. /\ e.op = "leave" /\ e \in CallSet /\ m.op = "micro" /\ m.who = x
        /\ x \in Fibers => m \in CallSet
    BY <1>1, <1>2, DoType DEF Do, Call, FiberOps
  <1>4. x \in Objs /\ Idle(x)' /\ x # cur'
    OBVIOUS
  <1>5. TurnOK(e)'
    BY <1>3 DEF TurnOK
  <1>6. ASSUME agenda' = <<e>> PROVE TurnsInv'
    <2>1. PICK X : X = <<e>>
      OBVIOUS
    <2>2. X \in Seq(CallSet) /\ \A i \in 1..Len(X) : X[i] = e
      BY <1>3, <2>1
    <2> QED BY <1>3, <1>5, <1>6, <2>1, <2>2, FreshTurns
  <1>7. ASSUME x \in Fibers PROVE TurnsInv'
    <2>1. InitialAwait(x) = <<>>
      BY <1>7, ObjsAssumption DEF InitialAwait
    <2>2. agenda' = <<m, e>>
      <3>1. <<>> \o <<m>> = <<m>>
        BY <1>3, <1>7
      <3>2. agenda' = <<>> \o <<m>> \o <<e>>
        BY <1>1, <1>2, <1>7, <2>1
      <3> QED BY <3>1, <3>2, JoinOne
    <2>3. fstate'[x] = "Suspended" /\ ~Queued(x)'
      BY <1>4, <1>7 DEF Idle, QueueInv
    <2>4. TurnOK(m)'
      BY <1>3, <1>4, <2>3 DEF TurnOK
    <2>5. PICK X : X = <<m, e>>
      OBVIOUS
    <2>6. /\ DOMAIN X = 1..2 /\ X[1] = m /\ X[2] = e
      BY <2>5
    <2>7. \A i \in 1..2 : i = 1 \/ i = 2
      OBVIOUS
    <2>8. Entries' = {m, e}
      <3>1. ToSet(X) = {m, e}
        BY <2>6, <2>7 DEF ToSet
      <3>2. agenda' = X
        BY <2>2, <2>5
      <3> QED BY <3>1, <3>2 DEF Entries
    <2>9. \A c \in Entries' : TurnOK(c)'
      BY <1>5, <2>4, <2>8
    <2>10. \A i \in DOMAIN agenda' : agenda'[i].op = "micro" => i = 1
      BY <1>3, <2>2, <2>5, <2>6, <2>7
    <2>11. QueuedOnce'
      BY <2>10 DEF QueuedOnce
    <2> QED BY <2>9, <2>11 DEF TurnsInv
  <1>8. ASSUME x \in Futures, x \notin Fibers, first, fut[x].of # <<>> PROVE TurnsInv'
    <2>1. fut[x].of \in Seq(Objs \cup {None}) /\ Len(fut[x].of) = 1
      BY <1>8 DEF TypeOK
    <2>2. PICK y : y = fut[x].of[1]
      OBVIOUS
    <2>3. y \in S
      BY <1>8, <2>1, <2>2
    <2>4. PICK a : a = Call("await", y, x, "val")
      OBVIOUS
    <2>5. a.op = "await" /\ a.who = y /\ a \in CallSet
      BY <1>4, <2>3, <2>4 DEF Call, CallSet, CallOps, FiberOps, Results
    <2>6. InitialAwait(x) = <<a>>
      <3>1. InitialAwait(x) = [i \in 1..1 |-> Call("await", fut[x].of[i], x, "val")]
        BY <1>8, <2>1 DEF InitialAwait
      <3>2. \A i \in 1..1 : i = 1
        OBVIOUS
      <3> QED BY <2>2, <2>4, <3>1, <3>2
    <2>7. agenda' = <<a, e>>
      <3>1. <<a>> \o <<>> = <<a>>
        BY <2>5
      <3>2. agenda' = <<a>> \o <<>> \o <<e>>
        BY <1>1, <1>2, <1>8, <2>6
      <3> QED BY <3>1, <3>2, JoinOne
    <2>8. Quiet(y)'
      BY <2>3 DEF Quiet
    <2>9. TurnOK(a)'
      BY <1>1, <1>2, <2>5, <2>7, <2>8 DEF TurnOK
    <2>10. PICK X : X = <<a, e>>
      OBVIOUS
    <2>11. X \in Seq(CallSet) /\ \A i \in 1..Len(X) : X[i] \in {a, e}
      BY <1>3, <2>5, <2>10
    <2>12. \A i \in 1..Len(X) : TurnOK(X[i])' /\ X[i].op # "micro"
      BY <1>3, <1>5, <2>5, <2>9, <2>11
    <2> QED BY <2>7, <2>10, <2>11, <2>12, FreshTurns
  <1>9. ASSUME x \in Futures, x \notin Fibers, ~first \/ fut[x].of = <<>> PROVE TurnsInv'
    <2>1. (IF first THEN InitialAwait(x) ELSE <<>>) = <<>>
      BY <1>9 DEF InitialAwait
    <2>2. agenda' = <<>> \o <<>> \o <<e>>
      BY <1>1, <1>2, <1>9, <2>1
    <2>3. <<>> \o <<>> \o <<e>> = <<e>>
      BY <1>3
    <2> QED BY <1>6, <2>2, <2>3
  <1> QED BY <1>4, <1>7, <1>8, <1>9, ObjsAssumption DEF Objs

\* An await on behalf of a future.
LEMMA AwaitCallTurns ==
  ASSUME SchedulingInv, AnswersInv, TurnsInv, RefsInv, AwaitCall
  PROVE  TurnsInv'
  <1> USE DEF fiberVars, promiseVars, schedVars, sweepVars, loopVars
  <1>1. /\ TypeOK /\ agenda # <<>> /\ Top.op = "await" /\ Top \in CallSet
        /\ TurnOK(Top) /\ Entries = {Top} \cup Behind
    BY TopTurn DEF AwaitCall
  <1>2. PICK c : c = Top
    OBVIOUS
  <1>3. agenda = <<c, Do("leave", cur)>> /\ Quiet(c.who)
    BY <1>1, <1>2 DEF TurnOK
  <1>4. PICK e : e = Do("leave", cur)
    OBVIOUS
  <1>5. Rest = <<e>>
    BY <1>3, <1>4 DEF Rest
  <1>6. PICK S \in SUBSET Objs :
          /\ c.who \in S
          /\ \A y \in S : Idle(y) /\ y # cur
          /\ \A p \in S \cap Futures :
               pstat[p] = "New" => \A i \in DOMAIN fut[p].of : fut[p].of[i] \in S
    BY <1>3 DEF Quiet
  <1>7. PICK x \in S : x = Top.who
    BY <1>2, <1>6
  <1>8. cur \in Fibers
    <2>1. agenda[2] = e /\ Len(agenda) = 2 /\ e.op = "leave" /\ 2 \in DOMAIN agenda
      BY <1>3, <1>4 DEF Do, Call
    <2>2. phase = "exec"
      BY <1>1, <2>1 DEF SchedulingInv, AgendaShape, TypeOK, Control
    <2> QED BY <1>1, <2>2 DEF SchedulingInv, AgendaShape, TypeOK
  <1>9. ~HasResult(x)
    <2>1. ASSUME x \in Fibers, HasResult(x) PROVE FALSE
      <3>1. fstate[x] = "Suspended"
        BY <1>6, <2>1 DEF Idle
      <3>2. PICK d : d = Do("detach", x)
        OBVIOUS
      <3>3. d \in Entries /\ d.op = "detach"
        BY <2>1, <3>1, <3>2 DEF AnswersInv, BlockedInv, Do, Call
      <3>4. \A k \in 2..2 : k = 2
        OBVIOUS
      <3>5. Entries = {c, e}
        BY <1>1, <1>2, <1>3, <1>4, <3>4 DEF Behind
      <3>6. c.op = "await" /\ e.op = "leave"
        BY <1>1, <1>2, <1>4 DEF Do, Call
      <3> QED BY <3>3, <3>5, <3>6
    <2> QED BY <1>6, <2>1 DEF Idle, Objs
  <1>10. PICK first \in BOOLEAN : first <=> pstat[x] = "New"
    OBVIOUS
  <1>11. /\ UNCHANGED <<fstate, waiting, fut, runq, microq, cur>>
         /\ pstat' = [pstat EXCEPT ![x] = "Pending"]
         /\ agenda' = (IF first THEN InitialAwait(x) ELSE <<>>)
                         \o (IF x \in Fibers THEN <<Do("micro", x)>> ELSE <<>>)
                         \o <<Do("leave", cur)>>
    <2>1. x # None
      BY ObjsAssumption
    <2> QED BY <1>4, <1>5, <1>7, <1>9, <1>10, <2>1 DEF AwaitCall, AwaitOn
  <1>12. \A y \in Objs : (HasResult(y)' => HasResult(y)) /\ (pstat'[y] = "New" => pstat[y] = "New")
    BY <1>1, <1>11 DEF HasResult, TypeOK
  <1>13. \A y \in S : Idle(y)' /\ y # cur'
    BY <1>6, <1>11, <1>12 DEF Idle
  <1>14. \A p \in S \cap Futures :
           pstat'[p] = "New" => \A i \in DOMAIN fut[p].of : fut[p].of[i] \in S
    BY <1>6, <1>12
  <1>15. first /\ x \in Futures =>
           /\ \A i \in DOMAIN fut[x].of : fut[x].of[i] \in S
           /\ fut[x].of # <<>> => Len(fut[x].of) = 1
    BY <1>6, <1>10 DEF RefsInv
  <1>16. QueueInv'
    BY <1>11 DEF TurnsInv, QueueInv, Queued
  <1>17. cur' \in Fibers /\ UNCHANGED fut
    BY <1>8, <1>11
  <1>18. agenda' = (IF first THEN InitialAwait(x) ELSE <<>>)
                         \o (IF x \in Fibers THEN <<Do("micro", x)>> ELSE <<>>)
                         \o <<Do("leave", cur')>>
    BY <1>11
  <1> HIDE DEF fiberVars, promiseVars, schedVars, sweepVars, loopVars
  <1> QED BY <1>1, <1>13, <1>14, <1>15, <1>16, <1>17, <1>18, FirstAwaitTurns

\* Every call in progress.
LEMMA CallsTurns ==
  ASSUME SchedulingInv, AnswersInv, TurnsInv, RefsInv, Calls
  PROVE  TurnsInv'
  BY AwaitCallTurns, DeliverToFiberTurns, SettlingTurns, MicroTaskTurns, ResumeAwaitedTurns,
     DyingTurns, KillTurns, LeavingTurns, DetachTurns DEF Calls

\* A turn of the loop takes a fiber from its queue before it is executed.
LEMMA LoopTurns ==
  ASSUME SchedulingInv, AnswersInv, TurnsInv, Loop
  PROVE  TurnsInv'
  <1> USE DEF fiberVars, promiseVars, schedVars, sweepVars, loopVars
  <1>1. TypeOK /\ QueueInv /\ agenda = <<>>
    BY DEF SchedulingInv, AgendaShape, Loop, FireTimer, NextTask, SweepKeep, SweepErase,
           SweepThrow, SweepDone, TurnsInv
  <1>2. /\ UNCHANGED <<fstate, waiting>>
        /\ runq \in Seq(Fibers) /\ microq \in Seq(Fibers)
        /\ \A i, j \in DOMAIN runq : runq[i] = runq[j] => i = j
        /\ \A i, j \in DOMAIN microq : microq[i] = microq[j] => i = j
        /\ ToSet(runq) \cap ToSet(microq) = {}
    BY <1>1 DEF Loop, FireTimer, NextTask, SweepKeep, SweepErase, SweepThrow, SweepDone,
           TypeOK, QueueInv
  <1>3. CASE FireTimer
    <2>1. PICK p \in Futures : p = Head(timers)
      BY <1>1, <1>3 DEF FireTimer, TypeOK
    <2>2. PICK c : c = Call("settle", p, None, IF fut[p].kind = "sleep" THEN "val" ELSE "err")
      OBVIOUS
    <2>3. c.op = "settle" /\ c \in CallSet
      BY <2>1, <2>2 DEF Call, CallSet, CallOps, FiberOps, Results, Objs
    <2>4. PICK X : X = <<c>>
      OBVIOUS
    <2>5. X \in Seq(CallSet) /\ \A i \in 1..Len(X) : X[i] = c
      BY <2>3, <2>4
    <2>6. agenda' = X /\ UNCHANGED <<runq, microq, cur>>
      BY <1>3, <2>1, <2>2, <2>4 DEF FireTimer
    <2>7. QueueInv'
      BY <1>1, <1>2, <2>6 DEF QueueInv, Queued
    <2>8. cur' = None
      BY <1>3, <2>6 DEF FireTimer, SchedulingInv, AgendaShape
    <2>9. TurnOK(c)'
      BY <2>3, <2>8 DEF TurnOK
    <2> QED BY <2>3, <2>5, <2>6, <2>7, <2>9, FreshTurns
  <1>4. CASE NextTask
    <2>1. ASSUME NEW f \in Fibers, RunOrSkip(f), ~Queued(f)', ToSet(runq') \cap ToSet(microq') = {},
                 \A g \in Fibers : Queued(g)' => Queued(g),
                 \A i, j \in DOMAIN runq' : runq'[i] = runq'[j] => i = j,
                 \A i, j \in DOMAIN microq' : microq'[i] = microq'[j] => i = j
          PROVE  TurnsInv'
      <3>1. CASE fstate[f] = "Running"
        <4>1. cur' = f /\ (agenda' = <<>> \/ agenda' = <<Do("kill", f), Do("leave", f)>>)
          BY <2>1, <3>1 DEF RunOrSkip, Execute
        <4>2. QueueInv'
          BY <1>1, <1>2, <2>1, <4>1 DEF QueueInv
        <4>3. ~Blocked(cur)'
          BY <1>2, <3>1, <4>1, RunnableIsFree DEF Blocked
        <4>4. CASE agenda' = <<>>
          BY <4>2, <4>4, NoCallsTurns
        <4>5. CASE agenda' = <<Do("kill", f), Do("leave", f)>>
          BY <2>1, <4>2, <4>3, <4>5, LastTurns DEF Control
        <4> QED BY <4>1, <4>4, <4>5
      <3>2. CASE fstate[f] # "Running"
        <4>1. cur' = cur /\ agenda' = <<>>
          BY <1>1, <2>1, <3>2 DEF RunOrSkip, Skip
        <4>2. QueueInv'
          BY <1>1, <1>2, <2>1, <4>1 DEF QueueInv
        <4> QED BY <4>1, <4>2, NoCallsTurns
      <3> QED BY <3>1, <3>2
    <2>2. CASE microq # <<>> /\ microq' = Front(microq) /\ RunOrSkip(Last(microq)) /\ UNCHANGED runq
      <3>1. PICK r, f : r = Front(microq) /\ f = Last(microq)
        OBVIOUS
      <3>2. /\ \A i, j \in DOMAIN r : r[i] = r[j] => i = j
            /\ ToSet(r) \subseteq ToSet(microq) /\ f \in ToSet(microq) /\ f \notin ToSet(r)
        <4>1. microq \in Seq(Fibers) /\ microq # <<>> /\ \A i, j \in DOMAIN microq : microq[i] = microq[j] => i = j
          BY <1>2, <2>2
        <4> QED BY <3>1, <4>1, LastOnce
      <3>3. f \in Fibers
        BY <1>2, <3>2 DEF ToSet
      <3>4. runq' = runq /\ microq' = r /\ RunOrSkip(f)
        BY <2>2, <3>1
      <3>5. ~Queued(f)' /\ \A g \in Fibers : Queued(g)' => Queued(g)
        BY <1>2, <3>2, <3>4 DEF Queued
      <3> QED BY <1>2, <2>1, <3>2, <3>3, <3>4, <3>5
    <2>3. CASE runq # <<>> /\ runq' = Tail(runq) /\ RunOrSkip(Head(runq)) /\ UNCHANGED microq
      <3>1. PICK r, f : r = Tail(runq) /\ f = Head(runq)
        OBVIOUS
      <3>2. /\ \A i, j \in DOMAIN r : r[i] = r[j] => i = j
            /\ ToSet(r) \subseteq ToSet(runq) /\ f \in ToSet(runq) /\ f \notin ToSet(r)
        <4>1. runq \in Seq(Fibers) /\ runq # <<>> /\ \A i, j \in DOMAIN runq : runq[i] = runq[j] => i = j
          BY <1>2, <2>3
        <4> QED BY <3>1, <4>1, HeadOnce
      <3>3. f \in Fibers
        BY <1>2, <3>2 DEF ToSet
      <3>4. runq' = r /\ microq' = microq /\ RunOrSkip(f)
        BY <2>3, <3>1
      <3>5. ~Queued(f)' /\ \A g \in Fibers : Queued(g)' => Queued(g)
        BY <1>2, <3>2, <3>4 DEF Queued
      <3> QED BY <1>2, <2>1, <3>2, <3>3, <3>4, <3>5
    <2>4. CASE Skip /\ UNCHANGED <<runq, microq>>
      <3>1. agenda' = <<>> /\ cur' = cur
        BY <1>1, <2>4 DEF Skip
      <3>2. QueueInv'
        BY <1>1, <1>2, <2>4, <3>1 DEF QueueInv, Queued
      <3> QED BY <3>1, <3>2, NoCallsTurns
    <2> QED BY <1>4, <2>2, <2>3, <2>4 DEF NextTask
  <1>5. CASE SweepKeep \/ SweepErase \/ SweepThrow \/ SweepDone
    <2>1. UNCHANGED <<runq, microq, cur>> /\ agenda' = <<>>
      BY <1>1, <1>5 DEF SweepKeep, SweepErase, SweepThrow, SweepDone
    <2>2. QueueInv'
      BY <1>1, <1>2, <2>1 DEF QueueInv, Queued
    <2> QED BY <2>1, <2>2, NoCallsTurns
  <1> QED BY <1>3, <1>4, <1>5 DEF Loop

\* The host's new fiber is queued once.
LEMMA EvaluateTurns ==
  ASSUME SchedulingInv, TurnsInv, NEW f \in Fibers, Evaluate(f)
  PROVE  TurnsInv'
  <1> USE DEF fiberVars, promiseVars, schedVars, sweepVars, loopVars
  <1>1. TypeOK /\ QueueInv /\ agenda' = <<>> /\ cur' = None /\ f # None
    BY ObjsAssumption DEF SchedulingInv, AgendaShape, Evaluate, TurnsInv, Objs
  <1>2. /\ fstate[f] = "Free" /\ fstate' = [fstate EXCEPT ![f] = "Running"]
        /\ runq' = Append(runq, f) /\ microq' = microq
    BY DEF Evaluate
  <1>3. ~Queued(f)
    BY <1>1, <1>2 DEF QueueInv
  <1>4. fstate'[f] = "Running" /\ \A g \in Fibers : g # f => fstate'[g] = fstate[g]
    BY <1>1, <1>2 DEF TypeOK
  <1>5. \A g \in Fibers : Queued(g) => fstate'[g] = "Running" /\ g # cur'
    BY <1>1, <1>4, ObjsAssumption DEF QueueInv, Objs
  <1>6. QueueInv'
    BY <1>1, <1>2, <1>3, <1>4, <1>5, EnqueueInv
  <1> QED BY <1>1, <1>6, NoCallsTurns

\* The executed fiber, between two instructions, is in no queue.
LEMMA BetweenInstructions ==
  ASSUME SchedulingInv, AnswersInv, TurnsInv, NEW f \in Fibers, Executing(f)
  PROVE  /\ TypeOK /\ QueueInv /\ agenda = <<>> /\ cur = f /\ fstate[f] = "Running"
         /\ frames[f] # <<>> /\ ~Queued(f) /\ ~Blocked(f)
  <1>1. fstate[f] = "Running" /\ agenda = <<>> /\ cur = f /\ frames[f] # <<>>
    BY DEF Executing, SchedulingInv, CurrentFiber
  <1> QED BY <1>1, RunnableIsFree DEF SchedulingInv, TurnsInv, QueueInv

\* Every instruction but Await: a fiber that is made is queued once.
LEMMA PlainInstructionsTurns ==
  ASSUME SchedulingInv, AnswersInv, TurnsInv, NEW f \in Fibers,
         \/ CallFunction(f) \/ CallBadArguments(f) \/ Throw(f)
         \/ TryBegin(f) \/ TryEnd(f) \/ Return(f) \/ Yield(f)
         \/ \E g \in Fibers : Spawn(f, g) \/ SpawnBadArguments(f, g)
         \/ \E p \in Futures, kind \in FutureKinds :
              \E items \in Items(kind) : CreateFuture(f, p, kind, items)
  PROVE  TurnsInv'
  <1> USE DEF fiberVars, promiseVars, schedVars, sweepVars, loopVars
  <1>0. Executing(f)
    BY DEF CallFunction, CallBadArguments, Throw, TryBegin, TryEnd, Return, Yield,
           Spawn, SpawnBadArguments, CreateFuture, Budgeted
  <1>1. /\ TypeOK /\ QueueInv /\ agenda = <<>> /\ cur = f /\ fstate[f] = "Running"
        /\ ~Queued(f) /\ ~Blocked(f)
    BY <1>0, BetweenInstructions
  <1>2. UNCHANGED <<waiting, cur, microq>>
    BY DEF CallFunction, CallBadArguments, Throw, TryBegin, TryEnd, Return, Yield,
           Spawn, SpawnBadArguments, CreateFuture
  <1>3. ASSUME UNCHANGED <<fstate, runq>>
        PROVE  QueueInv' /\ ~Queued(f)' /\ ~Blocked(cur)'
    BY <1>1, <1>2, <1>3 DEF QueueInv, Queued, Blocked
  <1>4. CASE \/ CallFunction(f) \/ TryBegin(f) \/ TryEnd(f)
             \/ \E p \in Futures, kind \in FutureKinds :
                  \E items \in Items(kind) : CreateFuture(f, p, kind, items)
    <2>1. UNCHANGED <<fstate, runq>> /\ agenda' = <<>>
      BY <1>1, <1>4 DEF CallFunction, TryBegin, TryEnd, CreateFuture
    <2> QED BY <1>3, <2>1, NoCallsTurns
  <1>5. CASE CallBadArguments(f) \/ Throw(f)
    <2>1. UNCHANGED <<fstate, runq>>
      BY <1>5 DEF CallBadArguments, Throw
    <2>2. PICK e \in Control : agenda' = <<Do("error", f), Do(e, f)>>
      BY <1>5 DEF CallBadArguments, Throw, Control
    <2> QED BY <1>3, <2>1, <2>2, LastTurns
  <1>6. CASE Return(f)
    <2>1. UNCHANGED <<fstate, runq>>
      BY <1>6 DEF Return
    <2>2. PICK k, l : k = Do("kill", f) /\ l = Do("leave", f)
      OBVIOUS
    <2>3. agenda' = (IF Len(frames[f]) = 1 THEN <<k>> ELSE <<>>) \o <<l>>
      BY <1>6, <2>2 DEF Return
    <2>4. CASE Len(frames[f]) = 1
      <3>1. agenda' = <<k>> \o <<l>>
        BY <2>3, <2>4
      <3>2. agenda' = <<Do("kill", f), Do("leave", f)>>
        BY <2>2, <3>1, JoinOne
      <3> QED BY <1>3, <2>1, <3>2, LastTurns DEF Control
    <2>5. CASE Len(frames[f]) # 1
      <3>1. agenda' = <<l>>
        BY <2>3, <2>5
      <3>2. l.op = "leave" /\ l \in CallSet
        BY <2>2, DoType DEF Do, Call, FiberOps
      <3>3. PICK X : X = <<l>>
        OBVIOUS
      <3>4. X \in Seq(CallSet) /\ \A i \in 1..Len(X) : X[i] = l
        BY <3>2, <3>3
      <3>5. TurnOK(l)'
        BY <3>2 DEF TurnOK
      <3> QED BY <1>3, <2>1, <3>1, <3>2, <3>3, <3>4, <3>5, FreshTurns
    <2> QED BY <2>4, <2>5
  <1>7. CASE Yield(f)
    <2>1. UNCHANGED <<fstate, runq>>
      BY <1>7 DEF Yield
    <2>2. PICK a, b, c : a = Do("settle", f) /\ b = Do("detach", f) /\ c = Do("leave", f)
      OBVIOUS
    <2>3. /\ a.op = "settle" /\ b.op = "detach" /\ b.who = f /\ c.op = "leave"
          /\ b \in CallSet /\ c \in CallSet
      BY <2>2, DoType DEF Do, Call, FiberOps
    <2>4. a \in CallSet
      BY <2>2 DEF Do, Call, CallSet, CallOps, FiberOps, Results, Objs
    <2>5. PICK X : X = <<a, b, c>>
      OBVIOUS
    <2>6. X \in Seq(CallSet) /\ \A i \in 1..Len(X) : X[i] \in {a, b, c}
      BY <2>3, <2>4, <2>5
    <2>7. TurnOK(a)' /\ TurnOK(b)' /\ TurnOK(c)'
      BY <1>1, <1>3, <2>1, <2>3 DEF TurnOK
    <2>8. \A i \in 1..Len(X) : TurnOK(X[i])' /\ X[i].op # "micro"
      BY <2>3, <2>6, <2>7
    <2>9. agenda' = X
      BY <1>7, <2>2, <2>5 DEF Yield
    <2> QED BY <1>3, <2>1, <2>6, <2>8, <2>9, FreshTurns
  <1>8. ASSUME NEW g \in Fibers, Spawn(f, g) PROVE TurnsInv'
    <2>1. /\ fstate[g] = "Free" /\ fstate' = [fstate EXCEPT ![g] = "Running"]
          /\ runq' = Append(runq, g) /\ agenda' = <<>>
      BY <1>1, <1>8 DEF Spawn
    <2>2. ~Queued(g) /\ g # cur'
      BY <1>1, <1>2, <2>1 DEF QueueInv
    <2>3. fstate'[g] = "Running" /\ \A h \in Fibers : h # g => fstate'[h] = fstate[h]
      BY <1>1, <2>1 DEF TypeOK
    <2>4. \A h \in Fibers : Queued(h) => fstate'[h] = "Running" /\ h # cur'
      BY <1>1, <1>2, <2>3 DEF QueueInv
    <2>5. QueueInv'
      BY <1>1, <1>2, <2>1, <2>2, <2>3, <2>4, EnqueueInv
    <2> QED BY <2>1, <2>5, NoCallsTurns
  <1>9. ASSUME NEW g \in Fibers, SpawnBadArguments(f, g) PROVE TurnsInv'
    <2>1. /\ fstate[g] = "Free" /\ fstate' = [fstate EXCEPT ![g] = "Dead"]
          /\ runq' = runq /\ agenda' = <<>>
      BY <1>1, <1>9 DEF SpawnBadArguments
    <2>2. \A h \in Fibers : Queued(h) => fstate'[h] = "Running" /\ h # cur'
      BY <1>1, <1>2, <2>1 DEF QueueInv, TypeOK
    <2>3. QueueInv'
      BY <1>1, <1>2, <2>1, <2>2 DEF QueueInv, Queued
    <2> QED BY <2>1, <2>3, NoCallsTurns
  <1> QED BY <1>4, <1>5, <1>6, <1>7, <1>8, <1>9

\* A careful await sets going idle objects only.
LEMMA AwaitTurns ==
  ASSUME SchedulingInv, AnswersInv, TurnsInv, RefsInv, NEW f \in Fibers, NEW x,
         Await(f, x), Patient(x)
  PROVE  TurnsInv'
  <1> USE DEF fiberVars, promiseVars, schedVars, sweepVars, loopVars
  <1>1. /\ TypeOK /\ QueueInv /\ agenda = <<>> /\ cur = f /\ fstate[f] = "Running"
        /\ ~Queued(f) /\ ~Blocked(f)
    BY BetweenInstructions DEF Await, Budgeted
  <1>2. PICK S \in SUBSET Objs :
          /\ x \in S
          /\ \A y \in S : Idle(y)
          /\ \A p \in S \cap Futures :
               pstat[p] = "New" => \A i \in DOMAIN fut[p].of : fut[p].of[i] \in S
    BY DEF Patient
  <1>3. x \in Objs /\ x # None
    BY <1>2, ObjsAssumption
  <1>4. f \notin S
    BY <1>1, <1>2 DEF Idle
  <1>5. ~HasResult(x)
    <2>1. Entries = {}
      BY <1>1 DEF Entries, ToSet
    <2>2. x \in Fibers => ~HasResult(x)
      BY <1>2, <2>1 DEF Idle, AnswersInv, BlockedInv
    <2> QED BY <1>2, <1>3, <2>2 DEF Idle, Objs
  <1>6. PICK first \in BOOLEAN : first <=> pstat[x] = "New"
    OBVIOUS
  <1>7. /\ UNCHANGED <<fut, runq, microq, cur>>
        /\ fstate' = [fstate EXCEPT ![f] = "Suspended"]
        /\ waiting' = [waiting EXCEPT ![f] = x]
        /\ pstat' = [pstat EXCEPT ![x] = "Pending"]
        /\ agenda' = (IF first THEN InitialAwait(x) ELSE <<>>)
                        \o (IF x \in Fibers THEN <<Do("micro", x)>> ELSE <<>>)
                        \o <<Do("leave", f)>>
    BY <1>3, <1>5, <1>6 DEF Await, AwaitOn
  <1>8. \A y \in Objs : (HasResult(y)' => HasResult(y)) /\ (pstat'[y] = "New" => pstat[y] = "New")
    BY <1>1, <1>7 DEF HasResult, TypeOK
  <1>9. \A g \in Fibers : g # f => fstate'[g] = fstate[g] /\ waiting'[g] = waiting[g]
    BY <1>1, <1>7 DEF TypeOK
  <1>10. \A y \in S : Idle(y)' /\ y # cur'
    BY <1>1, <1>2, <1>4, <1>7, <1>8, <1>9 DEF Idle
  <1>11. \A p \in S \cap Futures :
           pstat'[p] = "New" => \A i \in DOMAIN fut[p].of : fut[p].of[i] \in S
    BY <1>2, <1>8
  <1>12. first /\ x \in Futures =>
           /\ \A i \in DOMAIN fut[x].of : fut[x].of[i] \in S
           /\ fut[x].of # <<>> => Len(fut[x].of) = 1
    BY <1>2, <1>6 DEF RefsInv
  <1>13. QueueInv'
    <2>1. \A g \in Fibers : Queued(g) => fstate'[g] = "Running" /\ g # cur'
      BY <1>1, <1>7, <1>9 DEF QueueInv
    <2> QED BY <1>1, <1>7, <2>1 DEF QueueInv, Queued
  <1>14. cur' \in Fibers /\ UNCHANGED fut
    BY <1>1, <1>7
  <1>15. agenda' = (IF first THEN InitialAwait(x) ELSE <<>>)
                         \o (IF x \in Fibers THEN <<Do("micro", x)>> ELSE <<>>)
                         \o <<Do("leave", cur')>>
    BY <1>1, <1>7
  <1> HIDE DEF fiberVars, promiseVars, schedVars, sweepVars, loopVars
  <1> QED BY <1>1, <1>2, <1>10, <1>11, <1>12, <1>13, <1>14, <1>15, FirstAwaitTurns

\* What a step of FiberHeap is, when scripts are careful.
LEMMA CarefulSteps ==
  ASSUME Careless = {}, [HeapNext]_hvars
  PROVE  \/ UNCHANGED vars \/ CollectGarbage \/ Calls \/ Loop
         \/ \E f \in Fibers :
              \/ Evaluate(f)
              \/ \E x : Await(f, x) /\ Patient(x)
              \/ CallFunction(f) \/ CallBadArguments(f) \/ Throw(f)
              \/ TryBegin(f) \/ TryEnd(f) \/ Return(f) \/ Yield(f)
              \/ \E g \in Fibers : Spawn(f, g) \/ SpawnBadArguments(f, g)
              \/ \E p \in Futures, kind \in FutureKinds :
                   \E items \in Items(kind) : CreateFuture(f, p, kind, items)
  <1>1. CASE UNCHANGED hvars
    BY <1>1 DEF hvars
  <1>2. CASE MovesNoReference
    BY <1>2 DEF MovesNoReference, Calls
  <1>3. CASE HandToFiber \/ HandToFuture \/ ClearStack \/ ResetPromise
    BY <1>3 DEF HandToFiber, HandToFuture, ClearStack, ResetPromise, Calls
  <1>4. CASE HeapInstructions
    BY <1>4 DEF HeapInstructions, HeapReturn, HeapYield, HeapSpawn, HeapSpawnBad,
                HeapCreate, HeapAwait, Drop
  <1>5. CASE \E f \in Fibers : Evaluate(f)
    BY <1>5
  <1>6. CASE CollectGarbage
    BY <1>6
  <1> QED BY <1>1, <1>2, <1>3, <1>4, <1>5, <1>6 DEF HeapNext, HeapStep

\* Nobody is ever queued twice, when scripts are careful.
LEMMA TurnsNext ==
  ASSUME Careless = {}
  PROVE  SchedulingInv /\ AnswersInv /\ TurnsInv /\ RefsInv /\ [HeapNext]_hvars => TurnsInv'
  <1> SUFFICES ASSUME SchedulingInv, AnswersInv, TurnsInv, RefsInv, [HeapNext]_hvars
               PROVE  TurnsInv'
    OBVIOUS
  <1>1. CASE UNCHANGED vars
    <2>1. UNCHANGED <<fstate, waiting, pstat, fut, agenda, runq, microq, cur>>
      BY <1>1 DEF vars, fiberVars, promiseVars, schedVars, loopVars
    <2>2. QueueInv' /\ QueuedOnce' /\ Entries' = Entries
      BY <2>1 DEF TurnsInv, QueueInv, QueuedOnce, Queued, Entries
    <2>3. \A x : Quiet(x)' <=> Quiet(x)
      BY <2>1 DEF Quiet, Idle, HasResult
    <2>4. \A c \in Entries : TurnOK(c)'
      BY <2>1, <2>3 DEF TurnsInv, TurnOK, Queued, Blocked
    <2> QED BY <2>2, <2>4 DEF TurnsInv
  <1>2. CASE CollectGarbage
    <2>1. UNCHANGED <<fstate, agenda, runq, microq, cur>> /\ agenda = <<>>
      BY <1>2 DEF CollectGarbage, fiberVars, schedVars, loopVars, SchedulingInv, AgendaShape
    <2>2. QueueInv'
      BY <2>1 DEF TurnsInv, QueueInv, Queued
    <2> QED BY <2>1, <2>2, NoCallsTurns
  <1>3. ASSUME NEW f \in Fibers,
               \/ CallFunction(f) \/ CallBadArguments(f) \/ Throw(f)
               \/ TryBegin(f) \/ TryEnd(f) \/ Return(f) \/ Yield(f)
               \/ \E g \in Fibers : Spawn(f, g) \/ SpawnBadArguments(f, g)
               \/ \E p \in Futures, kind \in FutureKinds :
                    \E items \in Items(kind) : CreateFuture(f, p, kind, items)
        PROVE  TurnsInv'
    BY <1>3, PlainInstructionsTurns
  <1>4. ASSUME NEW f \in Fibers, NEW x, Await(f, x), Patient(x)
        PROVE  TurnsInv'
    BY <1>4, AwaitTurns
  <1>5. ASSUME NEW f \in Fibers, Evaluate(f) PROVE TurnsInv'
    BY <1>5, EvaluateTurns
  <1>6. CASE Calls
    BY <1>6, CallsTurns
  <1>7. CASE Loop
    BY <1>7, LoopTurns
  <1> QED BY <1>1, <1>2, <1>3, <1>4, <1>5, <1>6, <1>7, CarefulSteps

(***************************************************************************)
(* References.                                                             *)
(***************************************************************************)

\* A live fiber that the sweep has passed has been kept, and is still in fibres_
\* when the sweep is complete or an error is thrown out of it.
LEMMA LiveAreSwept ==
  ASSUME TypeOK, LiveInv, SweepKeep \/ SweepErase \/ SweepThrow \/ SweepDone,
         NEW f \in Fibers, f \in ToSet(fibres), fstate[f] # "Dead"
  PROVE  f \in ToSet(fibres')
  <1>1. /\ fibres \in Seq(Fibers) /\ kept \in Seq(Fibers) /\ scan \in Nat /\ scan # 0
        /\ Len(kept) < scan
    BY DEF TypeOK, LiveInv
  <1>2. PICK i \in 1..Len(fibres) : fibres[i] = f
    BY <1>1, ElementsOf
  <1>3. i < scan => f \in ToSet(kept)
    BY <1>1, <1>2 DEF LiveInv
  <1>4. CASE SweepKeep \/ SweepErase
    BY <1>4 DEF SweepKeep, SweepErase
  <1>5. CASE SweepThrow
    <2> DEFINE rest == SubSeq(fibres, Len(kept) + 1, Len(fibres))
    <2>1. fibres' = kept \o rest /\ rest \in Seq(Fibers)
      BY <1>1, <1>5, SubSeqType DEF SweepThrow
    <2>2. CASE i <= Len(kept)
      <3>1. f \in ToSet(kept)
        BY <1>1, <1>3, <2>2
      <3>2. PICK j \in 1..Len(kept) : kept[j] = f
        BY <1>1, <3>1, ElementsOf
      <3>3. fibres'[j] = f /\ j \in 1..Len(fibres')
        BY <1>1, <2>1, <3>2, ConcatProperties
      <3> QED BY <2>1, <3>3 DEF ToSet
    <2>3. CASE i > Len(kept)
      <3> DEFINE k == i - Len(kept)
      <3>1. Len(rest) = Len(fibres) - Len(kept) /\ k \in 1..Len(rest) /\ rest[k] = f
        BY <1>1, <1>2, <2>3, SubSeqProperties
      <3>2. fibres'[Len(kept) + k] = f /\ Len(kept) + k \in 1..Len(fibres')
        BY <1>1, <2>1, <3>1, ConcatProperties
      <3>3. fibres' \in Seq(Fibers)
        BY <1>1, <2>1, ConcatProperties
      <3> QED BY <3>2, <3>3, ElementsOf
    <2> QED BY <1>1, <2>2, <2>3
  <1>6. CASE SweepDone
    BY <1>1, <1>2, <1>3, <1>6 DEF SweepDone
  <1> QED BY <1>4, <1>5, <1>6

\* A live fiber stays in fibres_.
LEMMA LiveStay ==
  ASSUME SchedulingInv, KnownInv, LiveInv, [Next]_vars, NEW f \in Fibers,
         fstate'[f] \in {"Running", "Suspended"}
  PROVE  f \in ToSet(fibres')
  <1>0. fibres \in Seq(Fibers) /\ TypeOK /\ fstate[f] \in {"Free", "Running", "Suspended", "Dead"}
    BY DEF SchedulingInv, TypeOK
  <1>1. CASE fstate[f] = "Free"
    BY <1>1, NewFiber
  <1>2. fstate[f] # "Dead"
    <2>1. CASE UNCHANGED vars
      BY <2>1 DEF vars, fiberVars
    <2> QED BY <2>1, DeadStep
  <1>3. CASE f \in ToSet(fibres)
    <2>1. CASE phase # "sweep"
      <3>1. fibres' = fibres \/ \E g \in Fibers : fibres' = Append(fibres, g)
        BY <2>1, NotSweeping
      <3>2. ASSUME NEW g \in Fibers, fibres' = Append(fibres, g)
            PROVE  f \in ToSet(fibres')
        BY <1>0, <1>3, <3>2, ElementsOf
      <3> QED BY <1>3, <3>1, <3>2
    <2>2. CASE UNCHANGED vars
      BY <1>3, <2>2 DEF vars, sweepVars
    <2>3. CASE Next /\ phase = "sweep"
      BY <1>0, <1>2, <1>3, <2>3, OnlySweeping, LiveAreSwept
    <2> QED BY <2>1, <2>2, <2>3
  <1> QED BY <1>0, <1>1, <1>2, <1>3 DEF LiveInv

\* The sweep of fibres_ erases dead fibers only.
LEMMA LiveNext ==
  ASSUME SchedulingInv, KnownInv, LiveInv, [HeapNext]_hvars
  PROVE  LiveInv'
  <1>0. /\ fibres \in Seq(Fibers) /\ kept \in Seq(Fibers) /\ scan \in Nat \ {0}
        /\ phase \in {"host", "drain", "exec", "sweep"}
    BY DEF SchedulingInv, TypeOK
  <1>1. CASE CollectGarbage
    BY <1>1 DEF CollectGarbage, fiberVars, sweepVars, loopVars, LiveInv
  <1>2. CASE [Next]_vars
    <2>1. \A f \in Fibers : fstate'[f] \in {"Running", "Suspended"} => f \in ToSet(fibres')
      BY <1>2, LiveStay
    <2>2. CASE phase # "sweep"
      <3>1. kept = <<>> /\ scan = 1 /\ kept' = <<>> /\ scan' = 1
        BY <1>2, <2>2, NotSweeping DEF LiveInv
      <3>2. DOMAIN fibres' = 1..Len(fibres')
        BY <1>0, <1>2, <2>2, NotSweeping
      <3>3. \A i \in DOMAIN fibres' : ~(i < scan')
        BY <3>1, <3>2
      <3> QED BY <2>1, <3>1, <3>3 DEF LiveInv
    <2>3. CASE UNCHANGED vars
      BY <2>3 DEF vars, fiberVars, sweepVars, loopVars, LiveInv
    <2>4. CASE phase = "sweep" /\ Next
      <3>0. SweepKeep \/ SweepErase \/ SweepThrow \/ SweepDone
        BY <2>4, OnlySweeping
      <3>1. /\ Len(kept) < scan
            /\ \A i \in 1..Len(fibres) :
                 i < scan => fibres[i] \in ToSet(kept) \/ fstate[fibres[i]] = "Dead"
        BY <1>0 DEF LiveInv
      <3>2. fstate' = fstate
        BY <3>0 DEF SweepKeep, SweepErase, SweepThrow, SweepDone, fiberVars
      <3>3. CASE SweepKeep
        <4>1. /\ fibres' = fibres /\ kept' = Append(kept, fibres[scan]) /\ scan' = scan + 1
              /\ phase' = "sweep" /\ scan \in 1..Len(fibres)
          BY <1>0, <2>4, <3>3 DEF SweepKeep, loopVars
        <4>2. fibres[scan] \in Fibers /\ ToSet(kept') = ToSet(kept) \cup {fibres[scan]}
          BY <1>0, <4>1, ElementsOf
        <4>3. Len(kept') < scan'
          BY <1>0, <3>1, <4>1, <4>2
        <4>4. ASSUME NEW i \in 1..Len(fibres), i < scan'
              PROVE  fibres'[i] \in ToSet(kept') \/ fstate'[fibres'[i]] = "Dead"
          <5>1. i < scan \/ i = scan
            BY <1>0, <4>1, <4>4
          <5> QED BY <3>1, <3>2, <4>1, <4>2, <5>1
        <4>5. DOMAIN fibres' = 1..Len(fibres)
          BY <1>0, <4>1
        <4> QED BY <2>1, <4>1, <4>3, <4>4, <4>5 DEF LiveInv
      <3>4. CASE SweepErase
        <4>1. /\ fibres' = fibres /\ kept' = kept /\ scan' = scan + 1
              /\ phase' = "sweep" /\ scan \in 1..Len(fibres) /\ fstate[fibres[scan]] = "Dead"
          BY <1>0, <2>4, <3>4 DEF SweepErase, loopVars
        <4>2. ASSUME NEW i \in 1..Len(fibres), i < scan'
              PROVE  fibres'[i] \in ToSet(kept') \/ fstate'[fibres'[i]] = "Dead"
          <5>1. i < scan \/ i = scan
            BY <1>0, <4>1, <4>2
          <5> QED BY <3>1, <3>2, <4>1, <5>1
        <4>3. Len(kept') < scan'
          BY <1>0, <3>1, <4>1
        <4>4. DOMAIN fibres' = 1..Len(fibres)
          BY <1>0, <4>1
        <4> QED BY <2>1, <4>1, <4>2, <4>3, <4>4 DEF LiveInv
      <3>5. CASE SweepThrow \/ SweepDone
        <4>1. kept' = <<>> /\ scan' = 1
          BY <3>5 DEF SweepThrow, SweepDone
        <4>2. fibres' \in Seq(Fibers)
          BY <3>5, <2>4, SchedulingNext DEF SchedulingInv, TypeOK
        <4>3. \A i \in DOMAIN fibres' : ~(i < scan')
          BY <4>1, <4>2
        <4> QED BY <2>1, <4>1, <4>3 DEF LiveInv
      <3> QED BY <3>0, <3>3, <3>4, <3>5
    <2> QED BY <1>2, <2>2, <2>3, <2>4
  <1> QED BY <1>1, <1>2, HeapSteps

\* The roots are marked, and so is what a marked object refers to.
LEMMA MarkedClosed ==
  /\ Roots \cap Allocations \subseteq Marked
  /\ \A x \in Marked : Refs(x) \cap Allocations \subseteq Marked
  /\ Marked \subseteq Allocations
  <1>1. Roots \cap Allocations \subseteq Marked
    BY DEF Marked
  <1>2. ASSUME NEW x \in Marked, NEW y \in Refs(x) \cap Allocations
        PROVE  y \in Marked
    <2> SUFFICES ASSUME NEW S \in SUBSET Allocations,
                        Roots \cap Allocations \subseteq S,
                        \A z \in S : Refs(z) \cap Allocations \subseteq S
                 PROVE  y \in S
      BY <1>2 DEF Marked
    <2>1. x \in S
      BY <1>2 DEF Marked
    <2> QED BY <1>2, <2>1
  <1> QED BY <1>1, <1>2 DEF Marked

\* What a collection does: what it deletes is garbage that is not in fibres_, dead
\* if it is a fiber, and what remains refers to what remains.
LEMMA Collected ==
  ASSUME HeapInv, LiveInv, FreedInv, RefsInv, AliveInv, CollectGarbage
  PROVE  \E dead :
           /\ agenda = <<>> /\ agenda' = <<>> /\ TypeOK
           /\ UNCHANGED <<fstate, waiting, fut, holds, payload, last, fibres, runq, microq, timers>>
           /\ freed' = freed \cup dead
           /\ pstat' = [o \in Objs |-> IF o \in dead THEN "Rejected" ELSE pstat[o]]
           /\ wakers' = [o \in Objs |-> IF o \in dead THEN <<>> ELSE wakers[o]]
           /\ \A o \in dead : o \in Objs /\ Allocated(o)
           /\ \A f \in Fibers : fstate[f] \in {"Running", "Suspended"} => f \in Marked
           /\ \A f \in dead \cap Fibers : fstate[f] = "Dead"
           /\ last # None => payload[last] \cap dead = {}
           /\ \A o \in Marked : Refs(o) \cap dead = {}
           /\ \A o \in Marked : o \notin dead
           /\ \A o \in Objs : o \in freed' \/ o \in Marked \/ ~Allocated(o)
  <1>0. PICK dead : dead = Allocations \ Marked
    OBVIOUS
  <1> WITNESS dead
  <1>1. TypeOK /\ agenda = <<>>
    BY DEF HeapInv, SchedulingInv, AgendaShape, CollectGarbage
  <1>2. /\ agenda' = <<>>
        /\ UNCHANGED <<fstate, waiting, fut, holds, payload, last, fibres, runq, microq, timers>>
        /\ freed' = freed \cup dead
        /\ pstat' = [o \in Objs |-> IF o \in dead THEN "Rejected" ELSE pstat[o]]
        /\ wakers' = [o \in Objs |-> IF o \in dead THEN <<>> ELSE wakers[o]]
    BY <1>0, <1>1 DEF CollectGarbage, Sweep, fiberVars, schedVars, sweepVars
  <1>3. \A o \in dead : o \in Objs /\ Allocated(o)
    BY <1>0 DEF Allocations
  <1>4. \A f \in Fibers : fstate[f] \in {"Running", "Suspended"} => f \in Marked
    <2> SUFFICES ASSUME NEW f \in Fibers, fstate[f] \in {"Running", "Suspended"}
                 PROVE  f \in Marked
      OBVIOUS
    <2>1. f \in ToSet(fibres)
      BY DEF LiveInv
    <2>2. f \in Allocations /\ f \in Roots
      BY <2>1 DEF HeapInv, Allocations, Roots
    <2> QED BY <2>2, MarkedClosed
  <1>5. \A f \in dead \cap Fibers : fstate[f] = "Dead"
    <2> SUFFICES ASSUME NEW f \in dead \cap Fibers PROVE fstate[f] = "Dead"
      OBVIOUS
    <2>1. fstate[f] # "Free"
      BY <1>3, ObjsAssumption DEF Allocated
    <2>2. f \notin Marked
      BY <1>0
    <2> QED BY <1>1, <1>4, <2>1, <2>2 DEF TypeOK
  <1>6. last # None => payload[last] \cap dead = {}
    <2> SUFFICES ASSUME last # None, NEW o \in payload[last], o \in dead PROVE FALSE
      OBVIOUS
    <2>1. o \in Roots \cap Allocations
      BY <1>0 DEF Roots
    <2> QED BY <1>0, <2>1, MarkedClosed
  <1>7. \A o \in Marked : Refs(o) \cap dead = {} /\ o \notin dead
    BY <1>0, MarkedClosed
  <1>8. \A o \in Objs : o \in freed' \/ o \in Marked \/ ~Allocated(o)
    BY <1>0, <1>2 DEF Allocations
  <1> QED BY <1>1, <1>2, <1>3, <1>4, <1>5, <1>6, <1>7, <1>8

\* A collection takes a deleted object's wakers away, and nothing else.
LEMMA CollectKnown ==
  ASSUME HeapInv, KnownInv, LiveInv, FreedInv, RefsInv, AliveInv, CollectGarbage
  PROVE  KnownInv'
  <1>2. PICK dead :
        /\ agenda' = <<>> /\ UNCHANGED <<fstate, fut, timers>>
        /\ pstat' = [o \in Objs |-> IF o \in dead THEN "Rejected" ELSE pstat[o]]
        /\ wakers' = [o \in Objs |-> IF o \in dead THEN <<>> ELSE wakers[o]]
        /\ \A o \in dead : o \in Objs /\ Allocated(o)
    BY Collected
  <1>3. Known' = Known
    BY <1>2 DEF Known, Allocated
  <1>4. wakers' \in [Objs -> Seq(Known')]
    BY <1>2, <1>3 DEF KnownInv
  <1>5. agenda' \in Seq(KnownCalls')
    BY <1>2
  <1>6. \A p \in Futures : fut'[p].kind = "none" => pstat'[p] = "New"
    <2>1. \A p \in Futures : p \in Objs /\ p \notin Fibers
      BY ObjsAssumption DEF Objs
    <2> QED BY <1>2, <2>1 DEF KnownInv, Allocated
  <1> QED BY <1>2, <1>3, <1>4, <1>5, <1>6 DEF KnownInv

\* What a blocked fiber waits for is in its hands, so it survives a collection,
\* and its waker with it.
LEMMA CollectAnswers ==
  ASSUME HeapInv, AnswersInv, LiveInv, FreedInv, RefsInv, AliveInv, CollectGarbage
  PROVE  AnswersInv'
  <1>2. PICK dead :
        /\ agenda = <<>> /\ agenda' = <<>> /\ UNCHANGED <<fstate, waiting, fut, holds>>
        /\ pstat' = [o \in Objs |-> IF o \in dead THEN "Rejected" ELSE pstat[o]]
        /\ wakers' = [o \in Objs |-> IF o \in dead THEN <<>> ELSE wakers[o]]
        /\ \A o \in dead : o \in Objs /\ Allocated(o)
        /\ \A f \in Fibers : fstate[f] \in {"Running", "Suspended"} => f \in Marked
        /\ \A f \in dead \cap Fibers : fstate[f] = "Dead"
        /\ \A o \in Marked : Refs(o) \cap dead = {}
        /\ \A o \in Marked : o \notin dead
    BY Collected
  <1>3. Entries = {} /\ Entries' = {} /\ \A f : Delivers(f) = {}
    BY <1>2 DEF Entries, ToSet, Delivers
  <1>4. ASSUME NEW f \in Fibers, Blocked(f)
        PROVE  /\ fstate'[f] = "Suspended" /\ ~HasResult(f)' /\ Allocated(waiting[f])'
               /\ pstat'[waiting'[f]] = "Pending" /\ f \in ToSet(wakers'[waiting'[f]])
    <2>1. /\ fstate[f] = "Suspended" /\ ~HasResult(f) /\ Allocated(waiting[f])
          /\ pstat[waiting[f]] = "Pending" /\ f \in ToSet(wakers[waiting[f]])
      BY <1>3, <1>4 DEF AnswersInv, BlockedInv
    <2>2. f \in Marked /\ waiting[f] \in Refs(f)
      BY <1>2, <1>4, <2>1 DEF AliveInv, Refs
    <2>3. f \notin dead /\ waiting[f] \notin dead /\ waiting[f] \in Objs /\ f \in Objs
      BY <1>2, <2>1, <2>2 DEF Allocated, Objs
    <2> QED BY <1>2, <2>1, <2>3 DEF HasResult, Allocated
  <1>5. ASSUME NEW f \in Fibers, HasResult(f)' PROVE fstate'[f] = "Dead"
    <2>1. CASE f \in dead
      BY <1>2, <2>1
    <2>2. CASE f \notin dead
      <3>1. HasResult(f)
        BY <1>2, <1>5, <2>2 DEF HasResult, Objs
      <3> QED BY <1>2, <1>3, <3>1 DEF AnswersInv, BlockedInv
    <2> QED BY <2>1, <2>2
  <1>6. \A f : Blocked(f)' <=> Blocked(f)
    BY <1>2 DEF Blocked
  <1>7. BlockedInv'
    BY <1>4, <1>5, <1>6 DEF BlockedInv
  <1>8. WakersInv'
    <2> SUFFICES ASSUME NEW x \in Objs
                 PROVE  /\ \A f \in Fibers \cap ToSet(wakers'[x]) : waiting'[f] = x
                        /\ \A i, j \in DOMAIN wakers'[x] :
                             wakers'[x][i] = wakers'[x][j] /\ wakers'[x][i] \in Fibers => i = j
      BY DEF WakersInv
    <2>1. CASE x \in dead
      <3>1. wakers'[x] = <<>>
        BY <1>2, <2>1
      <3> QED BY <3>1 DEF ToSet
    <2>2. CASE x \notin dead
      <3>1. wakers'[x] = wakers[x]
        BY <1>2, <2>2
      <3> QED BY <1>2, <1>3, <3>1 DEF AnswersInv, WakersInv
    <2> QED BY <2>1, <2>2
  <1>9. CallsOK' /\ PlacesOK'
    BY <1>2, NoCalls
  <1> QED BY <1>7, <1>8, <1>9 DEF AnswersInv

\* What a collection leaves refers to nothing it has deleted.
LEMMA CollectAlive ==
  ASSUME HeapInv, AnswersInv, LiveInv, FreedInv, RefsInv, AliveInv, CollectGarbage
  PROVE  FreedInv' /\ RefsInv' /\ AliveInv'
  <1>2. PICK dead :
        /\ agenda = <<>> /\ agenda' = <<>> /\ TypeOK
        /\ UNCHANGED <<fstate, waiting, fut, holds, payload, last>>
        /\ freed' = freed \cup dead
        /\ pstat' = [o \in Objs |-> IF o \in dead THEN "Rejected" ELSE pstat[o]]
        /\ wakers' = [o \in Objs |-> IF o \in dead THEN <<>> ELSE wakers[o]]
        /\ \A o \in dead : o \in Objs /\ Allocated(o)
        /\ \A f \in Fibers : fstate[f] \in {"Running", "Suspended"} => f \in Marked
        /\ \A f \in dead \cap Fibers : fstate[f] = "Dead"
        /\ last # None => payload[last] \cap dead = {}
        /\ \A o \in Marked : Refs(o) \cap dead = {}
        /\ \A o \in Marked : o \notin dead
        /\ \A o \in Objs : o \in freed' \/ o \in Marked \/ ~Allocated(o)
    BY Collected
  <1>3. Entries = {} /\ Entries' = {}
    BY <1>2 DEF Entries, ToSet
  <1>4. FreedInv'
    <2>1. \A o \in freed : o \in Objs
      BY DEF HeapInv
    <2>2. \A o \in freed' : HasResult(o)' /\ wakers'[o] = <<>>
      BY <1>2, <2>1 DEF FreedInv, HasResult
    <2> QED BY <1>2, <2>2 DEF FreedInv
  <1>5. RefsInv'
    BY <1>2 DEF RefsInv, Known, Allocated
  <1>6. ASSUME NEW o \in Objs \ freed'
        PROVE  /\ payload'[o] \cap freed' = {}
               /\ ToSet(wakers'[o]) \cap Fibers \cap freed' = {}
               /\ o \in Fibers => holds'[o] \cap freed' = {}
               /\ o \in Futures => ToSet(fut'[o].of) \cap freed' = {}
    <2>1. o \notin freed /\ o \notin dead
      BY <1>2
    <2>2. /\ payload[o] \cap freed = {}
          /\ o \in Fibers => holds[o] \cap freed = {}
          /\ o \in Futures => ToSet(fut[o].of) \cap freed = {}
      BY <2>1 DEF AliveInv
    <2>3. /\ payload[o] \cap dead = {}
          /\ o \in Fibers => holds[o] \cap dead = {}
          /\ o \in Futures => ToSet(fut[o].of) \cap dead = {}
      <3>1. CASE o \in Marked
        <4>1. Refs(o) \cap dead = {}
          BY <1>2, <3>1
        <4>2. payload[o] \subseteq Refs(o) /\ (o \in Fibers => holds[o] \subseteq Refs(o))
          BY DEF Refs
        <4>3. ASSUME o \in Futures, NEW y \in ToSet(fut[o].of), y \in dead PROVE FALSE
          <5>1. fut[o].of # <<>> /\ o \notin Fibers
            BY <4>3, ObjsAssumption DEF ToSet
          <5>2. y \in Refs(o)
            BY <1>2, <4>3, <5>1 DEF RefsInv, Refs
          <5> QED BY <4>1, <4>3, <5>2
        <4> QED BY <4>1, <4>2, <4>3
      <3>2. CASE ~Allocated(o)
        <4>1. payload[o] = {} /\ (o \in Fibers => holds[o] = {})
          BY <3>2 DEF RefsInv
        <4>2. o \in Futures => fut[o].of = <<>>
          BY <3>2 DEF RefsInv, Allocated
        <4>3. o \in Futures => ToSet(fut[o].of) = {}
          BY <4>2 DEF ToSet
        <4> QED BY <4>1, <4>3
      <3> QED BY <1>2, <3>1, <3>2
    <2>4. ASSUME NEW f \in ToSet(wakers'[o]) \cap Fibers PROVE f \notin freed'
      <3>1. f \in ToSet(wakers[o])
        BY <1>2, <2>1, <2>4
      <3>2. waiting[f] = o
        BY <1>3, <2>4, <3>1 DEF AnswersInv, WakersInv
      <3>3. fstate[f] = "Suspended"
        BY <2>4, <3>2, ObjsAssumption DEF AnswersInv, BlockedInv, Blocked
      <3>4. f \notin freed
        BY <2>4, <3>3 DEF FreedInv
      <3> QED BY <1>2, <2>4, <3>3, <3>4
    <2> QED BY <1>2, <2>2, <2>3, <2>4
  <1>7. last' # None => payload'[last'] \cap freed' = {}
    BY <1>2 DEF AliveInv
  <1>8. \A f \in Fibers : Blocked(f)' => waiting'[f] \in holds'[f]
    BY <1>2 DEF AliveInv, Blocked
  <1>9. AliveInv'
    BY <1>3, <1>6, <1>7, <1>8 DEF AliveInv
  <1> QED BY <1>4, <1>5, <1>9

-----------------------------------------------------------------------------
\* Where a step of the runtime takes references from: the result that an answer
\* brings, what the executed fiber holds, and what is made.
Offered ==
  {y \in Objs :
     \/ \E c \in Entries : c.op = "deliver" /\ c.by \in Objs /\ y \in payload[c.by]
     \/ \E f \in Fibers : Executing(f) /\ y \in holds[f]}

Made == {o \in Objs : ~Allocated(o) /\ Allocated(o)'}

\* Where it takes them to: what is in memory.  Blocked fibers lose none.
References ==
  /\ freed' = freed
  /\ payload' \in [Objs -> SUBSET Objs]
  /\ holds' \in [Fibers -> SUBSET Objs]
  /\ \A o \in Objs :
       payload'[o] = payload[o] \/ (Allocated(o)' /\ payload'[o] \subseteq payload[o] \cup Offered)
  /\ \A f \in Fibers :
       holds'[f] = holds[f] \/ (Allocated(f)' /\ holds'[f] \subseteq holds[f] \cup Offered \cup Made)
  /\ \A f \in Fibers : Blocked(f) \/ Blocked(f)' => holds[f] \subseteq holds'[f]

\* What an executed fiber holds, and what an answer brings, can be handed on.
LEMMA OfferedFacts ==
  ASSUME RefsInv
  PROVE  /\ payload \in [Objs -> SUBSET Objs] /\ holds \in [Fibers -> SUBSET Objs]
         /\ Offered \subseteq Known /\ Known \subseteq Objs
         /\ \A f \in Fibers : Executing(f) => holds[f] \subseteq Offered
         /\ \A c \in Entries : c.op = "deliver" => Answer(c.by) \subseteq Offered \/ c.by \notin Objs
  <1>1. Known \subseteq Objs
    BY DEF Known
  <1>2. /\ \A o \in Objs : payload[o] \subseteq Known
        /\ \A f \in Fibers : holds[f] \subseteq Known
    BY DEF RefsInv
  <1>3. payload \in [Objs -> SUBSET Objs] /\ holds \in [Fibers -> SUBSET Objs]
    BY <1>1 DEF RefsInv
  <1>4. Offered \subseteq Known
    BY <1>2 DEF Offered
  <1>5. \A c \in Entries : c.op = "deliver" => Answer(c.by) \subseteq Offered \/ c.by \notin Objs
    BY <1>3, ObjsAssumption DEF Offered, Answer
  <1>6. \A f \in Fibers : Executing(f) => holds[f] \subseteq Offered
    BY <1>3 DEF Offered
  <1> QED BY <1>1, <1>3, <1>4, <1>5, <1>6

\* Most steps move no references.
LEMMA NothingMoved ==
  ASSUME RefsInv, UNCHANGED heapVars
  PROVE  References
  BY OfferedFacts DEF References, heapVars

\* A call in progress hands on the result it brings, or drops references.
LEMMA CallsMove ==
  ASSUME SchedulingInv, KnownInv, AnswersInv, RefsInv, [HeapNext]_hvars,
         HandToFiber \/ HandToFuture \/ ClearStack \/ ResetPromise
  PROVE  References
  <1> USE DEF fiberVars, promiseVars
  <1>1. /\ payload \in [Objs -> SUBSET Objs] /\ holds \in [Fibers -> SUBSET Objs]
        /\ Offered \subseteq Objs
        /\ \A c \in Entries : c.op = "deliver" => Answer(c.by) \subseteq Offered \/ c.by \notin Objs
    BY OfferedFacts
  <1>2. PICK op \in {"deliver", "bury", "detach"} : Running(op)
    BY DEF HandToFiber, HandToFuture, ClearStack, ResetPromise, DeliverToFiber,
           DeliverToFuture, Bury, Detach
  <1>3. /\ Top \in CallSet /\ Top.op = op /\ CallOK(Top) /\ Top \in Entries
        /\ Top.who \in Known \cup {None}
    <2>1. Top = agenda[1] /\ 1 \in DOMAIN agenda /\ CallOK(Top)
      BY <1>2, TopFacts
    <2> QED BY <1>2, <2>1, KnownTop DEF Entries, ToSet
  <1>4. PICK w : w = Top.who /\ w \in Objs /\ Allocated(w)
    BY <1>2, <1>3, ObjsAssumption DEF CallSet, FiberOps, Known, Objs
  <1>a. Allocated(w)'
    BY <1>4, AllocatedForGood
  <1>5. op = "deliver" => Answer(Top.by) \subseteq Offered
    <2>1. CASE Top.by \in Objs
      BY <1>1, <1>3, <2>1
    <2>2. CASE Top.by = None
      BY <2>2 DEF Answer
    <2> QED BY <1>3, <2>1, <2>2 DEF CallSet
  <1>6. CASE HandToFiber
    <2>1. /\ w \in Fibers /\ op = "deliver" /\ freed' = freed /\ payload' = payload
          /\ holds' = [holds EXCEPT ![w] = IF Top.res = "val" THEN @ \cup Answer(Top.by) ELSE @]
      BY <1>3, <1>4, <1>6 DEF HandToFiber, DeliverToFiber, Running, Top
    <2>2. /\ holds' \in [Fibers -> SUBSET Objs]
          /\ \A f \in Fibers : f # w => holds'[f] = holds[f]
          /\ holds'[w] \subseteq holds[w] \cup Offered
          /\ holds[w] \subseteq holds'[w]
      BY <1>1, <1>5, <2>1
    <2> QED BY <1>1, <1>4, <1>a, <2>1, <2>2 DEF References
  <1>7. CASE HandToFuture
    <2>1. /\ w \in Objs /\ op = "deliver" /\ freed' = freed /\ holds' = holds
          /\ \/ payload' = payload
             \/ payload' = [payload EXCEPT ![w] = @ \cup Answer(Top.by)]
      BY <1>1, <1>3, <1>4, <1>7 DEF HandToFuture, DeliverToFuture, Running, Top, Objs
    <2>2. /\ payload' \in [Objs -> SUBSET Objs]
          /\ \A o \in Objs : o # w => payload'[o] = payload[o]
          /\ payload'[w] \subseteq payload[w] \cup Offered
      BY <1>1, <1>5, <2>1
    <2> QED BY <1>1, <1>4, <1>a, <2>1, <2>2 DEF References
  <1>8. CASE ClearStack
    <2>1. /\ w \in Fibers /\ op = "bury" /\ freed' = freed /\ payload' = payload
          /\ holds' = [holds EXCEPT ![w] = {}] /\ waiting' = waiting
      BY <1>3, <1>4, <1>8 DEF ClearStack, Bury, Running, Top, CallSet, FiberOps
    <2>2. ~Blocked(w)
      BY <1>3, <1>4, <2>1 DEF CallOK
    <2>3. /\ holds' \in [Fibers -> SUBSET Objs] /\ holds'[w] = {}
          /\ \A f \in Fibers : f # w => holds'[f] = holds[f]
      BY <1>1, <2>1
    <2>4. \A f \in Fibers : Blocked(f)' <=> Blocked(f)
      BY <2>1 DEF Blocked
    <2> QED BY <1>1, <1>4, <1>a, <2>1, <2>2, <2>3, <2>4 DEF References
  <1>9. CASE ResetPromise
    <2>1. freed' = freed /\ holds' = holds /\ payload' = [payload EXCEPT ![w] = {}]
      BY <1>4, <1>9 DEF ResetPromise
    <2>2. /\ payload' \in [Objs -> SUBSET Objs] /\ payload'[w] = {}
          /\ \A o \in Objs : o # w => payload'[o] = payload[o]
      BY <1>1, <1>4, <1>a, <2>1
    <2> QED BY <1>1, <1>4, <1>a, <2>1, <2>2 DEF References
  <1> QED BY <1>6, <1>7, <1>8, <1>9

\* An instruction hands on what its fiber holds, and what it makes.
LEMMA InstructionsMove ==
  ASSUME SchedulingInv, AnswersInv, RefsInv, Careless = {}, HeapInstructions, [HeapNext]_hvars
  PROVE  References
  <1> USE DEF fiberVars, promiseVars
  <1>1. /\ payload \in [Objs -> SUBSET Objs] /\ holds \in [Fibers -> SUBSET Objs]
        /\ Offered \subseteq Objs
        /\ \A f \in Fibers : Executing(f) => holds[f] \subseteq Offered
    BY OfferedFacts
  <1>2. TypeOK
    BY DEF SchedulingInv
  <1>3. ASSUME NEW f \in Fibers, Executing(f)
        PROVE  /\ fstate[f] = "Running" /\ ~Blocked(f) /\ f \in Objs
               /\ holds[f] \subseteq Offered /\ Allocated(f)'
    <2>1. fstate[f] = "Running"
      BY <1>3, ExecutingFiber DEF SchedulingInv
    <2>2. f \in Objs /\ Allocated(f)
      BY <2>1 DEF Objs, Allocated
    <2> QED BY <1>1, <1>3, <2>1, <2>2, RunnableIsFree, AllocatedForGood
  <1>4. ASSUME NEW f \in Fibers, NEW x, Drop(f, x) PROVE References
    <2>1. /\ Executing(f) /\ holds' = [holds EXCEPT ![f] = @ \ {x}]
          /\ payload' = payload /\ freed' = freed /\ waiting' = waiting
      BY <1>4 DEF Drop, vars
    <2>2. /\ holds' \in [Fibers -> SUBSET Objs] /\ holds'[f] \subseteq holds[f]
          /\ \A g \in Fibers : g # f => holds'[g] = holds[g]
      BY <1>1, <2>1
    <2>3. ~Blocked(f) /\ ~Blocked(f)' /\ Allocated(f)'
      BY <1>3, <2>1 DEF Blocked
    <2> QED BY <1>1, <2>1, <2>2, <2>3 DEF References
  <1>5. ASSUME NEW f \in Fibers, NEW g \in Fibers, HeapSpawn(f, g) PROVE References
    <2>1. PICK args \in SUBSET holds[f] : holds' = [holds EXCEPT ![f] = @ \cup {g}, ![g] = args]
      BY <1>5 DEF HeapSpawn
    <2>2. /\ Executing(f) /\ fstate[g] = "Free" /\ fstate' = [fstate EXCEPT ![g] = "Running"]
          /\ payload' = payload /\ freed' = freed /\ waiting' = waiting
      BY <1>5 DEF HeapSpawn, Spawn, Budgeted
    <2>3. g # f /\ ~Blocked(g) /\ ~Blocked(g)'
      BY <1>3, <2>2, RunnableIsFree DEF Blocked
    <2>4. g \in Made /\ Allocated(g)'
      BY <1>2, <2>2, ObjsAssumption DEF Made, Allocated, Objs, TypeOK
    <2>5. /\ holds' \in [Fibers -> SUBSET Objs]
          /\ holds'[f] = holds[f] \cup {g} /\ holds'[g] = args
          /\ \A h \in Fibers : h # f /\ h # g => holds'[h] = holds[h]
      BY <1>1, <2>1, <2>3 DEF Objs
    <2> QED BY <1>1, <1>3, <2>1, <2>2, <2>3, <2>4, <2>5 DEF References
  <1>6. ASSUME NEW f \in Fibers, NEW g \in Fibers, HeapSpawnBad(f, g) PROVE References
    <2>1. /\ Executing(f) /\ fstate[g] = "Free" /\ fstate' = [fstate EXCEPT ![g] = "Dead"]
          /\ payload' = payload /\ freed' = freed /\ holds' = [holds EXCEPT ![f] = @ \cup {g}]
      BY <1>6 DEF HeapSpawnBad, SpawnBadArguments, Budgeted
    <2>2. g \in Made
      BY <1>2, <2>1, ObjsAssumption DEF Made, Allocated, Objs, TypeOK
    <2>3. /\ holds' \in [Fibers -> SUBSET Objs] /\ holds'[f] = holds[f] \cup {g}
          /\ \A h \in Fibers : h # f => holds'[h] = holds[h]
      BY <1>1, <2>1 DEF Objs
    <2> QED BY <1>1, <1>3, <2>1, <2>2, <2>3 DEF References
  <1>7. ASSUME NEW f \in Fibers, NEW p \in Futures, NEW kind \in FutureKinds,
               NEW items \in Items(kind), HeapCreate(f, p, kind, items)
        PROVE  References
    <2>1. PICK v : /\ v \in (IF kind = "sleep" THEN Something(f) ELSE {{}})
                   /\ payload' = [payload EXCEPT ![p] = v]
      BY <1>7 DEF HeapCreate
    <2>2. /\ Executing(f) /\ fut[p].kind = "none"
          /\ fut' = [fut EXCEPT ![p] = [kind |-> kind, of |-> items]]
          /\ freed' = freed /\ holds' = [holds EXCEPT ![f] = @ \cup {p}]
      BY <1>7 DEF HeapCreate, CreateFuture, Budgeted
    <2>3. v \subseteq holds[f]
      BY <2>1 DEF Something
    <2>4. p \in Made /\ Allocated(p)'
      <3>1. fut'[p].kind = kind
        BY <1>2, <2>2 DEF TypeOK
      <3>2. kind # "none"
        BY ScriptAssumption DEF Kinds
      <3> QED BY <2>2, <3>1, <3>2, ObjsAssumption DEF Made, Allocated, Objs
    <2>5. /\ holds' \in [Fibers -> SUBSET Objs] /\ holds'[f] = holds[f] \cup {p}
          /\ \A h \in Fibers : h # f => holds'[h] = holds[h]
      BY <1>1, <2>2 DEF Objs
    <2>6. /\ payload' \in [Objs -> SUBSET Objs] /\ payload'[p] \subseteq Offered
          /\ \A o \in Objs : o # p => payload'[o] = payload[o]
      BY <1>1, <1>3, <2>1, <2>2, <2>3 DEF Objs
    <2> QED BY <1>1, <1>3, <2>2, <2>4, <2>5, <2>6 DEF References
  <1>8. ASSUME NEW f \in Fibers, NEW x, HeapAwait(f, x) PROVE References
    <2>1. UNCHANGED heapVars
      BY <1>8 DEF HeapAwait, heapVars
    <2> QED BY <2>1, NothingMoved
  <1>9. ASSUME NEW f \in Fibers, HeapReturn(f) \/ HeapYield(f) PROVE References
    <2>1. PICK v \in Something(f) : payload' = payload \/ payload' = [payload EXCEPT ![f] = v]
      BY <1>9 DEF HeapReturn, HeapYield
    <2>2. Executing(f) /\ freed' = freed /\ holds' = holds
      BY <1>9 DEF HeapReturn, HeapYield, Return, Yield, Budgeted
    <2>3. v \subseteq Offered
      BY <1>3, <2>2 DEF Something
    <2>4. /\ payload' \in [Objs -> SUBSET Objs] /\ payload'[f] \subseteq payload[f] \cup Offered
          /\ \A o \in Objs : o # f => payload'[o] = payload[o]
      BY <1>1, <2>1, <2>3 DEF Objs
    <2> QED BY <1>1, <1>3, <2>2, <2>4 DEF References
  <1> QED BY <1>4, <1>5, <1>6, <1>7, <1>8, <1>9 DEF HeapInstructions

\* Every step that is no collection.
LEMMA StepsMove ==
  ASSUME SchedulingInv, KnownInv, AnswersInv, RefsInv, Careless = {}, [HeapNext]_hvars
  PROVE  References \/ CollectGarbage
  <1>1. CASE UNCHANGED heapVars
    BY <1>1, NothingMoved
  <1>2. CASE HandToFiber \/ HandToFuture \/ ClearStack \/ ResetPromise
    BY <1>2, CallsMove
  <1>3. CASE HeapInstructions
    BY <1>3, InstructionsMove
  <1> QED BY <1>1, <1>2, <1>3 DEF HeapNext, HeapStep, hvars, heapVars

\* What a future is made of, its maker holds.
LEMMA FuturesMade ==
  ASSUME FutureKinds \cap {"gather", "race"} = {}, SchedulingInv, RefsInv, [HeapNext]_hvars,
         NEW p \in Futures
  PROVE  \/ fut'[p] = fut[p]
         \/ /\ fut[p].kind = "none" /\ fut'[p].kind \in {"sleep", "timeout"}
            /\ fut'[p].of # <<>> => fut'[p].kind = "timeout" /\ Len(fut'[p].of) = 1
            /\ ToSet(fut'[p].of) \subseteq Offered \cup {None}
  <1> USE DEF promiseVars
  <1>1. CASE UNCHANGED hvars
    BY <1>1 DEF hvars, vars
  <1>2. CASE MovesNoReference
    <2>1. CASE Calls \/ Loop
      BY <2>1 DEF Calls, AwaitCall, DeliverToFiber, DeliverToFuture, Arrived, Settle, Woken,
                  Bump, MicroTask, ResumeAwaited, RaiseError, Kill, KillDead, Bury, Detach,
                  LoopTail, Leave, Loop, FireTimer, NextTask, SweepKeep, SweepErase,
                  SweepThrow, SweepDone
    <2>2. CASE \E f \in Fibers : \/ CallFunction(f) \/ CallBadArguments(f) \/ Throw(f)
                                 \/ TryBegin(f) \/ TryEnd(f)
      BY <2>2 DEF CallFunction, CallBadArguments, Throw, TryBegin, TryEnd
    <2> QED BY <1>2, <2>1, <2>2 DEF MovesNoReference, Calls
  <1>3. CASE HandToFiber \/ HandToFuture \/ ClearStack \/ ResetPromise
    BY <1>3 DEF HandToFiber, HandToFuture, ClearStack, ResetPromise, DeliverToFiber,
                DeliverToFuture, Bury, Detach
  <1>4. ASSUME NEW f \in Fibers, NEW q \in Futures, NEW kind \in FutureKinds,
               NEW items \in Items(kind), HeapCreate(f, q, kind, items)
        PROVE  \/ fut'[p] = fut[p]
               \/ /\ fut[p].kind = "none" /\ fut'[p].kind \in {"sleep", "timeout"}
                  /\ fut'[p].of # <<>> => fut'[p].kind = "timeout" /\ Len(fut'[p].of) = 1
                  /\ ToSet(fut'[p].of) \subseteq Offered \cup {None}
    <2>1. /\ Executing(f) /\ fut[q].kind = "none"
          /\ fut' = [fut EXCEPT ![q] = [kind |-> kind, of |-> items]]
          /\ \A i \in DOMAIN items : items[i] \in holds[f] \cup {None}
      BY <1>4 DEF HeapCreate, CreateFuture, Budgeted
    <2>2. CASE p # q
      BY <2>1, <2>2
    <2>3. CASE p = q
      <3>1. fut'[p].kind = kind /\ fut'[p].of = items
        BY <2>1, <2>3 DEF SchedulingInv, TypeOK
      <3>2. kind \in {"sleep", "timeout"}
        BY ScriptAssumption DEF Kinds
      <3>3. PICK n \in Arity(kind) : items \in [1..n -> Objs \cup {None}]
        BY DEF Items
      <3>4. n \in {0, 1} /\ (n = 1 => kind = "timeout")
        BY <3>2, <3>3 DEF Arity
      <3>5. n = 0 => items = <<>>
        BY <3>3
      <3>6. n = 1 => Len(items) = 1
        BY <3>3
      <3>7. ToSet(items) \subseteq Offered \cup {None}
        BY <2>1, OfferedFacts DEF ToSet
      <3> QED BY <2>1, <2>3, <3>1, <3>2, <3>4, <3>5, <3>6, <3>7
    <2> QED BY <2>2, <2>3
  <1>5. CASE \E f \in Fibers :
               \/ HeapReturn(f) \/ HeapYield(f)
               \/ \E g \in Fibers : HeapSpawn(f, g) \/ HeapSpawnBad(f, g)
               \/ \E x \in Objs \cup {None} : HeapAwait(f, x)
               \/ \E x \in Objs : Drop(f, x)
    BY <1>5 DEF HeapReturn, HeapYield, HeapSpawn, HeapSpawnBad, HeapAwait, Drop, Return,
                Yield, Spawn, SpawnBadArguments, Await, vars
  <1>6. CASE \E f \in Fibers : Evaluate(f)
    BY <1>6 DEF Evaluate
  <1>7. CASE CollectGarbage
    BY <1>7 DEF CollectGarbage
  <1> QED BY <1>1, <1>2, <1>3, <1>4, <1>5, <1>6, <1>7 DEF HeapNext, HeapStep, HeapInstructions

\* References lead to what is there.
LEMMA RefsNext ==
  ASSUME FutureKinds \cap {"gather", "race"} = {}, SchedulingInv, RefsInv, [HeapNext]_hvars,
         References
  PROVE  RefsInv'
  <1>1. Known \subseteq Known' /\ Made \subseteq Known' /\ Offered \subseteq Known'
    <2>1. Known \subseteq Known'
      BY AllocatedForGood DEF Known
    <2> QED BY <2>1, OfferedFacts DEF Made, Known
  <1>2. /\ \A o \in Objs : payload[o] \subseteq Known
        /\ \A f \in Fibers : holds[f] \subseteq Known
    BY DEF RefsInv
  <1>3. payload' \in [Objs -> SUBSET Known']
    BY <1>1, <1>2 DEF References
  <1>4. holds' \in [Fibers -> SUBSET Known']
    BY <1>1, <1>2 DEF References
  <1>5. ASSUME NEW o \in Objs, ~Allocated(o)' PROVE payload'[o] = {}
    <2>1. ~Allocated(o)
      BY <1>5, AllocatedForGood
    <2> QED BY <1>5, <2>1 DEF References, RefsInv
  <1>6. ASSUME NEW f \in Fibers, ~Allocated(f)' PROVE holds'[f] = {}
    <2>1. ~Allocated(f)
      BY <1>6, AllocatedForGood DEF Objs
    <2> QED BY <1>6, <2>1 DEF References, RefsInv
  <1>7. ASSUME NEW p \in Futures
        PROVE  /\ fut'[p].kind \in {"none", "sleep", "timeout"}
               /\ fut'[p].of # <<>> => fut'[p].kind = "timeout" /\ Len(fut'[p].of) = 1
    BY FuturesMade DEF RefsInv
  <1> QED BY <1>3, <1>4, <1>5, <1>6, <1>7 DEF RefsInv

\* A waker is stored by the executed fiber, or by a future, with a promise that
\* has no result yet.
LEMMA WakersStep ==
  ASSUME SchedulingInv, AnswersInv, [Next]_vars, NEW o \in Objs
  PROVE  \/ wakers'[o] = wakers[o]
         \/ wakers'[o] = <<>>
         \/ /\ ~HasResult(o)
            /\ \E by \in Objs : /\ wakers'[o] = Append(wakers[o], by)
                                /\ by \in Fibers => Executing(by)
  <1> USE DEF promiseVars
  <1>0. wakers \in [Objs -> Seq(Objs)]
    BY DEF SchedulingInv, TypeOK
  <1>1. ASSUME NEW x, NEW by \in Objs, NEW ready, NEW pending,
               by \in Fibers => Executing(by), AwaitOn(x, by, ready, pending)
        PROVE  \/ wakers'[o] = wakers[o]
               \/ /\ ~HasResult(o)
                  /\ \E b \in Objs : /\ wakers'[o] = Append(wakers[o], b)
                                     /\ b \in Fibers => Executing(b)
    <2>1. CASE wakers' = wakers
      BY <2>1
    <2>2. CASE x \in Objs /\ ~HasResult(x) /\ wakers' = [wakers EXCEPT ![x] = Append(@, by)]
      <3>1. CASE o = x
        <4>1. wakers'[o] = Append(wakers[o], by)
          BY <1>0, <2>2, <3>1
        <4> QED BY <1>1, <2>2, <3>1, <4>1
      <3>2. CASE o # x
        BY <1>0, <2>2, <3>2
      <3> QED BY <3>1, <3>2
    <2> QED BY <1>1, <2>1, <2>2 DEF AwaitOn
  <1>2. CASE AwaitCall
    <2>1. PICK b : b = Top.by
      OBVIOUS
    <2>2. b \in Futures
      BY <1>2, <2>1, TopFacts DEF AwaitCall, CallOK
    <2>3. b \in Objs /\ b \notin Fibers /\ AwaitOn(Top.who, b, Rest, Rest)
      BY <1>2, <2>1, <2>2, ObjsAssumption DEF AwaitCall, Objs
    <2> QED BY <1>1, <2>3
  <1>3. ASSUME NEW f \in Fibers, NEW x, Await(f, x)
        PROVE  \/ wakers'[o] = wakers[o]
               \/ /\ ~HasResult(o)
                  /\ \E b \in Objs : /\ wakers'[o] = Append(wakers[o], b)
                                     /\ b \in Fibers => Executing(b)
    <2>1. /\ f \in Objs /\ Executing(f)
          /\ AwaitOn(x, f, <<Do("tail", f)>>, <<Do("leave", f)>>)
      BY <1>3 DEF Await, Budgeted, Objs
    <2> QED BY <1>1, <2>1
  <1>4. CASE Woken \/ Detach
    <2>1. wakers' = [wakers EXCEPT ![Top.who] = <<>>]
      BY <1>4 DEF Woken, Detach
    <2> QED BY <1>0, <2>1
  <1>5. CASE Calls /\ ~AwaitCall /\ ~Woken /\ ~Detach
    BY <1>5 DEF Calls, DeliverToFiber, DeliverToFuture, Arrived, Settle, Bump, MicroTask,
                ResumeAwaited, RaiseError, Kill, KillDead, Bury, LoopTail, Leave
  <1>6. CASE Loop
    BY <1>6 DEF Loop, FireTimer, NextTask, SweepKeep, SweepErase, SweepThrow, SweepDone
  <1>7. CASE \E f \in Fibers :
               \/ CallFunction(f) \/ CallBadArguments(f) \/ Throw(f)
               \/ TryBegin(f) \/ TryEnd(f) \/ Return(f) \/ Yield(f) \/ Evaluate(f)
               \/ \E g \in Fibers : Spawn(f, g) \/ SpawnBadArguments(f, g)
               \/ \E p \in Futures, kind \in FutureKinds :
                    \E items \in Items(kind) : CreateFuture(f, p, kind, items)
    BY <1>7 DEF CallFunction, CallBadArguments, Throw, TryBegin, TryEnd, Return, Yield,
                Evaluate, Spawn, SpawnBadArguments, CreateFuture
  <1>8. CASE UNCHANGED vars
    BY <1>8 DEF vars
  <1> QED BY <1>2, <1>3, <1>4, <1>5, <1>6, <1>7, <1>8 DEF Next, Step, Instructions

\* What has been deleted stays as it is.
LEMMA FreedNext ==
  ASSUME HeapInv, KnownInv, AnswersInv, FreedInv, [Next]_vars, freed' = freed
  PROVE  FreedInv'
  <1>1. SchedulingInv
    BY DEF HeapInv
  <1>2. \A f \in freed \cap Fibers : fstate'[f] = "Dead"
    <2>1. CASE UNCHANGED vars
      BY <2>1 DEF vars, fiberVars, FreedInv
    <2> QED BY <1>1, <2>1, DeadStep DEF FreedInv
  <1>3. ASSUME NEW o \in freed PROVE HasResult(o)' /\ wakers'[o] = <<>>
    <2>1. o \in Objs /\ HasResult(o) /\ wakers[o] = <<>>
      BY DEF HeapInv, FreedInv
    <2>2. pstat'[o] = pstat[o]
      BY <1>1, <2>1, ResultStep DEF FreedInv
    <2>3. HasResult(o)'
      BY <2>1, <2>2 DEF HasResult
    <2>4. wakers'[o] = <<>>
      BY <1>1, <2>1, WakersStep
    <2> QED BY <2>3, <2>4
  <1> QED BY <1>2, <1>3 DEF FreedInv

\* last_ comes from fibres_.
LEMMA LastStep ==
  ASSUME SchedulingInv, [Next]_vars
  PROVE  last' = last \/ last' \in ToSet(fibres)
  <1> USE DEF sweepVars
  <1>1. CASE SweepErase
    <2>1. fibres \in Seq(Fibers) /\ scan \in 1..Len(fibres)
      BY <1>1 DEF SweepErase, SchedulingInv, TypeOK
    <2>2. last' = last \/ last' = fibres[scan]
      BY <1>1 DEF SweepErase
    <2> QED BY <2>1, <2>2, ElementsOf
  <1>2. CASE Calls
    BY <1>2 DEF Calls, AwaitCall, DeliverToFiber, DeliverToFuture, Arrived, Settle, Woken,
                Bump, MicroTask, ResumeAwaited, RaiseError, Kill, KillDead, Bury, Detach,
                LoopTail, Leave
  <1>3. CASE Loop /\ ~SweepErase
    BY <1>3 DEF Loop, FireTimer, NextTask, SweepKeep, SweepThrow, SweepDone
  <1>4. CASE Instructions
    BY <1>4 DEF Instructions, CallFunction, CallBadArguments, Throw, TryBegin, TryEnd,
                Return, Yield, Spawn, SpawnBadArguments, CreateFuture, Await
  <1>5. CASE \E f \in Fibers : Evaluate(f)
    BY <1>5 DEF Evaluate
  <1>6. CASE UNCHANGED vars
    BY <1>6 DEF vars
  <1> QED BY <1>1, <1>2, <1>3, <1>4, <1>5, <1>6 DEF Next, Step

\* A fiber awaits what it holds.
LEMMA WaitingStep ==
  ASSUME SchedulingInv, [HeapNext]_hvars, NEW f \in Fibers
  PROVE  waiting'[f] = waiting[f] \/ waiting'[f] = None \/ waiting'[f] \in holds[f]
  <1> USE DEF fiberVars
  <1>0. waiting \in [Fibers -> Objs \cup {None}]
    BY DEF SchedulingInv, TypeOK
  <1>1. CASE UNCHANGED hvars
    BY <1>1 DEF hvars, vars
  <1>2. CASE MovesNoReference
    <2>1. CASE Calls /\ ~DeliverToFiber
      BY <2>1 DEF Calls, AwaitCall, DeliverToFuture, Arrived, Settle, Woken, Bump, MicroTask,
                  ResumeAwaited, RaiseError, Kill, KillDead, Bury, Detach, LoopTail, Leave
    <2>2. CASE Loop
      BY <2>2 DEF Loop, FireTimer, NextTask, SweepKeep, SweepErase, SweepThrow, SweepDone
    <2>3. CASE \E g \in Fibers : \/ CallFunction(g) \/ CallBadArguments(g) \/ Throw(g)
                                 \/ TryBegin(g) \/ TryEnd(g)
      BY <2>3 DEF CallFunction, CallBadArguments, Throw, TryBegin, TryEnd
    <2>4. CASE DeliverToFiber
      BY <1>0, <2>4 DEF DeliverToFiber
    <2> QED BY <1>2, <2>1, <2>2, <2>3, <2>4 DEF MovesNoReference, Calls
  <1>3. CASE HandToFiber
    BY <1>0, <1>3 DEF HandToFiber, DeliverToFiber
  <1>4. CASE HandToFuture \/ ClearStack \/ ResetPromise
    BY <1>4 DEF HandToFuture, ClearStack, ResetPromise, DeliverToFuture, Bury, Detach
  <1>5. ASSUME NEW g \in Fibers, NEW x, HeapAwait(g, x)
        PROVE  waiting'[f] = waiting[f] \/ waiting'[f] = None \/ waiting'[f] \in holds[f]
    <2>1. waiting' = [waiting EXCEPT ![g] = x] /\ x \in holds[g] \cup {None}
      BY <1>5 DEF HeapAwait, Await
    <2> QED BY <1>0, <2>1
  <1>6. CASE \E g \in Fibers :
               \/ HeapReturn(g) \/ HeapYield(g)
               \/ \E h \in Fibers : HeapSpawn(g, h) \/ HeapSpawnBad(g, h)
               \/ \E p \in Futures, kind \in FutureKinds :
                    \E items \in Items(kind) : HeapCreate(g, p, kind, items)
               \/ \E x \in Objs : Drop(g, x)
    BY <1>6 DEF HeapReturn, HeapYield, HeapSpawn, HeapSpawnBad, HeapCreate, Drop, Return,
                Yield, Spawn, SpawnBadArguments, CreateFuture, vars
  <1>7. CASE \E g \in Fibers : Evaluate(g)
    BY <1>7 DEF Evaluate
  <1>8. CASE CollectGarbage
    BY <1>8 DEF CollectGarbage
  <1> QED BY <1>1, <1>2, <1>3, <1>4, <1>5, <1>6, <1>7, <1>8
          DEF HeapNext, HeapStep, HeapInstructions

\* What a call leaves to be executed was there before, or it has put it there.
LEMMA NewCalls ==
  ASSUME TypeOK, agenda # <<>>, NEW C, NEW X \in Seq(C), agenda' = X \o Rest,
         NEW c \in Entries'
  PROVE  c \in Entries \/ c \in C
  <1>1. agenda \in Seq(C \cup CallSet) /\ X \in Seq(C \cup CallSet)
    BY DEF TypeOK
  <1>2. PICK H : H = <<Head(agenda)>>
    OBVIOUS
  <1>3. Rest \in Seq(C \cup CallSet) /\ agenda = H \o Rest /\ H \in Seq(C \cup CallSet)
    BY <1>1, <1>2, HeadTailProperties, HeadTailConcat DEF Rest
  <1>4. ToSet(agenda) = ToSet(H) \cup ToSet(Rest)
    BY <1>3, ConcatSet
  <1>5. ToSet(agenda') = ToSet(X) \cup ToSet(Rest)
    BY <1>1, <1>3, ConcatSet
  <1>6. ToSet(X) \subseteq C
    BY ElementsOf
  <1> QED BY <1>4, <1>5, <1>6 DEF Entries

\* The same when nothing is put there.
LEMMA NoNewCalls ==
  ASSUME TypeOK, agenda # <<>>, agenda' = Rest
  PROVE  Entries' \subseteq Entries
  <1>1. PICK X : X = <<>>
    OBVIOUS
  <1>2. Rest \in Seq(CallSet)
    BY HeadTailProperties DEF TypeOK, Rest
  <1>3. X \in Seq({}) /\ agenda' = X \o Rest
    BY <1>1, <1>2
  <1> QED BY <1>3, NewCalls

\* All the calls in progress come from where its new head and its rest do.
LEMMA JoinedCalls ==
  ASSUME NEW C, NEW X \in Seq(C), NEW R \in Seq(CallSet), agenda' = X \o R, NEW c \in Entries'
  PROVE  c \in C \/ c \in ToSet(R)
  <1>1. X \in Seq(C \cup CallSet) /\ R \in Seq(C \cup CallSet)
    OBVIOUS
  <1>2. ToSet(agenda') = ToSet(X) \cup ToSet(R)
    BY <1>1, ConcatSet
  <1>3. ToSet(X) \subseteq C
    BY ElementsOf
  <1> QED BY <1>2, <1>3 DEF Entries

\* Whoever awaits x is answered by x, or by nobody.
LEMMA AwaitDelivers ==
  ASSUME TypeOK, NEW x, NEW by \in Objs, NEW ready \in Seq(CallSet), NEW pending \in Seq(CallSet),
         x \in Objs \cup {None}, AwaitOn(x, by, ready, pending),
         NEW d \in Entries', d.op = "deliver"
  PROVE  d \in ToSet(ready) \/ d \in ToSet(pending) \/ d.by \in {x, None}
  <1>1. CASE x = None
    <2>1. PICK a : a = Call("deliver", by, None, "err")
      OBVIOUS
    <2>2. a.by = None /\ a \in CallSet
      BY <2>1 DEF Call, CallSet, CallOps, FiberOps, Results
    <2>3. agenda' = <<a>> \o ready
      BY <1>1, <2>1, ObjsAssumption DEF AwaitOn
    <2>4. PICK X : X = <<a>>
      OBVIOUS
    <2>5. X \in Seq({a}) /\ agenda' = X \o ready
      BY <2>3, <2>4
    <2>6. d \in {a} \/ d \in ToSet(ready)
      BY <2>5, JoinedCalls
    <2> QED BY <2>2, <2>6
  <1>2. CASE x \in Objs /\ HasResult(x)
    <2>1. PICK a, b : a = Call("deliver", by, x, ResultOf(x)) /\ b = Do("bump", x)
      OBVIOUS
    <2>2. a.by = x /\ b.by = None /\ a \in CallSet /\ b \in CallSet
      BY <1>2, <2>1 DEF Call, Do, CallSet, CallOps, FiberOps, Results, ResultOf
    <2>3. agenda' = <<a, b>> \o ready
      BY <1>2, <2>1, ObjsAssumption DEF AwaitOn
    <2>4. PICK X : X = <<a, b>>
      OBVIOUS
    <2>5. X \in Seq({a, b}) /\ agenda' = X \o ready
      BY <2>3, <2>4
    <2>6. d \in {a, b} \/ d \in ToSet(ready)
      BY <2>5, JoinedCalls
    <2> QED BY <2>2, <2>6
  <1>3. CASE x \in Objs /\ ~HasResult(x)
    <2>1. PICK X \in Seq(CallSet) : agenda' = X \o pending /\ AwaitCalls(x, X)
      BY <1>3, PendingAwait
    <2>2. ToSet(agenda') = ToSet(X) \cup ToSet(pending)
      BY <2>1, ConcatSet
    <2>3. ASSUME d \in ToSet(X) PROVE FALSE
      <3>1. PICK i \in 1..Len(X) : X[i] = d
        BY <2>1, <2>3, ElementsOf
      <3> QED BY <2>1, <3>1 DEF AwaitCalls
    <2> QED BY <2>2, <2>3 DEF Entries
  <1> QED BY <1>1, <1>2, <1>3

\* What has been deleted is not idle.
LEMMA IdleIsThere ==
  ASSUME FreedInv, NEW x, Idle(x)
  PROVE  x \notin freed
  BY DEF FreedInv, Idle

\* Of the calls, only the end of an await and a promise that gets its result
\* bring new answers.
LEMMA CallsDeliver ==
  ASSUME SchedulingInv, AnswersInv, TurnsInv, FreedInv, HeapInv, Calls,
         NEW d \in Entries', d.op = "deliver"
  PROVE  d \in Entries \/ d.by \notin freed
  <1>0. TypeOK /\ None \notin freed
    BY ObjsAssumption DEF SchedulingInv, HeapInv
  <1>1. CASE AwaitCall
    <2>1. /\ TypeOK /\ agenda # <<>> /\ Top \in CallSet /\ CallOK(Top) /\ TurnOK(Top)
          /\ Rest \in Seq(CallSet) /\ Top.op = "await"
      BY <1>1, TopTurn DEF AwaitCall
    <2>2. PICK x, by : x = Top.who /\ by = Top.by
      OBVIOUS
    <2>3. x \in Objs \cup {None} /\ by \in Objs /\ AwaitOn(x, by, Rest, Rest)
      BY <1>1, <2>1, <2>2 DEF AwaitCall, CallSet
    <2>4. x \notin freed
      BY <2>1, <2>2, IdleIsThere DEF TurnOK, Quiet
    <2>5. d \in ToSet(Rest) \/ d.by \in {x, None}
      BY <1>0, <2>1, <2>3, AwaitDelivers
    <2>6. ToSet(Rest) \subseteq Entries
      <3>1. PICK H : H = <<Top>>
        OBVIOUS
      <3>2. agenda = H \o Rest /\ H \in Seq(CallSet)
        BY <2>1, <3>1, HeadTailProperties, HeadTailConcat DEF Top, Rest, TypeOK
      <3> QED BY <2>1, <3>2, ConcatSet DEF Entries
    <2> QED BY <1>0, <2>4, <2>5, <2>6
  <1>2. CASE Settle
    <2>1. TypeOK /\ agenda # <<>> /\ Top \in CallSet /\ Rest \in Seq(CallSet) /\ Top.op = "settle"
          /\ <<>> \o Rest = Rest /\ <<>> \in Seq(CallSet)
      BY <1>2, TopFacts DEF Settle
    <2>2. PICK o \in Objs, r \in Results : o = Top.who /\ r = Top.res
      BY <2>1 DEF CallSet
    <2>3. CASE agenda' = Rest
      BY <2>1, <2>3, NoNewCalls
    <2>4. CASE ~HasResult(o) /\ agenda' = WakeAll(o, r) \o Rest
      <3>1. o \notin freed
        BY <2>4 DEF FreedInv
      <3>2. PICK D : D = [k \in 1..Len(wakers[o]) |-> Call("deliver", wakers[o][k], o, r)]
        OBVIOUS
      <3>3. PICK w : w = Do("woken", o)
        OBVIOUS
      <3>4. wakers[o] \in Seq(Objs)
        BY <2>1 DEF TypeOK
      <3>5. D \in Seq(CallSet) /\ \A k \in 1..Len(D) : D[k].by = o
        <4>1. \A k \in 1..Len(wakers[o]) :
                Call("deliver", wakers[o][k], o, r) \in CallSet
                /\ Call("deliver", wakers[o][k], o, r).by = o
          BY <3>4 DEF CallSet, Call, CallOps, FiberOps
        <4>2. D \in Seq(CallSet) /\ Len(D) = Len(wakers[o])
          BY <3>2, <3>4, <4>1, IsASeq
        <4> QED BY <3>2, <4>1, <4>2
      <3>6. w \in CallSet /\ w.op = "woken"
        BY <3>3 DEF CallSet, Call, Do, CallOps, FiberOps, Results
      <3>7. PICK W : W = <<w>>
        OBVIOUS
      <3>8. W \in Seq({w}) /\ W \in Seq(CallSet)
        BY <3>6, <3>7
      <3>9. agenda' = (D \o W) \o Rest
        BY <2>4, <3>2, <3>3, <3>7 DEF WakeAll
      <3>10. PICK C : C = {c \in CallSet : c.op = "deliver" => c.by = o}
        OBVIOUS
      <3>11. D \in Seq(C) /\ W \in Seq(C)
        <4>1. \A k \in 1..Len(D) : D[k] \in C
          BY <3>5, <3>10
        <4>2. w \in C
          BY <3>6, <3>10
        <4>3. D \in [1..Len(D) -> C] /\ Len(D) \in Nat
          BY <3>5, <4>1
        <4> QED BY <3>7, <4>2, <4>3
      <3>12. D \o W \in Seq(C)
        BY <3>11, ConcatProperties
      <3>13. d \in Entries \/ d \in C
        BY <2>1, <3>9, <3>12, NewCalls
      <3> QED BY <3>1, <3>10, <3>13
    <2> QED BY <1>2, <2>2, <2>3, <2>4 DEF Settle
  <1>3. CASE Woken \/ Bump \/ MicroTask \/ ResumeAwaited \/ Bury \/ Detach \/ Leave
    <2>1. agenda # <<>> /\ agenda' = Rest
      BY <1>3 DEF Woken, Bump, MicroTask, ResumeAwaited, Bury, Detach, Leave, Running
    <2> QED BY <1>0, <2>1, NoNewCalls
  <1>4. CASE KillDead
    BY <1>4 DEF KillDead, Entries, ToSet
  <1>5. CASE DeliverToFiber
    <2>1. PICK f, o : f = Top.who /\ o = Top.by
      OBVIOUS
    <2>2. PICK a, b, c : a = Do("error", f) /\ b = Do("micro", f) /\ c = Do("task", o)
      OBVIOUS
    <2>3. a.op # "deliver" /\ b.op # "deliver" /\ c.op # "deliver"
      BY <2>2 DEF Do, Call
    <2>4. PICK A, B, C : /\ A = (IF Top.res = "err" THEN <<a>> ELSE <<>>)
                         /\ B = <<b>>
                         /\ C = (IF o \in Fibers THEN <<c>> ELSE <<>>)
      OBVIOUS
    <2>5. PICK S : S = {a, b, c}
      OBVIOUS
    <2>6. /\ <<a>> \in Seq({a, b, c}) /\ <<b>> \in Seq({a, b, c})
          /\ <<c>> \in Seq({a, b, c}) /\ <<>> \in Seq({a, b, c})
      OBVIOUS
    <2>7. A \in Seq(S) /\ B \in Seq(S) /\ C \in Seq(S)
      BY <2>4, <2>5, <2>6
    <2>8. A \o B \in Seq(S) /\ A \o B \o C \in Seq(S)
      BY <2>7, ConcatProperties
    <2>10. agenda # <<>> /\ agenda' = A \o B \o C \o Rest
      BY <1>5, <2>1, <2>2, <2>4 DEF DeliverToFiber, Running
    <2>11. d \in Entries \/ d \in S
      BY <1>0, <2>8, <2>10, NewCalls
    <2> QED BY <2>3, <2>5, <2>11
  <1>6. CASE DeliverToFuture
    <2>1. PICK a, b : a = Call("settle", Top.who, None, Top.res) /\ b = Do("arrived", Top.who)
      OBVIOUS
    <2>2. a.op # "deliver" /\ b.op # "deliver"
      BY <2>1 DEF Do, Call
    <2>3. PICK A, B : /\ A = (IF fut[Top.who].kind # "gather" \/ Top.res = "err" THEN <<a>> ELSE <<>>)
                      /\ B = (IF fut[Top.who].kind = "gather" THEN <<b>> ELSE <<>>)
      OBVIOUS
    <2>4. PICK S : S = {a, b}
      OBVIOUS
    <2>5. <<a>> \in Seq({a, b}) /\ <<b>> \in Seq({a, b}) /\ <<>> \in Seq({a, b})
      OBVIOUS
    <2>6. A \in Seq(S) /\ B \in Seq(S)
      BY <2>3, <2>4, <2>5
    <2>7. A \o B \in Seq(S)
      BY <2>6, ConcatProperties
    <2>9. agenda # <<>> /\ agenda' = A \o B \o Rest
      BY <1>6, <2>1, <2>3 DEF DeliverToFuture, Running
    <2>10. d \in Entries \/ d \in S
      BY <1>0, <2>7, <2>9, NewCalls
    <2> QED BY <2>2, <2>4, <2>10
  <1>7. CASE Arrived \/ RaiseError \/ Kill \/ LoopTail
    <2>0. PICK f : f = Top.who
      OBVIOUS
    <2>1. PICK a, b, c, e, g, h :
            /\ a = Do("settle", f) /\ b = Call("kill", f, None, "err")
            /\ c = Call("settle", f, None, Top.res) /\ e = Do("bury", f)
            /\ g = Do("kill", f) /\ h = Do("leave", f)
      OBVIOUS
    <2>2. /\ a.op # "deliver" /\ b.op # "deliver" /\ c.op # "deliver" /\ e.op # "deliver"
          /\ g.op # "deliver" /\ h.op # "deliver"
      BY <2>1 DEF Do, Call
    <2>3. PICK S : S = {a, b, c, e, g, h}
      OBVIOUS
    <2>4. /\ <<a>> \in Seq({a, b, c, e, g, h}) /\ <<b>> \in Seq({a, b, c, e, g, h})
          /\ <<c, e>> \in Seq({a, b, c, e, g, h}) /\ <<>> \in Seq({a, b, c, e, g, h})
          /\ <<g, h>> \in Seq({a, b, c, e, g, h}) /\ <<h>> \in Seq({a, b, c, e, g, h})
      OBVIOUS
    <2>5. PICK X \in Seq(S) :
            agenda' = X \o Rest \/ agenda' = Rest \/ agenda' = X
      BY <1>7, <2>0, <2>1, <2>3, <2>4 DEF Arrived, RaiseError, Kill, LoopTail
    <2>6. agenda # <<>>
      BY <1>7 DEF Arrived, RaiseError, Kill, LoopTail, Running
    <2>7. CASE agenda' = X \o Rest
      BY <1>0, <2>2, <2>3, <2>5, <2>6, <2>7, NewCalls
    <2>8. CASE agenda' = Rest
      BY <1>0, <2>6, <2>8, NoNewCalls
    <2>9. CASE agenda' = X
      <3>1. Entries' \subseteq S
        BY <2>5, <2>9, ElementsOf DEF Entries
      <3> QED BY <2>2, <2>3, <3>1
    <2> QED BY <2>5, <2>7, <2>8, <2>9
  <1> QED BY <1>1, <1>2, <1>3, <1>4, <1>5, <1>6, <1>7 DEF Calls

\* Outside the calls, only an await of something that is there brings an answer.
LEMMA DeliversNext ==
  ASSUME HeapInv, AnswersInv, TurnsInv, FreedInv, Careless = {}, [HeapNext]_hvars,
         NEW d \in Entries', d.op = "deliver"
  PROVE  d \in Entries \/ d.by \notin freed
  <1> USE DEF HeapInv
  <1>0. TypeOK /\ None \notin freed /\ SchedulingInv
    BY ObjsAssumption DEF SchedulingInv
  <1>1. ASSUME NEW f, NEW x, NEW r, NEW op \in {"error", "kill", "settle"},
               NEW e \in {"tail", "leave"},
               \/ agenda' = agenda \/ agenda' = <<>>
               \/ agenda' = <<Do(op, f), Do(e, f)>>
               \/ agenda' = <<Do(op, f)>> \o <<Do(e, f)>>
               \/ agenda' = <<>> \o <<Do(e, f)>>
               \/ agenda' = <<Do("settle", f), Do("detach", f), Do("leave", f)>>
               \/ agenda' = <<Call("settle", x, None, r)>>
        PROVE  d \in Entries
    <2>1. PICK a, b, c, g, h : /\ a = Do(op, f) /\ b = Do(e, f) /\ c = Do("settle", f)
                               /\ g = Do("detach", f) /\ h = Do("leave", f)
      OBVIOUS
    <2>2. PICK k : k = Call("settle", x, None, r)
      OBVIOUS
    <2>3. /\ a.op # "deliver" /\ b.op # "deliver" /\ c.op # "deliver" /\ g.op # "deliver"
          /\ h.op # "deliver" /\ k.op # "deliver"
      BY <2>1, <2>2 DEF Do, Call
    <2>4. PICK S : S = {a, b, c, g, h, k}
      OBVIOUS
    <2>5. /\ <<>> \in Seq({a, b, c, g, h, k}) /\ <<a, b>> \in Seq({a, b, c, g, h, k})
          /\ <<c, g, h>> \in Seq({a, b, c, g, h, k}) /\ <<k>> \in Seq({a, b, c, g, h, k})
          /\ <<a>> \o <<b>> \in Seq({a, b, c, g, h, k})
          /\ <<>> \o <<b>> \in Seq({a, b, c, g, h, k})
      BY ConcatProperties
    <2>6. agenda' = agenda \/ agenda' \in Seq(S)
      BY <1>1, <2>1, <2>2, <2>4, <2>5
    <2>7. CASE agenda' \in Seq(S)
      <3>1. d \in S
        BY <2>7, ElementsOf DEF Entries
      <3> QED BY <2>3, <2>4, <3>1
    <2> QED BY <2>6, <2>7 DEF Entries
  <1>2. CASE UNCHANGED vars
    BY <1>2 DEF vars, Entries
  <1>3. CASE CollectGarbage
    BY <1>3 DEF CollectGarbage, Entries
  <1>4. CASE Calls
    BY <1>0, <1>4, CallsDeliver
  <1>5. CASE Loop
    <2>1. CASE FireTimer
      BY <1>1, <2>1 DEF FireTimer
    <2>2. CASE NextTask
      <3>1. PICK f : RunOrSkip(f) \/ Skip
        BY <2>2 DEF NextTask
      <3> QED BY <1>1, <3>1 DEF RunOrSkip, Execute, Skip
    <2>3. CASE SweepKeep \/ SweepErase \/ SweepThrow \/ SweepDone
      BY <1>1, <2>3 DEF SweepKeep, SweepErase, SweepThrow, SweepDone
    <2> QED BY <1>5, <2>1, <2>2, <2>3 DEF Loop
  <1>6. ASSUME NEW f \in Fibers,
               \/ Evaluate(f)
               \/ CallFunction(f) \/ CallBadArguments(f) \/ Throw(f)
               \/ TryBegin(f) \/ TryEnd(f) \/ Return(f) \/ Yield(f)
               \/ \E g \in Fibers : Spawn(f, g) \/ SpawnBadArguments(f, g)
               \/ \E p \in Futures, kind \in FutureKinds :
                    \E items \in Items(kind) : CreateFuture(f, p, kind, items)
        PROVE  d \in Entries
    BY <1>1, <1>6 DEF Evaluate, CallFunction, CallBadArguments, Throw, TryBegin, TryEnd,
                      Return, Yield, Spawn, SpawnBadArguments, CreateFuture
  <1>7. ASSUME NEW f \in Fibers, NEW x, Await(f, x), Patient(x)
        PROVE  d.by \notin freed
    <2>1. PICK R, P : R = <<Do("tail", f)>> /\ P = <<Do("leave", f)>>
      OBVIOUS
    <2>2. PICK t, l : t = Do("tail", f) /\ l = Do("leave", f)
      OBVIOUS
    <2>3. t.op = "tail" /\ l.op = "leave" /\ t \in CallSet /\ l \in CallSet
      BY <2>2, DoType DEF Do, Call, FiberOps
    <2>4. R \in Seq({t}) /\ P \in Seq({l}) /\ R \in Seq(CallSet) /\ P \in Seq(CallSet)
      BY <2>1, <2>2, <2>3
    <2>5. d \notin ToSet(R) /\ d \notin ToSet(P)
      BY <2>3, <2>4, ElementsOf
    <2>6. AwaitOn(x, f, R, P)
      BY <1>7, <2>1 DEF Await
    <2>7. x \in Objs /\ Idle(x) /\ f \in Objs
      BY <1>7 DEF Patient, Objs
    <2>8. d.by \in {x, None}
      BY <1>0, <2>4, <2>5, <2>6, <2>7, AwaitDelivers
    <2>9. x \notin freed
      BY <2>7, IdleIsThere
    <2> QED BY <1>0, <2>8, <2>9
  <1> QED BY <1>2, <1>3, <1>4, <1>5, <1>6, <1>7, CarefulSteps

\* What the steps of the runtime hand on has not been deleted.
LEMMA AliveNext ==
  ASSUME Careless = {}, FutureKinds \cap {"gather", "race"} = {},
         HeapInv, KnownInv, AnswersInv, TurnsInv, FreedInv, RefsInv, AliveInv,
         [HeapNext]_hvars, [Next]_vars, References
  PROVE  AliveInv'
  <1>1. /\ SchedulingInv /\ TypeOK /\ freed' = freed /\ \A o \in freed : o \in Objs /\ Allocated(o)
    BY DEF HeapInv, SchedulingInv, References
  <1>2. \A f \in Fibers : Executing(f) => f \notin freed
    BY <1>1, ExecutingFiber DEF FreedInv
  <1>3. Offered \cap freed = {} /\ Made \cap freed = {}
    <2>1. \A f \in Fibers : Executing(f) => holds[f] \cap freed = {}
      BY <1>2 DEF AliveInv, Objs
    <2>2. \A c \in Entries : c.op = "deliver" /\ c.by \in Objs => payload[c.by] \cap freed = {}
      BY DEF AliveInv
    <2> QED BY <1>1, <2>1, <2>2 DEF Offered, Made
  <1>4. \A o \in Objs \ freed : payload'[o] \cap freed = {}
    BY <1>3 DEF References, AliveInv
  <1>5. \A f \in Fibers \ freed : holds'[f] \cap freed = {}
    BY <1>3 DEF References, AliveInv, Objs
  <1>6. last' # None => payload'[last'] \cap freed = {}
    <2>1. CASE last' \in ToSet(fibres)
      <3>1. last' \in Objs /\ last' \notin freed
        BY <2>1 DEF HeapInv
      <3> QED BY <1>4, <3>1
    <2>2. CASE last' = last /\ last # None
      <3>1. last \in Objs /\ payload[last] \cap freed = {}
        BY <1>1, <2>2 DEF TypeOK, AliveInv, Objs
      <3>2. payload'[last] \subseteq payload[last] \cup Offered
        BY <3>1 DEF References
      <3> QED BY <1>3, <2>2, <3>1, <3>2
    <2> QED BY <1>1, <2>1, <2>2, LastStep
  <1>7. ASSUME NEW o \in Objs \ freed, NEW f \in ToSet(wakers'[o]) \cap Fibers
        PROVE  f \notin freed
    <2>1. CASE f \in ToSet(wakers[o])
      BY <2>1 DEF AliveInv
    <2>2. CASE f \notin ToSet(wakers[o])
      <3>1. wakers'[o] # <<>>
        BY DEF ToSet
      <3>2. PICK by \in Objs : wakers'[o] = Append(wakers[o], by) /\ (by \in Fibers => Executing(by))
        BY <1>1, <2>2, <3>1, WakersStep
      <3>3. wakers[o] \in Seq(Objs)
        BY <1>1 DEF TypeOK
      <3>4. f = by
        BY <2>2, <3>2, <3>3, ElementsOf
      <3> QED BY <1>2, <3>2, <3>4
    <2> QED BY <2>1, <2>2
  <1>8. ASSUME NEW p \in Futures \ freed PROVE ToSet(fut'[p].of) \cap freed = {}
    <2>1. CASE fut'[p] = fut[p]
      BY <2>1 DEF AliveInv, Objs
    <2>2. CASE ToSet(fut'[p].of) \subseteq Offered \cup {None}
      BY <1>1, <1>3, <2>2, ObjsAssumption
    <2> QED BY <1>1, <2>1, <2>2, FuturesMade
  <1>9. ASSUME NEW f \in Fibers, Blocked(f)' PROVE waiting'[f] \in holds'[f]
    <2>1. holds[f] \subseteq holds'[f]
      BY <1>9 DEF References
    <2>2. waiting'[f] # None
      BY <1>9 DEF Blocked
    <2>3. waiting'[f] \in holds[f]
      BY <1>1, <2>2, WaitingStep DEF AliveInv, Blocked
    <2> QED BY <2>1, <2>3
  <1>10. ASSUME NEW c \in Entries', c.op = "deliver" PROVE c.by \notin freed
    BY <1>10, DeliversNext DEF AliveInv
  <1>11. \A o \in Objs \ freed :
           /\ payload'[o] \cap freed = {}
           /\ ToSet(wakers'[o]) \cap Fibers \cap freed = {}
           /\ o \in Fibers => holds'[o] \cap freed = {}
           /\ o \in Futures => ToSet(fut'[o].of) \cap freed = {}
    BY <1>4, <1>5, <1>7, <1>8
  <1>12. \A f \in Fibers : Blocked(f)' => waiting'[f] \in holds'[f]
    BY <1>9
  <1>13. \A c \in Entries' : c.op = "deliver" => c.by \notin freed'
    BY <1>1, <1>10
  <1> QED BY <1>1, <1>6, <1>11, <1>12, <1>13 DEF AliveInv

\* A patient Await spares the blocked fibers, whatever AwaitsBlocked is.
LEMMA PatientAnswers ==
  ASSUME Careless = {}, SchedulingInv, AnswersInv, [HeapNext]_hvars, ~CollectGarbage
  PROVE  AnswersInv'
  <1>1. ASSUME NEW f \in Fibers, NEW x, Await(f, x), Patient(x)
        PROVE  x \in Objs /\ Spares(f, x)
    <2>1. PICK S \in SUBSET Objs :
            /\ x \in S
            /\ \A y \in S : Idle(y)
            /\ \A p \in S \cap Futures :
                 pstat[p] = "New" => \A i \in DOMAIN fut[p].of : fut[p].of[i] \in S
      BY <1>1 DEF Patient
    <2>2. fstate[f] = "Running"
      BY <1>1, ExecutingFiber DEF Await, Budgeted
    <2>3. \A g \in S \cap Fibers : g # f /\ waiting[g] = None
      BY <2>1, <2>2 DEF Idle
    <2> QED BY <2>1, <2>3 DEF Spares
  <1>2. \/ UNCHANGED vars \/ Calls \/ Loop
        \/ \E f \in Fibers : Evaluate(f) \/ OtherInstruction(f) \/ \E x : Await(f, x) /\ Patient(x)
    BY CarefulSteps DEF OtherInstruction
  <1> QED BY <1>1, <1>2, SparingStep

\* The invariant of careful scripts.
LEMMA CarefulNext ==
  ASSUME Careless = {}, FutureKinds \cap {"gather", "race"} = {}
  PROVE  CarefulInv /\ [HeapNext]_hvars => CarefulInv'
  <1> SUFFICES ASSUME CarefulInv, [HeapNext]_hvars PROVE CarefulInv'
    OBVIOUS
  <1>1. /\ HeapInv /\ KnownInv /\ AnswersInv /\ TurnsInv /\ LiveInv /\ FreedInv /\ RefsInv
        /\ AliveInv /\ SchedulingInv
    BY DEF CarefulInv, HeapInv
  <1>2. HeapInv'
    BY <1>1, HeapInvNext
  <1>3. TurnsInv'
    BY <1>1, TurnsNext
  <1>4. LiveInv'
    BY <1>1, LiveNext
  <1>5. CASE CollectGarbage
    <2>1. KnownInv' /\ AnswersInv'
      BY <1>1, <1>5, CollectKnown, CollectAnswers
    <2>2. FreedInv' /\ RefsInv' /\ AliveInv'
      BY <1>1, <1>5, CollectAlive
    <2> QED BY <1>2, <1>3, <1>4, <2>1, <2>2 DEF CarefulInv
  <1>6. CASE ~CollectGarbage
    <2>1. [Next]_vars /\ References
      BY <1>1, <1>6, HeapSteps, StepsMove
    <2>2. KnownInv' /\ AnswersInv'
      BY <1>1, <1>6, <2>1, KnownNext, PatientAnswers
    <2>3. FreedInv'
      BY <1>1, <2>1, FreedNext DEF References
    <2>4. RefsInv'
      BY <1>1, <2>1, RefsNext
    <2>5. AliveInv'
      BY <1>1, <2>1, AliveNext
    <2> QED BY <1>2, <1>3, <1>4, <2>2, <2>3, <2>4, <2>5 DEF CarefulInv
  <1> QED BY <1>5, <1>6

\* It holds before anything has run.
LEMMA CarefulInit == HeapInit => CarefulInv
  <1> SUFFICES ASSUME HeapInit PROVE CarefulInv
    OBVIOUS
  <1>1. Init /\ agenda = <<>> /\ fibres = <<>> /\ kept = <<>> /\ freed = {} /\ runq = <<>>
        /\ microq = <<>> /\ scan = 1 /\ phase = "host" /\ last = None
    BY DEF HeapInit, Init
  <1>2. ToSet(<<>>) = {} /\ DOMAIN <<>> = {}
    BY DEF ToSet
  <1>3. SchedulingInv /\ KnownInv /\ AnswersInv
    BY <1>1, SchedulingInit, ResultsInit, AnswersInit
  <1>4. HeapInv
    BY <1>1, <1>2, <1>3 DEF HeapInv
  <1>5. Entries = {}
    BY <1>1, <1>2 DEF Entries
  <1>6. TurnsInv
    BY <1>1, <1>2, <1>5 DEF TurnsInv, QueueInv, QueuedOnce, Queued
  <1>7. LiveInv
    BY <1>1, <1>2 DEF LiveInv, Init
  <1>8. FreedInv
    BY <1>1 DEF FreedInv
  <1>9. RefsInv
    BY DEF RefsInv, HeapInit, Init
  <1>10. AliveInv
    BY <1>1, <1>5 DEF AliveInv, Blocked, Init
  <1> QED BY <1>3, <1>4, <1>6, <1>7, <1>8, <1>9, <1>10 DEF CarefulInv

\* What it says of the pointers the machine may follow.
LEMMA CarefulFacts == CarefulInv => NothingDangles /\ AwaitedSurvives /\ QueueInv
  <1> SUFFICES ASSUME CarefulInv PROVE NothingDangles /\ AwaitedSurvives /\ QueueInv
    OBVIOUS
  <1>1. /\ HeapInv /\ AnswersInv /\ TurnsInv /\ FreedInv /\ AliveInv /\ TypeOK /\ None \notin freed
    BY ObjsAssumption DEF CarefulInv, HeapInv, SchedulingInv
  <1>2. ASSUME NEW f \in ToSet(runq) \cup ToSet(microq) PROVE f \notin freed
    <2>1. f \in Fibers
      <3>1. runq \in Seq(Fibers) /\ microq \in Seq(Fibers)
        BY <1>1 DEF TypeOK
      <3>2. f \in ToSet(runq) => f \in Fibers
        BY <3>1, ElementsOf
      <3>3. f \in ToSet(microq) => f \in Fibers
        BY <3>1, ElementsOf
      <3> QED BY <3>2, <3>3
    <2>2. fstate[f] = "Running"
      BY <1>1, <2>1 DEF TurnsInv, QueueInv, Queued
    <2> QED BY <1>1, <2>1, <2>2 DEF FreedInv
  <1>3. ASSUME NEW f \in Fibers PROVE waiting[f] \notin freed
    <2>1. CASE Blocked(f)
      <3>1. fstate[f] = "Suspended" /\ waiting[f] \in holds[f]
        BY <1>1, <2>1 DEF AnswersInv, BlockedInv, AliveInv
      <3>2. f \notin freed
        BY <1>1, <3>1 DEF FreedInv
      <3> QED BY <1>1, <3>1, <3>2 DEF AliveInv, Objs
    <2>2. CASE ~Blocked(f)
      BY <1>1, <2>2 DEF Blocked
    <2> QED BY <2>1, <2>2
  <1>4. \A p \in Futures \ freed : ToSet(fut[p].of) \cap freed = {}
    BY <1>1 DEF AliveInv, Objs
  <1>5. NothingDangles
    BY <1>1, <1>2 DEF NothingDangles, AliveInv
  <1>6. AwaitedSurvives
    BY <1>3, <1>4 DEF AwaitedSurvives
  <1> QED BY <1>1, <1>5, <1>6 DEF TurnsInv

\* For such scripts CarefulInv always holds: among other things a live fiber is in
\* fibres_ also while SweepDeadFibres is half-way, and what CollectGarbage has
\* deleted is a dead fiber or a settled promise that nothing in memory refers to.
THEOREM CarefulHeap ==
  ASSUME Careless = {}, FutureKinds \cap {"gather", "race"} = {}
  PROVE  HeapSpec => []CarefulInv
  BY CarefulInit, CarefulNext, PTL DEF HeapSpec

\* No pointer the machine may still follow leads to an object CollectGarbage has
\* deleted: neither one in the task queues, which the collector does not visit, nor
\* the last result, nor one on the stack of a fiber or in a promise still in memory.
THEOREM NothingIsDangling ==
  ASSUME Careless = {}, FutureKinds \cap {"gather", "race"} = {}
  PROVE  HeapSpec => []NothingDangles
  BY CarefulHeap, CarefulFacts, PTL

\* A collection takes no wake-up away: what a fiber is blocked on stays in memory,
\* and so does what a future still in memory waits for.
THEOREM AwaitedIsKept ==
  ASSUME Careless = {}, FutureKinds \cap {"gather", "race"} = {}
  PROVE  HeapSpec => []AwaitedSurvives
  BY CarefulHeap, CarefulFacts, PTL

\* No wake-up is lost and no waker is stale when the collector runs between the
\* turns: it rejects the promises it deletes, and none of them is one a fiber awaits.
THEOREM AnswersSurviveCollection ==
  ASSUME Careless = {}, FutureKinds \cap {"gather", "race"} = {}
  PROVE  HeapSpec => [](BlockedIsOwedAnswer /\ OneWakerPerAwait)
  <1>1. CarefulInv => AnswersInv
    BY DEF CarefulInv
  <1>2. AnswersInv => BlockedIsOwedAnswer
    BY DEF AnswersInv, BlockedInv, BlockedIsOwedAnswer, Blocked, Delivers, Entries, ToSet
  <1> QED BY <1>1, <1>2, CarefulHeap, WakersCounted, PTL

\* A fiber is at most once in the Scheduler's queues, and only while it is Running and
\* not the one being executed: none dies at one entry and is collected under another.
THEOREM QueuedOnceOnly ==
  ASSUME Careless = {}, FutureKinds \cap {"gather", "race"} = {}
  PROVE  HeapSpec => []QueueInv
  BY CarefulHeap, CarefulFacts, PTL
=============================================================================
