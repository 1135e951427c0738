------------------------------ MODULE FiberHeap ------------------------------
(***************************************************************************)
(* The garbage collector of the serilang virtual machine (src/src/vm/gc.cpp*)
(* and VM::CollectGarbage) together with the fiber runtime that runs over  *)
(* it.  FiberRuntime supplies every step of the machine; here each of them *)
(* also moves references, and between two turns of the loop the collector  *)
(* may free whatever it cannot reach.                                      *)
(*                                                                         *)
(* What makes this hard is that the runtime keeps pointers the collector   *)
(* does not know: the two task queues and the wakers hold plain Fiber *,   *)
(* the timers and the wakers of futures hold only weak references, and an  *)
(* awaited object has left the operand stack of the fiber that waits for   *)
(* it.                                                                     *)
(*                                                                         *)
(* Abstractions.  `holds' is everything a fiber's operand stack, locals    *)
(* and captured variables refer to.  Lists, functions, globals and modules *)
(* are stable roots and not modelled.  How much has been allocated is      *)
(* arbitrary, so the loop may collect at any turn.                         *)
(***************************************************************************)
EXTENDS FiberInvariants

CONSTANT
  Careless    \* what scripts do besides the careful minimum

\* "temporary": await the only reference to an object, as in await Sleep(1);
\* "hasty": await what is settled, queued, or no object at all.
Habits == {"temporary", "hasty"}

ASSUME CarelessAssumption == Careless \subseteq Habits

VARIABLES
  holds,      \* what the fiber's stack and locals refer to
  payload,    \* Promise::roots: the objects among the promise's result
  freed       \* history: what the collector has deleted

heapVars == <<holds, payload, freed>>
hvars == <<vars, heapVars>>

HeapInit ==
  /\ Init
  /\ holds = [f \in Fibers |-> {}]
  /\ payload = [o \in Objs |-> {}]
  /\ freed = {}

-----------------------------------------------------------------------------
(* The collector.                                                          *)

\* Mutant of Refs: Future::MarkRoots looks at nothing.
RefsOfFibers(o) == IF o \in Fibers THEN holds[o] \cup payload[o] ELSE {}

\* Mutant of Refs: the results of promises are not looked at.
RefsOfStacks(o) ==
  IF o \in Fibers THEN holds[o]
  ELSE IF fut[o].kind = "timeout" THEN ToSet(fut[o].of) \cap Objs ELSE {}

\* Fiber::MarkRoots and Future::MarkRoots.  Timeout roots what it awaits and
\* Sleep its result; what Gather and Race await is captured by their
\* initial_await only.
Refs(o) ==
  payload[o] \cup
    (IF o \in Fibers THEN holds[o]
     ELSE IF fut[o].kind = "timeout" THEN ToSet(fut[o].of) \cap Objs ELSE {})

\* Mutant of Roots: the fibers are found through last_ only.
RootsOfResult == IF last = None THEN {} ELSE payload[last]

\* The roots of VM::CollectGarbage.
Roots == ToSet(fibres) \cup (IF last = None THEN {} ELSE payload[last])

Allocations == {o \in Objs : Allocated(o)} \ freed

\* GCVisitor::MarkSub marks the least set that has the roots and what its
\* members refer to.
Marked ==
  {o \in Allocations :
     \A S \in SUBSET Allocations :
       (Roots \cap Allocations \subseteq S
          /\ \A x \in S : Refs(x) \cap Allocations \subseteq S) => o \in S}

\* Sweep.  A promise goes with the object that owns it: its wakers are never
\* called, its timer finds the weak reference expired, and it is not counted
\* as pending any more.
Sweep(dead) ==
  /\ freed' = freed \cup dead
  /\ pstat' = [o \in Objs |-> IF o \in dead THEN "Rejected" ELSE pstat[o]]
  /\ wakers' = [o \in Objs |-> IF o \in dead THEN <<>> ELSE wakers[o]]

\* Run calls CollectGarbage after a turn and before SweepDeadFibres.
CollectGarbage ==
  /\ phase = "sweep" /\ scan = 1 /\ kept = <<>>
  /\ Allocations # Marked
  /\ Sweep(Allocations \ Marked)
  /\ UNCHANGED <<fiberVars, told, fut, left, schedVars, sweepVars, loopVars,
                 agenda, holds, payload>>

-----------------------------------------------------------------------------
(* The steps of the machine, with the references they move.                *)

\* One object a fiber holds, or a value that is none.
Something(f) == {{}} \cup {{x} : x \in holds[f]}

Answer(o) == IF o = None THEN {} ELSE payload[o]

\* The value of the answer is pushed on the stack of the fiber.
HandToFiber ==
  /\ DeliverToFiber
  /\ holds' = [holds EXCEPT
                 ![Top.who] = IF Top.res = "val" THEN @ \cup Answer(Top.by) ELSE @]
  /\ UNCHANGED <<payload, freed>>

\* Resolve roots the value that Timeout and Race forward; Gather stores it in
\* its list of results, which is a root from the beginning.
HandToFuture ==
  /\ DeliverToFuture
  /\ payload' = [payload EXCEPT
                   ![Top.who] = IF /\ Top.res = "val"
                                   /\ fut[Top.who].kind = "gather" \/ ~HasResult(Top.who)
                                THEN @ \cup Answer(Top.by) ELSE @]
  /\ UNCHANGED <<holds, freed>>

\* Fiber::Kill clears the stack and the frames.
ClearStack ==
  /\ Bury
  /\ holds' = [holds EXCEPT ![Top.who] = {}]
  /\ UNCHANGED <<payload, freed>>

\* Fiber::ResetPromise: the new promise has no roots.
ResetPromise ==
  /\ Detach
  /\ payload' = [payload EXCEPT ![Top.who] = {}]
  /\ UNCHANGED <<holds, freed>>

\* A variable goes out of scope or is assigned, a temporary is popped.
Drop(f, x) ==
  /\ Executing(f)
  /\ x \in holds[f]
  /\ holds' = [holds EXCEPT ![f] = @ \ {x}]
  /\ UNCHANGED <<vars, payload, freed>>

HeapSpawn(f, g) ==
  /\ Spawn(f, g)
  /\ \E args \in SUBSET holds[f] :
       holds' = [holds EXCEPT ![f] = @ \cup {g}, ![g] = args]
  /\ UNCHANGED <<payload, freed>>

HeapSpawnBad(f, g) ==
  /\ SpawnBadArguments(f, g)
  /\ holds' = [holds EXCEPT ![f] = @ \cup {g}]
  /\ UNCHANGED <<payload, freed>>

\* The constructors of futures; Sleep is given the value to return.
HeapCreate(f, p, kind, items) ==
  /\ \A i \in DOMAIN items : items[i] \in holds[f] \cup {None}
  /\ CreateFuture(f, p, kind, items)
  /\ holds' = [holds EXCEPT ![f] = @ \cup {p}]
  /\ \E v \in (IF kind = "sleep" THEN Something(f) ELSE {{}}) :
       payload' = [payload EXCEPT ![p] = v]
  /\ UNCHANGED freed

\* What a first await of x sets going is a suspended fiber nobody has queued
\* and promises without a result.
Idle(x) ==
  IF x \in Fibers THEN fstate[x] = "Suspended" /\ waiting[x] = None
  ELSE x \in Futures /\ ~HasResult(x)

Patient(x) ==
  \E S \in SUBSET Objs :
    /\ x \in S
    /\ \A y \in S : Idle(y)
    /\ \A p \in S \cap Futures :
         pstat[p] = "New" => \A i \in DOMAIN fut[p].of : fut[p].of[i] \in S

\* Await pops what it awaits; a variable may still refer to it.
HeapAwait(f, x) ==
  /\ x \in holds[f] \cup {None}
  /\ Await(f, x)
  /\ "hasty" \in Careless \/ Patient(x)
  /\ \/ UNCHANGED holds
     \/ /\ "temporary" \in Careless
        /\ holds' = [holds EXCEPT ![f] = @ \ {x}]
  /\ UNCHANGED <<payload, freed>>

\* The value returned by the outermost call becomes the fiber's result.
HeapReturn(f) ==
  /\ Return(f)
  /\ \E v \in Something(f) :
       payload' = IF Len(frames[f]) = 1 THEN [payload EXCEPT ![f] = v] ELSE payload
  /\ UNCHANGED <<holds, freed>>

HeapYield(f) ==
  /\ Yield(f)
  /\ \E v \in Something(f) : payload' = [payload EXCEPT ![f] = v]
  /\ UNCHANGED <<holds, freed>>

MovesNoReference ==
  \/ AwaitCall \/ Arrived \/ Settle \/ Woken \/ Bump \/ MicroTask
  \/ ResumeAwaited \/ RaiseError \/ Kill \/ KillDead \/ LoopTail \/ Leave \/ Loop
  \/ \E f \in Fibers : \/ CallFunction(f) \/ CallBadArguments(f) \/ Throw(f)
                       \/ TryBegin(f) \/ TryEnd(f)

HeapInstructions ==
  \E f \in Fibers :
    \/ HeapReturn(f) \/ HeapYield(f)
    \/ \E g \in Fibers : HeapSpawn(f, g) \/ HeapSpawnBad(f, g)
    \/ \E p \in Futures, kind \in FutureKinds :
         \E items \in Items(kind) : HeapCreate(f, p, kind, items)
    \/ \E x \in Objs \cup {None} : HeapAwait(f, x)
    \/ \E x \in Objs : Drop(f, x)

HeapStep ==
  \/ MovesNoReference /\ UNCHANGED heapVars
  \/ HandToFiber \/ HandToFuture \/ ClearStack \/ ResetPromise
  \/ HeapInstructions

HeapNext ==
  \/ HeapStep
  \/ CollectGarbage
  \/ (\E f \in Fibers : Evaluate(f)) /\ UNCHANGED heapVars

HeapSpec == HeapInit /\ [][HeapNext]_hvars

-----------------------------------------------------------------------------
(* Properties.                                                             *)

HeapTypeOK ==
  /\ TypeOK
  /\ holds \in [Fibers -> SUBSET Objs]
  /\ payload \in [Objs -> SUBSET Objs]
  /\ freed \subseteq {o \in Objs : Allocated(o)}

\* Nothing but their own death removes fibers from the machine: SweepDeadFibres
\* finds each of them alive in memory, whatever the scripts do.
FibresSurvive == (ToSet(fibres) \cup ToSet(kept)) \cap freed = {}

\* No pointer the machine may still follow leads to a deleted object: not from
\* the task queues, not from a stored waker to the fiber it wakes,
\* not from the stack of a fiber, the result of a promise or last_, and not
\* from a future that has yet to await what it was made of.
NothingDangles ==
  /\ (ToSet(runq) \cup ToSet(microq)) \cap freed = {}
  /\ last # None => payload[last] \cap freed = {}
  /\ \A o \in Objs \ freed :
       /\ payload[o] \cap freed = {}
       /\ ToSet(wakers[o]) \cap Fibers \cap freed = {}
       /\ o \in Fibers => holds[o] \cap freed = {}
       /\ o \in Futures /\ pstat[o] = "New" => ToSet(fut[o].of) \cap freed = {}

\* Collecting takes no wake-up away: what a fiber is blocked on is alive, and
\* so is everything that a pending future waits for in turn.
AwaitedSurvives ==
  /\ \A f \in Fibers : waiting[f] \notin freed
  /\ \A p \in Futures \ freed :
       pstat[p] = "Pending" => ToSet(fut[p].of) \cap freed = {}

\* vm.hpp:68: Run goes on until no timers remain.  What the code does: a timer
\* whose future has been collected is not waited for, nor is its fiber.
RunOutlastsSleepers ==
  phase = "host" /\ outcome = "ok" => \A f \in Fibers : waiting[f] \notin ToSet(timers)
=============================================================================
