------------------------ MODULE FiberHeapInvariants ------------------------
(***************************************************************************)
(* The inductive invariants behind FibresSurvive, NothingDangles and       *)
(* AwaitedSurvives.  The collector does not visit the task queues, so what *)
(* keeps a queued fiber alive is that it is in fibres_ until it dies, and  *)
(* that a fiber which dies is in no queue: nobody is queued twice.         *)
(***************************************************************************)
EXTENDS FiberHeap

\* fibres_ is a root, so what is in it is marked.
HeapInv ==
  /\ SchedulingInv
  /\ \A g \in ToSet(fibres) \cup ToSet(kept) : g \in Objs /\ Allocated(g) /\ g \notin freed
  /\ \A o \in freed : o \in Objs /\ Allocated(o)

-----------------------------------------------------------------------------
(* Turns, for careful scripts.                                             *)

\* What is queued is Running, is not being executed, and is queued once.
QueueInv ==
  /\ \A f \in Fibers : Queued(f) => fstate[f] = "Running" /\ f # cur
  /\ \A i, j \in DOMAIN runq : runq[i] = runq[j] => i = j
  /\ \A i, j \in DOMAIN microq : microq[i] = microq[j] => i = j
  /\ ToSet(runq) \cap ToSet(microq) = {}

\* Awaiting x sets going nobody but idle fibers other than the executed one.
Quiet(x) ==
  \E S \in SUBSET Objs :
    /\ x \in S
    /\ \A y \in S : Idle(y) /\ y # cur
    /\ \A p \in S \cap Futures :
         pstat[p] = "New" => \A i \in DOMAIN fut[p].of : fut[p].of[i] \in S

\* What the calls in progress may rely on: who is to be queued, or to die, is
\* in no queue; a first await is made before anything else happens; until the
\* executed fiber that blocks has left, only such awaits are made.
TurnOK(c) ==
  /\ c.op \in {"micro", "error", "kill"} => ~Queued(c.who)
  /\ c.op = "micro" => c.who # cur
  /\ c.op = "task" => fstate[c.who] # "Suspended"
  /\ c.op = "deliver" => c.by # None
  /\ c.op = "detach" => fstate[c.who] = "Running"
  /\ c.op = "await" => agenda = <<c, Do("leave", cur)>> /\ Quiet(c.who)
  /\ cur # None /\ Blocked(cur) => c.op \in {"await", "micro", "leave"}

\* Nobody is to be queued twice.
QueuedOnce ==
  \A i, j \in DOMAIN agenda :
    agenda[i].op = "micro" /\ agenda[j].op = "micro" /\ agenda[i].who = agenda[j].who => i = j

TurnsInv == QueueInv /\ (\A c \in Entries : TurnOK(c)) /\ QueuedOnce

-----------------------------------------------------------------------------
(* References.                                                             *)

\* A live fiber is in fibres_, also while the sweep is half-way.
LiveInv ==
  /\ \A f \in Fibers : fstate[f] \in {"Running", "Suspended"} => f \in ToSet(fibres)
  /\ Len(kept) < scan
  /\ phase # "sweep" => kept = <<>> /\ scan = 1
  /\ \A i \in DOMAIN fibres :
       i < scan => fibres[i] \in ToSet(kept) \/ fstate[fibres[i]] = "Dead"

\* What has been deleted is dead and settled, and nobody waits for it.
FreedInv ==
  /\ \A o \in freed : HasResult(o) /\ wakers[o] = <<>>
  /\ \A f \in freed \cap Fibers : fstate[f] = "Dead"

\* References lead to what has been allocated, and start there.
RefsInv ==
  /\ payload \in [Objs -> SUBSET Known]
  /\ holds \in [Fibers -> SUBSET Known]
  /\ \A o \in Objs : ~Allocated(o) => payload[o] = {}
  /\ \A f \in Fibers : ~Allocated(f) => holds[f] = {}
  /\ \A p \in Futures :
       /\ fut[p].kind \in {"none", "sleep", "timeout"}
       /\ fut[p].of # <<>> => fut[p].kind = "timeout" /\ Len(fut[p].of) = 1

\* What is not deleted refers to nothing that is; a blocked fiber holds what it
\* waits for; an answer comes from an object in memory.
AliveInv ==
  /\ last # None => payload[last] \cap freed = {}
  /\ \A o \in Objs \ freed :
       /\ payload[o] \cap freed = {}
       /\ ToSet(wakers[o]) \cap Fibers \cap freed = {}
       /\ o \in Fibers => holds[o] \cap freed = {}
       /\ o \in Futures => ToSet(fut[o].of) \cap freed = {}
  /\ \A f \in Fibers : Blocked(f) => waiting[f] \in holds[f]
  /\ \A c \in Entries : c.op = "deliver" => c.by \notin freed

CarefulInv ==
  /\ HeapInv
  /\ KnownInv
  /\ AnswersInv
  /\ TurnsInv
  /\ LiveInv
  /\ FreedInv
  /\ RefsInv
  /\ AliveInv
=============================================================================
