-------------------------- MODULE FiberInvariants --------------------------
(***************************************************************************)
(* The inductive invariants behind RunnableQueued and DeadStaysDead (what  *)
(* the C++ call stack can look like in each phase of VM::Run), behind      *)
(* ErrorsKept, behind ResultsAreFinal, behind BlockedIsOwedAnswer and      *)
(* OneWakerPerAwait, behind NormalReturnIsClean and behind FuturesFed.     *)
(***************************************************************************)
EXTENDS FiberRuntime

Control == {"tail", "leave"}

CalmOps == Control \cup {"deliver", "arrived", "settle", "woken", "bump",
                         "micro", "task", "detach"}

\* A cascade of values: no error is on its way to anybody, so nobody dies.
Calm == \A i \in DOMAIN agenda : agenda[i].op \in CalmOps /\ agenda[i].res = "val"

\* A fiber is being executed exactly in phase "exec"; calls are in progress
\* only there and in the timer callbacks; what ExecuteFiber does last is the
\* last call of its agenda, and it concerns the fiber being executed.
AgendaShape ==
  /\ phase = "exec" <=> cur # None
  /\ phase \in {"host", "sweep"} => agenda = <<>>
  /\ phase = "drain" =>
       \A i \in DOMAIN agenda : agenda[i].op \notin Control \cup {"detach"}
  /\ phase = "exec" /\ agenda # <<>> =>
       /\ agenda[Len(agenda)] \in {Do("tail", cur), Do("leave", cur)}
       /\ \A i \in 1..Len(agenda) - 1 : agenda[i].op \notin Control

\* While calls are in progress the executed fiber stays Running without being
\* queued in two cases only: nothing can go wrong any more, or the next call
\* raises its own error or kills it.  Between two instructions it is Running.
CurrentFiber ==
  phase = "exec" =>
    /\ agenda = <<>> => fstate[cur] = "Running" /\ frames[cur] # <<>>
    /\ agenda # <<>> /\ fstate[cur] = "Running" =>
         \/ Queued(cur)
         \/ Calm /\ frames[cur] # <<>>
         \/ Len(agenda) = 2 /\ agenda[1].op \in {"error", "kill"} /\ agenda[1].who = cur

\* A fiber that is about to be detached by its own Yield cannot die first.
YieldIsCalm ==
  \A i \in DOMAIN agenda :
    agenda[i].op = "detach" => Calm /\ agenda[i].who = cur /\ fstate[cur] # "Dead"

SchedulingInv ==
  /\ TypeOK
  /\ RunnableQueued
  /\ AgendaShape
  /\ CurrentFiber
  /\ YieldIsCalm

-----------------------------------------------------------------------------
(* Errors.                                                                 *)

\* A fiber the sweep may forget: dead, with a result or an error somebody has
\* been told about.
Gone(f) == fstate[f] = "Dead" /\ HasResult(f) /\ (pstat[f] = "Resolved" \/ told[f])

\* Every fiber there is is in fibres_ or may be forgotten.
FibresComplete == \A f \in Fibers : fstate[f] # "Free" => f \in ToSet(fibres) \/ Gone(f)

\* Kill settles the promise of a fiber right after marking it dead.
DeadIsSettled ==
  \A f \in Fibers : fstate[f] = "Dead" /\ ~HasResult(f) =>
    agenda # <<>> /\ Head(agenda).op = "settle" /\ Head(agenda).who = f

\* What erase_if has passed it has kept or may forget; it is at rest outside
\* the sweep.
SweepInv ==
  /\ Len(kept) < scan
  /\ phase # "sweep" => kept = <<>> /\ scan = 1
  /\ \A i \in DOMAIN fibres : i < scan => fibres[i] \in ToSet(kept) \/ Gone(fibres[i])

KeptInv == FibresComplete /\ DeadIsSettled /\ SweepInv

-----------------------------------------------------------------------------
(* Results.                                                                *)

\* What scripts and the runtime can have a reference to.
Known == {o \in Objs : Allocated(o)}

KnownCalls == {c \in CallSet : c.who \in Known \cup {None} /\ c.by \in Known \cup {None}}

\* Nobody waits for a fiber or a future that does not exist yet, or is called
\* by the calls in progress; the promise of such a future is untouched.
KnownInv ==
  /\ wakers \in [Objs -> Seq(Known)]
  /\ timers \in Seq(Known)
  /\ \A p \in Futures : fut[p].of \in Seq(Known \cup {None})
  /\ agenda \in Seq(KnownCalls)
  /\ \A p \in Futures : fut[p].kind = "none" => pstat[p] = "New"

-----------------------------------------------------------------------------
(* Answers, as long as scripts do not resume blocked fibers (Spares).      *)

Blocked(f) == waiting[f] # None
Entries == ToSet(agenda)

\* Awaiting x for the first time makes no blocked fiber runnable.
Harmless(x) ==
  \E S \in SUBSET (Objs \cup {None}) :
    /\ x \in S
    /\ \A p \in S \cap Futures :
         pstat[p] = "New" => \A i \in DOMAIN fut[p].of : fut[p].of[i] \in S
    /\ \A g \in S \cap Fibers : ~Blocked(g)

Delivers(f) == {c \in Entries : c.op = "deliver" /\ c.who = f}

\* A blocked fiber is suspended, has no result itself, and is owed an answer.
\* A fiber has a result when it is dead, or about to be detached by its Yield.
BlockedInv ==
  \A f \in Fibers :
    /\ Blocked(f) =>
         /\ fstate[f] = "Suspended" /\ ~HasResult(f) /\ Allocated(waiting[f])
         /\ \/ pstat[waiting[f]] = "Pending" /\ f \in ToSet(wakers[waiting[f]])
            \/ \E c \in Delivers(f) : c.by = waiting[f]
    /\ HasResult(f) => fstate[f] = "Dead" \/ Do("detach", f) \in Entries

\* A stored waker belongs to the await its fiber is blocked in, unless its
\* promise is just waking it; and it is stored once.
WakersInv ==
  \A x \in Objs :
    /\ \A f \in Fibers \cap ToSet(wakers[x]) :
         waiting[f] = x \/ Do("woken", x) \in Entries
    /\ \A i, j \in DOMAIN wakers[x] :
         wakers[x][i] = wakers[x][j] /\ wakers[x][i] \in Fibers => i = j

\* What a call in progress may rely on.
CallOK(c) ==
  /\ c.op \in {"micro", "task", "error", "kill", "bury", "detach", "settle"} /\ c.who \in Fibers =>
       ~Blocked(c.who)
  /\ c.op = "settle" /\ c.who \in Fibers =>
       fstate[c.who] = "Dead" \/ Do("detach", c.who) \in Entries
  /\ c.op = "await" => c.by \in Futures /\ Harmless(c.who)
  /\ c.op = "deliver" /\ c.by # None => HasResult(c.by)
  /\ c.op = "woken" => HasResult(c.who)
  /\ c.op = "deliver" /\ c.who \in Fibers /\ c.by = None =>
       ~Blocked(c.who) /\ fstate[c.who] = "Suspended"
  /\ c.op = "deliver" /\ c.who \in Fibers /\ c.by # None =>
       /\ waiting[c.who] = c.by
       /\ c.who \in ToSet(wakers[c.by]) => Do("woken", c.by) \in Entries

CallsOK == \A c \in Entries : CallOK(c)

\* Where in the agenda a call can be: an error is raised, and a fiber killed, at
\* once; Yield detaches as soon as its value has been delivered; a fiber is
\* delivered to once.
PlaceOK(i) ==
  LET c == agenda[i] IN
  /\ c.op \in {"error", "kill"} => i = 1
  /\ c.op = "error" => fstate[c.who] # "Dead"
  /\ c.op = "kill" /\ fstate[c.who] = "Dead" => Len(agenda) = 2 /\ agenda[2].op = "leave"
  /\ c.op = "deliver" /\ c.who \in Fibers =>
       /\ c.by = None => i = 1
       /\ \A j \in DOMAIN agenda : agenda[j].op = "deliver" /\ agenda[j].who = c.who => i = j
  /\ c.op = "detach" =>
       i = Len(agenda) - 1 /\ (HasResult(c.who) \/ agenda[1] = Do("settle", c.who))
  /\ c.op = "tail" /\ Blocked(c.who) => \E d \in Delivers(c.who) : d.by = waiting[c.who]

PlacesOK == \A i \in DOMAIN agenda : PlaceOK(i)

AnswersInv == BlockedInv /\ WakersInv /\ CallsOK /\ PlacesOK

-----------------------------------------------------------------------------
(* A normal return of Run.                                                 *)

\* Nobody the sweep has kept is dead, and what it leaves behind is clean.
CleanInv == (\A f \in ToSet(kept) : fstate[f] # "Dead") /\ NormalReturnIsClean

-----------------------------------------------------------------------------
(* Futures.                                                                *)

\* A call that brings p one of its items: its await, its answer, its arrival.
Feeds(c, p) ==
  \/ c.op = "await" /\ c.by = p
  \/ c.op \in {"deliver", "arrived"} /\ c.who = p

Coming(s, p) == {i \in DOMAIN s : Feeds(s[i], p)}
Due(s, p) == Cardinality(Coming(s, p))

Settles(p) == \E c \in Entries : c.op = "settle" /\ c.who = p

\* The wakers of p that will be called when the promise of x has a result.
StoredAt(x, p) == {<<x, i>> : i \in {j \in DOMAIN wakers[x] : wakers[x][j] = p}}
Stored(p) == UNION {StoredAt(x, p) : x \in {y \in Objs : ~HasResult(y)}}

\* Wakers are stored with pending promises; those of a promise with a result are
\* just being called.
StoresInv ==
  /\ \A x \in Objs :
       /\ pstat[x] = "New" => wakers[x] = <<>>
       /\ HasResult(x) => wakers[x] = <<>> \/ Do("woken", x) \in Entries
  /\ \A f \in Fibers : fstate[f] = "Free" => pstat[f] = "New"

\* A timer is in the heap until its callback is called.
TimersInv ==
  \A p \in Futures :
    pstat[p] = "Pending" /\ fut[p].kind \in {"sleep", "timeout"} =>
      p \in ToSet(timers) \/ Settles(p)

\* Any item of a race or a timeout will complete it.
Fed(p, x) ==
  \/ x # None /\ pstat[x] = "Pending" /\ p \in ToSet(wakers[x])
  \/ \E c \in Entries : c.op = "await" /\ c.who = x /\ c.by = p
  \/ \E c \in Entries : c.op = "deliver" /\ c.who = p
  \/ Settles(p)

ItemsInv ==
  \A p \in Futures :
    pstat[p] = "Pending" /\ fut[p].kind # "gather" =>
      \A i \in DOMAIN fut[p].of : Fed(p, fut[p].of[i])

\* A gather still counts the wakers that are stored and the calls in progress.
CountOK(p) ==
  /\ IsFiniteSet(Stored(p))
  /\ pstat[p] = "New" =>
       /\ Coming(agenda, p) = {} /\ Stored(p) = {}
       /\ left[p] = Len(fut[p].of) /\ left[p] > 0
  /\ pstat[p] = "Pending" =>
       /\ left[p] = Cardinality(Stored(p)) + Due(agenda, p)
       /\ left[p] > 0 \/ Settles(p)

CountsInv ==
  \A p \in Futures : fut[p].kind = "gather" /\ ~HasResult(p) => CountOK(p)

FedInv == StoresInv /\ TimersInv /\ ItemsInv /\ CountsInv
=============================================================================
