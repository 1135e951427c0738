---------------------------- MODULE FiberRuntime ----------------------------
(***************************************************************************)
(* The fiber runtime of the serilang virtual machine (src/src/vm): fibers, *)
(* the two task queues and the timer heap of the Scheduler, promises and   *)
(* their wakers, the four awaitable futures (Sleep, Timeout, Gather, Race) *)
(* and the event loop VM::Run that a host enters through VM::Evaluate.     *)
(*                                                                         *)
(* The machine is single-threaded, and its difficulty is re-entrancy: one  *)
(* Resolve wakes every waiter from inside the caller, a waiter may be a    *)
(* future that resolves in turn, and a rejected fiber unwinds and dies     *)
(* inside the wake.  The C++ call stack is therefore explicit: `agenda' is *)
(* what remains to be executed, innermost call first.  While it is not     *)
(* empty its head is the only thing that can happen.                       *)
(*                                                                         *)
(* Abstractions.  A value is "val", an error is "err".  A promise is named *)
(* by the fiber or future that owns it.  A frame is the number of its      *)
(* active exception handlers.  Time is the order of the timers: the heap   *)
(* is a sequence sorted by deadline, a new timer may fall at any place in  *)
(* it, and how many are due at a turn of the loop is arbitrary.  Garbage   *)
(* collection is not modelled here.                                        *)
(***************************************************************************)
EXTENDS Integers, Sequences, SequencesExt

CONSTANTS
  Fibers,         \* fibers that may be allocated
  Futures,        \* futures that may be created
  None,           \* nil: no object, and any value that is not awaitable
  FutureKinds,    \* the futures scripts create
  Loopers,        \* fibers whose script is an endless loop
  MaxOps,         \* bound: instructions other fibers execute besides Return
  MaxDepth,       \* bound: call frames of a fiber
  MaxHandlers,    \* bound: exception handlers of a frame
  MaxItems,       \* bound: awaitables given to Gather or Race
  MaxQueue,       \* bound: microtasks queued when a fiber awaits
  AwaitsBlocked   \* may a script await a fiber that is itself blocked?

Objs == Fibers \cup Futures

ASSUME ObjsAssumption ==
  /\ Fibers \cap Futures = {}
  /\ None \notin Objs

Kinds == {"sleep", "timeout", "gather", "race"}

ASSUME ScriptAssumption ==
  /\ FutureKinds \subseteq Kinds
  /\ Loopers \subseteq Fibers

ASSUME BoundsAssumption ==
  /\ MaxOps \in Nat
  /\ MaxDepth \in Nat \ {0}
  /\ MaxHandlers \in Nat
  /\ MaxItems \in Nat
  /\ MaxQueue \in Nat
  /\ AwaitsBlocked \in BOOLEAN

VARIABLES
  fstate,     \* Fiber::state ("Free": not allocated yet)
  frames,     \* Fiber::frames, one handler count per frame
  waiting,    \* history: the awaitable whose answer the fiber's code expects
  ops,        \* instructions the fiber has executed (bounds its script)
  pstat,      \* Promise::status of the promise the object owns
  wakers,     \* Promise::wakers_: who is to be told
  told,       \* Promise::wake_count_ > 0, all that is ever read of it
  fut,        \* what a future waits for
  left,       \* GatherData::remaining
  runq,       \* Scheduler::runq_
  microq,     \* Scheduler::microq_
  timers,     \* Scheduler::timers_, by deadline
  fibres,     \* VM::fibres_
  kept,       \* the prefix of fibres_ that erase_if has kept so far
  scan,       \* the element of fibres_ that erase_if looks at
  last,       \* VM::last_, as the fiber that produced it
  cur,        \* the fiber inside ExecuteFiber
  phase,      \* where VM::Run is
  outcome,    \* how the last Run ended
  reported,   \* history: how often Run has thrown the fiber's error (0, 1, 2+)
  agenda      \* the calls still to be executed, innermost first

fiberVars   == <<fstate, frames, waiting, ops>>
promiseVars == <<pstat, wakers, told, fut, left>>
schedVars   == <<runq, microq, timers>>
sweepVars   == <<fibres, kept, scan, last, reported>>
loopVars    == <<cur, phase, outcome>>

vars == <<fiberVars, promiseVars, schedVars, sweepVars, loopVars, agenda>>

Results == {"val", "err"}

CallOps == {"await", "deliver", "settle", "woken", "bump", "arrived",
            "micro", "task", "error", "kill", "bury", "detach",
            "tail", "leave"}

Call(op, who, by, res) == [op |-> op, who |-> who, by |-> by, res |-> res]
Do(op, who) == Call(op, who, None, "val")

Init ==
  /\ fstate    = [f \in Fibers |-> "Free"]
  /\ frames    = [f \in Fibers |-> <<>>]
  /\ waiting   = [f \in Fibers |-> None]
  /\ ops       = [f \in Fibers |-> 0]
  /\ pstat     = [o \in Objs |-> "New"]
  /\ wakers    = [o \in Objs |-> <<>>]
  /\ told      = [o \in Objs |-> FALSE]
  /\ fut       = [p \in Futures |-> [kind |-> "none", of |-> <<>>]]
  /\ left      = [p \in Futures |-> 0]
  /\ runq = <<>> /\ microq = <<>> /\ timers = <<>>
  /\ fibres = <<>> /\ kept = <<>> /\ scan = 1
  /\ last = None
  /\ cur = None
  /\ phase = "host"
  /\ outcome = "none"
  /\ reported = [f \in Fibers |-> 0]
  /\ agenda = <<>>

-----------------------------------------------------------------------------
(* Promises.                                                               *)

HasResult(o) == pstat[o] \in {"Resolved", "Rejected"}
ResultOf(o)  == IF pstat[o] = "Resolved" THEN "val" ELSE "err"
StatusOf(r)  == IF r = "val" THEN "Resolved" ELSE "Rejected"

\* Mutant of SomePending: only the promises of fibers are counted.
PendingFibers == \E o \in Fibers : pstat[o] = "Pending"

\* CountPendingPromises() > 0: a promise enters pending_promises_ when it
\* becomes Pending and is dropped once it has a result.
SomePending == \E o \in Objs : pstat[o] = "Pending"

\* for_each over wakers_, then wake_count_ += n and clear.
WakeAll(o, r) ==
  [i \in 1..Len(wakers[o]) |-> Call("deliver", wakers[o][i], o, r)]
    \o <<Do("woken", o)>>

Timed(o) == o \in Futures /\ fut[o].kind \in {"sleep", "timeout"}

\* Mutant of InitialAwait: only the first awaitable is awaited.
FirstAwait(o) ==
  IF o \in Futures /\ fut[o].of # <<>>
  THEN <<Call("await", Head(fut[o].of), o, "val")>>
  ELSE <<>>

\* The awaits an initial_await hook performs on what the future waits for.
InitialAwait(o) ==
  IF o \in Futures
  THEN [i \in 1..Len(fut[o].of) |-> Call("await", fut[o].of[i], o, "val")]
  ELSE <<>>

\* VM::Await(awaiter = by, awaited = x): `ready' and `pending' are what the
\* caller goes on with when the waker ran at once and when it was stored.
AwaitOn(x, by, ready, pending) ==
  \/ /\ x = None
     /\ agenda' = <<Call("deliver", by, None, "err")>> \o ready
     /\ UNCHANGED <<pstat, wakers, timers>>
  \/ /\ x \in Objs
     /\ HasResult(x)
     /\ agenda' = <<Call("deliver", by, x, ResultOf(x)), Do("bump", x)>> \o ready
     /\ UNCHANGED <<pstat, wakers, timers>>
  \/ /\ x \in Objs
     /\ ~HasResult(x)
     /\ wakers' = [wakers EXCEPT ![x] = Append(@, by)]
     /\ pstat'  = [pstat EXCEPT ![x] = "Pending"]
     /\ agenda' = (IF pstat[x] = "New" THEN InitialAwait(x) ELSE <<>>)
                    \o (IF x \in Fibers THEN <<Do("micro", x)>> ELSE <<>>)
                    \o pending
     /\ IF pstat[x] = "New" /\ Timed(x)
        THEN \E i \in 1..Len(timers) + 1 : timers' = InsertAt(timers, i, x)
        ELSE UNCHANGED timers

-----------------------------------------------------------------------------
(* The calls in progress.  Each action executes the head of the agenda.    *)

Running(op) == agenda # <<>> /\ Head(agenda).op = op
Top  == Head(agenda)
Rest == Tail(agenda)

\* A nested VM::Await made by a future's initial_await.
AwaitCall ==
  /\ Running("await")
  /\ AwaitOn(Top.who, Top.by, Rest, Rest)
  /\ UNCHANGED <<fiberVars, told, fut, left, runq, microq, sweepVars, loopVars>>

\* The waker of the Await instruction: hand the answer to the blocked fiber,
\* make it runnable, resume what it awaited if that is suspended.
DeliverToFiber ==
  /\ Running("deliver")
  /\ Top.who \in Fibers
  /\ waiting' = [waiting EXCEPT ![Top.who] = None]
  /\ agenda' = (IF Top.res = "err" THEN <<Do("error", Top.who)>> ELSE <<>>)
                 \o <<Do("micro", Top.who)>>
                 \o (IF Top.by \in Fibers THEN <<Do("task", Top.by)>> ELSE <<>>)
                 \o Rest
  /\ UNCHANGED <<fstate, frames, ops, promiseVars, schedVars, sweepVars, loopVars>>

\* The wakers of Timeout and Race forward the outcome; those of Gather reject
\* on an error and count the item in either case.
DeliverToFuture ==
  /\ Running("deliver")
  /\ Top.who \in Futures
  /\ agenda' = (IF fut[Top.who].kind # "gather" \/ Top.res = "err"
                THEN <<Call("settle", Top.who, None, Top.res)>> ELSE <<>>)
                 \o (IF fut[Top.who].kind = "gather"
                     THEN <<Do("arrived", Top.who)>> ELSE <<>>)
                 \o Rest
  /\ UNCHANGED <<fiberVars, promiseVars, schedVars, sweepVars, loopVars>>

Arrived ==
  /\ Running("arrived")
  /\ left' = [left EXCEPT ![Top.who] = @ - 1]
  /\ agenda' = (IF left[Top.who] = 1 THEN <<Do("settle", Top.who)>> ELSE <<>>)
                 \o Rest
  /\ UNCHANGED <<fiberVars, pstat, wakers, told, fut, schedVars, sweepVars, loopVars>>

\* Mutant of Settle: a promise that has a result is settled again.
SettleAgain ==
  /\ Running("settle")
  /\ pstat' = [pstat EXCEPT ![Top.who] = StatusOf(Top.res)]
  /\ agenda' = WakeAll(Top.who, Top.res) \o Rest
  /\ UNCHANGED <<fiberVars, wakers, told, fut, left, schedVars, sweepVars, loopVars>>

\* Promise::Resolve and Promise::Reject.
Settle ==
  /\ Running("settle")
  /\ IF HasResult(Top.who)
     THEN agenda' = Rest /\ UNCHANGED pstat
     ELSE /\ pstat' = [pstat EXCEPT ![Top.who] = StatusOf(Top.res)]
          /\ agenda' = WakeAll(Top.who, Top.res) \o Rest
  /\ UNCHANGED <<fiberVars, wakers, told, fut, left, schedVars, sweepVars, loopVars>>

\* Mutant of Woken: the wakers are not cleared.
WokenStale ==
  /\ Running("woken")
  /\ told' = [told EXCEPT ![Top.who] = @ \/ wakers[Top.who] # <<>>]
  /\ agenda' = Rest
  /\ UNCHANGED <<fiberVars, pstat, wakers, fut, left, schedVars, sweepVars, loopVars>>

\* The end of Promise::WakeAll.
Woken ==
  /\ Running("woken")
  /\ told' = [told EXCEPT ![Top.who] = @ \/ wakers[Top.who] # <<>>]
  /\ wakers' = [wakers EXCEPT ![Top.who] = <<>>]
  /\ agenda' = Rest
  /\ UNCHANGED <<fiberVars, pstat, fut, left, schedVars, sweepVars, loopVars>>

\* ++wake_count_ after AddWaker has called a waker at once.
Bump ==
  /\ Running("bump")
  /\ told' = [told EXCEPT ![Top.who] = TRUE]
  /\ agenda' = Rest
  /\ UNCHANGED <<fiberVars, pstat, wakers, fut, left, schedVars, sweepVars, loopVars>>

\* Mutant of MicroTask: dead fibers are queued too.
MicroTaskDead ==
  /\ Running("micro")
  /\ fstate' = [fstate EXCEPT ![Top.who] = "Running"]
  /\ microq' = Append(microq, Top.who)
  /\ agenda' = Rest
  /\ UNCHANGED <<frames, waiting, ops, promiseVars, runq, timers, sweepVars, loopVars>>

\* Scheduler::PushMicroTask.
MicroTask ==
  /\ Running("micro")
  /\ IF fstate[Top.who] = "Dead"
     THEN UNCHANGED <<fstate, microq>>
     ELSE /\ fstate' = [fstate EXCEPT ![Top.who] = "Running"]
          /\ microq' = Append(microq, Top.who)
  /\ agenda' = Rest
  /\ UNCHANGED <<frames, waiting, ops, promiseVars, runq, timers, sweepVars, loopVars>>

\* PushTask of the awaited fiber, when the waker finds it suspended.
ResumeAwaited ==
  /\ Running("task")
  /\ IF fstate[Top.who] = "Suspended"
     THEN /\ fstate' = [fstate EXCEPT ![Top.who] = "Running"]
          /\ runq' = Append(runq, Top.who)
     ELSE UNCHANGED <<fstate, runq>>
  /\ agenda' = Rest
  /\ UNCHANGED <<frames, waiting, ops, promiseVars, microq, timers, sweepVars, loopVars>>

\* VM::Error: unwind to the innermost frame with a handler, or die.
Handling(f) == {i \in DOMAIN frames[f] : frames[f][i] > 0}

RaiseError ==
  /\ Running("error")
  /\ LET f == Top.who IN
       \/ /\ Handling(f) = {}
          /\ frames' = [frames EXCEPT ![f] = <<>>]
          /\ agenda' = <<Call("kill", f, None, "err")>> \o Rest
       \/ \E i \in Handling(f) :
          /\ \A j \in Handling(f) : j <= i
          /\ frames' = [frames EXCEPT
                          ![f] = Append(SubSeq(@, 1, i - 1), @[i] - 1)]
          /\ agenda' = Rest
  /\ UNCHANGED <<fstate, waiting, ops, promiseVars, schedVars, sweepVars, loopVars>>

\* Fiber::Kill of a live fiber.
Kill ==
  /\ Running("kill")
  /\ fstate[Top.who] # "Dead"
  /\ fstate' = [fstate EXCEPT ![Top.who] = "Dead"]
  /\ agenda' = <<Call("settle", Top.who, None, Top.res), Do("bury", Top.who)>> \o Rest
  /\ UNCHANGED <<frames, waiting, ops, promiseVars, schedVars, sweepVars, loopVars>>

\* Fiber::Kill of a dead fiber throws std::logic_error.  DrainExpiredTimers
\* catches and logs it, abandoning the callback; ExecuteFiber and Run catch
\* only RuntimeError, so there it leaves the event loop.
KillDead ==
  /\ Running("kill")
  /\ fstate[Top.who] = "Dead"
  /\ agenda' = <<>>
  /\ IF phase = "drain"
     THEN UNCHANGED loopVars
     ELSE cur' = None /\ phase' = "host" /\ outcome' = "LogicError"
  /\ UNCHANGED <<fiberVars, promiseVars, schedVars, sweepVars>>

Bury ==
  /\ Running("bury")
  /\ frames' = [frames EXCEPT ![Top.who] = <<>>]
  /\ agenda' = Rest
  /\ UNCHANGED <<fstate, waiting, ops, promiseVars, schedVars, sweepVars, loopVars>>

\* The end of Fiber::Yield: a fresh promise, and the fiber is suspended.
Detach ==
  /\ Running("detach")
  /\ pstat' = [pstat EXCEPT ![Top.who] = "New"]
  /\ wakers' = [wakers EXCEPT ![Top.who] = <<>>]
  /\ told' = [told EXCEPT ![Top.who] = FALSE]
  /\ fstate' = [fstate EXCEPT ![Top.who] = "Suspended"]
  /\ agenda' = Rest
  /\ UNCHANGED <<frames, waiting, ops, fut, left, schedVars, sweepVars, loopVars>>

\* The bottom of ExecuteFiber's loop, reached by instructions that do not
\* return: go on while Running; otherwise a fiber without frames is killed.
LoopTail ==
  /\ Running("tail")
  /\ LET f == Top.who IN
       agenda' = IF frames[f] = <<>>
                 THEN <<Do("kill", f), Do("leave", f)>>
                 ELSE IF fstate[f] = "Running" THEN <<>> ELSE <<Do("leave", f)>>
  /\ UNCHANGED <<fiberVars, promiseVars, schedVars, sweepVars, loopVars>>

\* Mutant of Leave: the fiber is not requeued.
LeaveLost ==
  /\ Running("leave")
  /\ cur' = None
  /\ phase' = "sweep"
  /\ agenda' = Rest
  /\ UNCHANGED <<fiberVars, promiseVars, schedVars, sweepVars, outcome>>

\* ExecuteFiber has returned: Run requeues a fiber that is still runnable.
Leave ==
  /\ Running("leave")
  /\ LET f == Top.who IN
       IF fstate[f] = "Running" /\ frames[f] # <<>>
       THEN runq' = Append(runq, f)
       ELSE UNCHANGED runq
  /\ cur' = None
  /\ phase' = "sweep"
  /\ agenda' = Rest
  /\ UNCHANGED <<fiberVars, promiseVars, microq, timers, sweepVars, outcome>>

Calls ==
  \/ AwaitCall \/ DeliverToFiber \/ DeliverToFuture \/ Arrived
  \/ Settle \/ Woken \/ Bump \/ MicroTask \/ ResumeAwaited
  \/ RaiseError \/ Kill \/ KillDead \/ Bury \/ Detach \/ LoopTail \/ Leave

-----------------------------------------------------------------------------
(* The event loop VM::Run and its host.                                    *)

\* VM::Evaluate: AddFiber, then Run.  A host calls it again after a normal
\* return and after an exception alike (the REPL).
Evaluate(f) ==
  /\ phase = "host"
  /\ fstate[f] = "Free"
  /\ fstate' = [fstate EXCEPT ![f] = "Running"]
  /\ frames' = [frames EXCEPT ![f] = <<0>>]
  /\ fibres' = Append(fibres, f)
  /\ runq' = Append(runq, f)
  /\ phase' = "drain"
  /\ outcome' = "none"
  /\ UNCHANGED <<waiting, ops, promiseVars, microq, timers,
                 kept, scan, last, reported, cur, agenda>>

\* Mutant of FireTimer: the entry is popped, its callback never called.
DropTimer ==
  /\ phase = "drain"
  /\ agenda = <<>>
  /\ timers # <<>>
  /\ timers' = Tail(timers)
  /\ UNCHANGED <<fiberVars, promiseVars, runq, microq, sweepVars, loopVars, agenda>>

\* One turn of DrainExpiredTimers: the callback of Sleep resolves its future,
\* that of Timeout rejects it.
FireTimer ==
  /\ phase = "drain"
  /\ agenda = <<>>
  /\ timers # <<>>
  /\ timers' = Tail(timers)
  /\ agenda' = <<Call("settle", Head(timers), None,
                      IF fut[Head(timers)].kind = "sleep" THEN "val" ELSE "err")>>
  /\ UNCHANGED <<fiberVars, promiseVars, runq, microq, sweepVars, loopVars>>

\* NextTask: the newest microtask, else the oldest task.  A task that is no
\* longer Running is dropped; one without frames (a native function was
\* spawned) is killed at once; with no task at all the loop waits.
Execute(f) ==
  /\ phase' = "exec"
  /\ cur' = f
  /\ agenda' = IF frames[f] = <<>> THEN <<Do("kill", f), Do("leave", f)>> ELSE <<>>
  /\ UNCHANGED outcome

Skip == phase' = "sweep" /\ UNCHANGED <<cur, outcome, agenda>>

RunOrSkip(f) == IF fstate[f] = "Running" THEN Execute(f) ELSE Skip

NextTask ==
  /\ phase = "drain"
  /\ agenda = <<>>
  /\ \/ /\ microq # <<>>
        /\ microq' = Front(microq)
        /\ RunOrSkip(Last(microq))
        /\ UNCHANGED runq
     \/ /\ microq = <<>>
        /\ runq # <<>>
        /\ runq' = Tail(runq)
        /\ RunOrSkip(Head(runq))
        /\ UNCHANGED microq
     \/ /\ microq = <<>>
        /\ runq = <<>>
        /\ Skip
        /\ UNCHANGED <<runq, microq>>
  /\ UNCHANGED <<fiberVars, promiseVars, timers, sweepVars>>

\* SweepDeadFibres, one element of erase_if at a time.  A dead fiber nobody
\* has been told about provides last_, or its error is thrown out of Run; the
\* vector is then left as remove_if had it.
Unobserved(f) == ~told[f]

SweepKeep ==
  /\ phase = "sweep"
  /\ scan <= Len(fibres)
  /\ fstate[fibres[scan]] # "Dead"
  /\ kept' = Append(kept, fibres[scan])
  /\ scan' = scan + 1
  /\ UNCHANGED <<fiberVars, promiseVars, schedVars, fibres, last, reported, loopVars, agenda>>

\* Mutant of SweepErase: errors are erased like results.
SweepEraseAll ==
  /\ phase = "sweep"
  /\ scan <= Len(fibres)
  /\ fstate[fibres[scan]] = "Dead"
  /\ last' = IF Unobserved(fibres[scan]) THEN fibres[scan] ELSE last
  /\ scan' = scan + 1
  /\ UNCHANGED <<fiberVars, promiseVars, schedVars, fibres, kept, reported, loopVars, agenda>>

SweepErase ==
  /\ phase = "sweep"
  /\ scan <= Len(fibres)
  /\ LET f == fibres[scan] IN
       /\ fstate[f] = "Dead"
       /\ ~(Unobserved(f) /\ pstat[f] = "Rejected")
       /\ last' = IF Unobserved(f) THEN f ELSE last
  /\ scan' = scan + 1
  /\ UNCHANGED <<fiberVars, promiseVars, schedVars, fibres, kept, reported, loopVars, agenda>>

SweepThrow ==
  /\ phase = "sweep"
  /\ scan <= Len(fibres)
  /\ LET f == fibres[scan] IN
       /\ fstate[f] = "Dead"
       /\ Unobserved(f) /\ pstat[f] = "Rejected"
       /\ reported' = [reported EXCEPT ![f] = IF @ < 2 THEN @ + 1 ELSE 2]
  /\ fibres' = kept \o SubSeq(fibres, Len(kept) + 1, Len(fibres))
  /\ kept' = <<>> /\ scan' = 1
  /\ phase' = "host"
  /\ outcome' = "UnhandledError"
  /\ UNCHANGED <<fiberVars, promiseVars, schedVars, last, cur, agenda>>

\* The sweep is complete: Run's loop condition decides what comes next.  The
\* final sweep after the loop finds nothing new.
SweepDone ==
  /\ phase = "sweep"
  /\ scan > Len(fibres)
  /\ fibres' = kept /\ kept' = <<>> /\ scan' = 1
  /\ IF microq # <<>> \/ runq # <<>> \/ SomePending
     THEN phase' = "drain" /\ UNCHANGED outcome
     ELSE phase' = "host" /\ outcome' = "ok"
  /\ UNCHANGED <<fiberVars, promiseVars, schedVars, last, reported, cur, agenda>>

-----------------------------------------------------------------------------
(* The instructions of the running fiber.  Which one comes next is the     *)
(* script's choice.                                                        *)

Executing(f) == phase = "exec" /\ agenda = <<>> /\ cur = f

Budgeted(f) ==
  /\ Executing(f)
  /\ ops[f] < MaxOps
  /\ ops' = IF f \in Loopers THEN ops ELSE [ops EXCEPT ![f] = @ + 1]

Allocated(x) ==
  \/ x \in Fibers  /\ fstate[x] # "Free"
  \/ x \in Futures /\ fut[x].kind # "none"

\* Call of a script function.
CallFunction(f) ==
  /\ Budgeted(f)
  /\ Len(frames[f]) < MaxDepth
  /\ frames' = [frames EXCEPT ![f] = Append(@, 0)]
  /\ UNCHANGED <<fstate, waiting, promiseVars, schedVars, sweepVars, loopVars, agenda>>

\* Call with arguments ArgumentList::Load rejects: Function::Call raises the
\* error itself and returns normally to the instruction.
CallBadArguments(f) ==
  /\ Budgeted(f)
  /\ agenda' = <<Do("error", f), Do("tail", f)>>
  /\ UNCHANGED <<fstate, frames, waiting, promiseVars, schedVars, sweepVars, loopVars>>

\* Throw, and any instruction that fails with a RuntimeError.
Throw(f) ==
  /\ Budgeted(f)
  /\ agenda' = <<Do("error", f), Do("leave", f)>>
  /\ UNCHANGED <<fstate, frames, waiting, promiseVars, schedVars, sweepVars, loopVars>>

TryBegin(f) ==
  /\ Budgeted(f)
  /\ Last(frames[f]) < MaxHandlers
  /\ frames' = [frames EXCEPT ![f][Len(frames[f])] = @ + 1]
  /\ UNCHANGED <<fstate, waiting, promiseVars, schedVars, sweepVars, loopVars, agenda>>

TryEnd(f) ==
  /\ Budgeted(f)
  /\ Last(frames[f]) > 0
  /\ frames' = [frames EXCEPT ![f][Len(frames[f])] = @ - 1]
  /\ UNCHANGED <<fstate, waiting, promiseVars, schedVars, sweepVars, loopVars, agenda>>

\* VM::Return, also taken at the end of the code.
Return(f) ==
  /\ Executing(f)
  /\ frames' = [frames EXCEPT ![f] = Front(@)]
  /\ agenda' = (IF Len(frames[f]) = 1 THEN <<Do("kill", f)>> ELSE <<>>)
                 \o <<Do("leave", f)>>
  /\ UNCHANGED <<fstate, waiting, ops, promiseVars, schedVars, sweepVars, loopVars>>

\* MakeFiber: of a script function (one frame) or a native one (none: its
\* result stays on the new fiber's operand stack).
Spawn(f, g) ==
  /\ Budgeted(f)
  /\ fstate[g] = "Free"
  /\ fstate' = [fstate EXCEPT ![g] = "Running"]
  /\ \E fr \in {<<>>, <<0>>} : frames' = [frames EXCEPT ![g] = fr]
  /\ fibres' = Append(fibres, g)
  /\ runq' = Append(runq, g)
  /\ UNCHANGED <<waiting, promiseVars, microq, timers, kept, scan, last,
                 reported, loopVars, agenda>>

\* MakeFiber with bad arguments: VM::Error kills the new fiber, which nobody
\* can be waiting for yet, and PushTask ignores it.
SpawnBadArguments(f, g) ==
  /\ Budgeted(f)
  /\ fstate[g] = "Free"
  /\ fstate' = [fstate EXCEPT ![g] = "Dead"]
  /\ pstat' = [pstat EXCEPT ![g] = "Rejected"]
  /\ fibres' = Append(fibres, g)
  /\ UNCHANGED <<frames, waiting, wakers, told, fut, left, schedVars,
                 kept, scan, last, reported, loopVars, agenda>>

\* How many awaitables the constructors of a future take.
Arity(kind) ==
  CASE kind = "sleep" -> {0} [] kind = "timeout" -> {1} [] OTHER -> 0..MaxItems

Items(kind) == UNION {[1..n -> Objs \cup {None}] : n \in Arity(kind)}

\* async.Sleep, Timeout, Gather, Race.  Gather and Race of nothing are
\* resolved at once; the others wait for their first await.
CreateFuture(f, p, kind, items) ==
  /\ Budgeted(f)
  /\ fut[p].kind = "none"
  /\ \A i \in DOMAIN items : items[i] = None \/ Allocated(items[i])
  /\ fut' = [fut EXCEPT ![p] = [kind |-> kind, of |-> items]]
  /\ left' = [left EXCEPT ![p] = Len(items)]
  /\ pstat' = IF kind \in {"gather", "race"} /\ items = <<>>
              THEN [pstat EXCEPT ![p] = "Resolved"] ELSE pstat
  /\ UNCHANGED <<fstate, frames, waiting, wakers, told, schedVars,
                 sweepVars, loopVars, agenda>>

\* The fibers a first await of x makes runnable are its own, if x is one, and
\* those reached through futures that have not been awaited yet.
Spares(f, x) ==
  \E S \in SUBSET (Objs \cup {None}) :
    /\ x \in S
    /\ \A p \in S \cap Futures :
         pstat[p] = "New" => \A i \in DOMAIN fut[p].of : fut[p].of[i] \in S
    /\ \A g \in S \cap Fibers : g # f /\ waiting[g] = None

\* Await.  A stored waker makes ExecuteFiber return; after a waker that ran
\* at once the loop goes on.
Await(f, x) ==
  /\ Budgeted(f)
  /\ Len(microq) < MaxQueue
  /\ x = None \/ Allocated(x)
  /\ AwaitsBlocked \/ Spares(f, x)
  /\ fstate' = [fstate EXCEPT ![f] = "Suspended"]
  /\ waiting' = [waiting EXCEPT ![f] = x]
  /\ AwaitOn(x, f, <<Do("tail", f)>>, <<Do("leave", f)>>)
  /\ UNCHANGED <<frames, told, fut, left, runq, microq, sweepVars, loopVars>>

\* Mutant of Yield: the promise is replaced before the value is delivered.
YieldTooEarly(f) ==
  /\ Budgeted(f)
  /\ agenda' = <<Do("detach", f), Do("settle", f), Do("leave", f)>>
  /\ UNCHANGED <<fstate, frames, waiting, promiseVars, schedVars, sweepVars, loopVars>>

Yield(f) ==
  /\ Budgeted(f)
  /\ agenda' = <<Do("settle", f), Do("detach", f), Do("leave", f)>>
  /\ UNCHANGED <<fstate, frames, waiting, promiseVars, schedVars, sweepVars, loopVars>>

Instructions ==
  \E f \in Fibers :
    \/ CallFunction(f) \/ CallBadArguments(f) \/ Throw(f)
    \/ TryBegin(f) \/ TryEnd(f) \/ Return(f) \/ Yield(f)
    \/ \E g \in Fibers : Spawn(f, g) \/ SpawnBadArguments(f, g)
    \/ \E p \in Futures, kind \in FutureKinds :
         \E items \in Items(kind) : CreateFuture(f, p, kind, items)
    \/ \E x \in Objs \cup {None} : Await(f, x)

Loop == FireTimer \/ NextTask \/ SweepKeep \/ SweepErase \/ SweepThrow \/ SweepDone

Step == Calls \/ Loop \/ Instructions

Next == Step \/ \E f \in Fibers : Evaluate(f)

\* The loop keeps turning while it is inside Run, scripts end (MaxOps), and
\* the clock passes every deadline.
Fairness == WF_vars(Step) /\ SF_vars(FireTimer)

Spec == Init /\ [][Next]_vars
FairSpec == Spec /\ Fairness
-----------------------------------------------------------------------------
(* Properties.                                                             *)

FiberOps == {"micro", "task", "error", "kill", "bury", "detach", "tail", "leave"}

CallSet ==
  {c \in [op : CallOps, who : Objs \cup {None}, by : Objs \cup {None}, res : Results] :
     /\ c.op \in FiberOps => c.who \in Fibers
     /\ c.op = "arrived" => c.who \in Futures
     /\ c.op \in {"deliver", "settle", "woken", "bump"} => c.who \in Objs
     /\ c.op = "await" => c.by \in Objs}

TypeOK ==
  /\ fstate \in [Fibers -> {"Free", "Running", "Suspended", "Dead"}]
  /\ frames \in [Fibers -> Seq(Nat)]
  /\ waiting \in [Fibers -> Objs \cup {None}]
  /\ ops \in [Fibers -> 0..MaxOps]
  /\ pstat \in [Objs -> {"New", "Pending", "Resolved", "Rejected"}]
  /\ wakers \in [Objs -> Seq(Objs)]
  /\ told \in [Objs -> BOOLEAN]
  /\ fut \in [Futures -> [kind : Kinds \cup {"none"}, of : Seq(Objs \cup {None})]]
  /\ left \in [Futures -> Int]
  /\ runq \in Seq(Fibers)
  /\ microq \in Seq(Fibers)
  /\ timers \in Seq(Futures)
  /\ fibres \in Seq(Fibers)
  /\ kept \in Seq(Fibers)
  /\ scan \in Nat \ {0}
  /\ last \in Fibers \cup {None}
  /\ cur \in Fibers \cup {None}
  /\ phase \in {"host", "drain", "exec", "sweep"}
  /\ outcome \in {"none", "ok", "UnhandledError", "LogicError"}
  /\ reported \in [Fibers -> 0..2]
  /\ agenda \in Seq(CallSet)

Queued(f) == f \in ToSet(runq) \cup ToSet(microq)

\* No lost fiber: a fiber marked Running is in a queue or is the one being
\* executed.  The mark is set in five places and the queues are drained in
\* others; a Running fiber in no queue would never run again, and PushTask
\* and PushMicroTask are the only way back.
RunnableQueued ==
  \A f \in Fibers : fstate[f] = "Running" => cur = f \/ Queued(f)

\* No lost wake-up: a fiber blocked in an await is suspended, and either its
\* waker is stored with the promise it awaits, which has no result yet, or
\* the waker's call is on its way.
BlockedIsOwedAnswer ==
  \A f \in Fibers : waiting[f] # None =>
    /\ fstate[f] = "Suspended"
    /\ \/ /\ pstat[waiting[f]] = "Pending"
          /\ f \in ToSet(wakers[waiting[f]])
       \/ \E i \in DOMAIN agenda :
            /\ agenda[i].op = "deliver"
            /\ agenda[i].who = f /\ agenda[i].by = waiting[f]

\* How many wakers of o are stored with promises.
Registrations(o) ==
  Cardinality(UNION {{<<x, i>> : i \in {j \in DOMAIN wakers[x] : wakers[x][j] = o}} :
                     x \in Objs})

\* No stale waker: between two instructions or turns of the loop a blocked
\* fiber has exactly one waker, and any other fiber none.  A second one would
\* push a stray value on its stack, or unwind it for an error it never awaited.
OneWakerPerAwait ==
  agenda = <<>> =>
    \A f \in Fibers : Registrations(f) = IF waiting[f] = None THEN 0 ELSE 1

\* A pending future is fed: whatever is to complete it is in place.  Sleep has
\* its timer, Timeout its timer and its awaitable, Race every awaitable, and
\* Gather still counts exactly the items whose wakers are stored.
FuturesFed ==
  agenda = <<>> =>
    \A p \in Futures : pstat[p] = "Pending" =>
      /\ fut[p].kind \in {"sleep", "timeout"} => p \in ToSet(timers)
      /\ fut[p].kind # "gather" =>
           \A i \in DOMAIN fut[p].of :
             LET x == fut[p].of[i] IN
               x # None /\ pstat[x] = "Pending" /\ p \in ToSet(wakers[x])
      /\ fut[p].kind = "gather" => left[p] > 0 /\ left[p] = Registrations(p)

\* An error is not lost: a fiber that died of one and has told nobody stays
\* in fibres_, where the sweep finds it, until Run has thrown its error.
ErrorsKept ==
  \A f \in Fibers :
    fstate[f] = "Dead" /\ pstat[f] = "Rejected" /\ ~told[f] =>
      f \in ToSet(fibres) \/ reported[f] > 0

\* When Run returns normally nothing is left behind: no fiber is blocked or
\* runnable, and every dead one has been swept.
NormalReturnIsClean ==
  phase = "host" /\ outcome = "ok" =>
    \A f \in Fibers :
      /\ waiting[f] = None
      /\ fstate[f] # "Running"
      /\ fstate[f] = "Dead" => f \notin ToSet(fibres)

\* A dead fiber stays dead, whatever wake-ups are still on their way to it and
\* whatever the instruction that killed it goes on to do.
DeadStaysDead == [][\A f \in Fibers : fstate[f] = "Dead" => fstate'[f] = "Dead"]_vars

\* A result is written once: of the answer, the error and the timeout that
\* race for a promise the first wins.  Only a live fiber gets a fresh promise,
\* by yielding.
ResultsAreFinal ==
  [][\A o \in Objs : HasResult(o) =>
       pstat'[o] = pstat[o] \/ (o \in Fibers /\ fstate[o] # "Dead")]_vars

\* A fiber that awaits a Sleep or a Timeout runs again, or dies of the error,
\* unless an exception has stopped the event loop.
TimedAwaitsEnd ==
  \A f \in Fibers, p \in Futures :
    (waiting[f] = p /\ Timed(p)) ~> (cur = f \/ fstate[f] = "Dead" \/ phase = "host")

-----------------------------------------------------------------------------
(* What comments and tests of the repository say, and the code does not do.*)

\* instruction.hpp:130: Await leaves the result or the exception of what was
\* awaited: code after an await never runs without it.
NoSpuriousResume == \A f \in Fibers : Executing(f) => waiting[f] = None

\* vm.cpp:264: an uncaught exception terminates the fiber (and only it).
NoFiberIsKilledTwice == outcome # "LogicError"

\* vm.hpp:68: Run goes on while timers remain ...
RunOutlastsTimers == phase = "host" /\ outcome = "ok" => timers = <<>>

\* ... and ends once there is neither runnable work nor a timer.
RunEndsWhenIdle ==
  (microq = <<>> /\ runq = <<>> /\ timers = <<>> /\ cur = None /\ phase = "drain")
    ~> (phase = "host")

\* vm.hpp:77: the VM goes on after an error: one error is reported once.
ErrorsAreReportedOnce == \A f \in Fibers : reported[f] < 2

\* vm.cpp:268: runnable fibers are requeued for fairness: while the loop keeps
\* turning each of them is executed.
EveryTaskGetsATurn ==
  []<>(phase = "drain") =>
    \A f \in Fibers : (f \in ToSet(runq)) ~> (cur = f \/ f \notin ToSet(runq))

=============================================================================
