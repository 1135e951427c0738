------------------------- MODULE FiberRuntimeProofs -------------------------
(***************************************************************************)
(* For every set of fibers and futures.  Whatever scripts do, the          *)
(* runtime's state is well formed, no fiber is lost and no dead fiber      *)
(* comes back (TypeOK and SchedulingInv are inductive), and the result of  *)
(* a promise is written once, and no error is lost (KnownInv and KeptInv   *)
(* are inductive).  For scripts that do not await blocked fibers           *)
(* (AwaitsBlocked is FALSE), no wake-up is lost and no waker is stale      *)
(* (AnswersInv is inductive), Run leaves nothing behind when it returns    *)
(* normally (CleanInv), and every pending future is fed (FedInv).          *)
(***************************************************************************)
EXTENDS FiberInvariants, SequenceTheorems, FiniteSetTheorems, TLAPS

(***************************************************************************)
(* Sequences.                                                              *)
(***************************************************************************)

\* A slice of a sequence is a sequence over the same set.
LEMMA SubSeqType ==
  ASSUME NEW S, NEW s \in Seq(S), NEW m \in Nat \ {0}, NEW n \in Int, n <= Len(s)
  PROVE  SubSeq(s, m, n) \in Seq(S)
  <1>1. CASE n < m
    BY <1>1
  <1>2. CASE m <= n
    BY <1>2, SubSeqProperties
  <1> QED BY <1>1, <1>2

\* Dropping the last element leaves a sequence over the same set.
LEMMA FrontType ==
  ASSUME NEW S, NEW s \in Seq(S)
  PROVE  Front(s) \in Seq(S)
  BY SubSeqType DEF Front

\* So does inserting an element (InsertAt models the timer heap's emplace).
LEMMA InsertAtType ==
  ASSUME NEW S, NEW s \in Seq(S), NEW e \in S, NEW i \in 1..Len(s) + 1
  PROVE  InsertAt(s, i, e) \in Seq(S)
  <1>1. SubSeq(s, 1, i - 1) \in Seq(S)
    BY SubSeqType
  <1>2. SubSeq(s, i, Len(s)) \in Seq(S)
    BY SubSeqType
  <1> QED BY <1>1, <1>2 DEF InsertAt

\* The empty sequence is a sequence over any set.
LEMMA EmptyType ==
  ASSUME NEW S
  PROVE  <<>> \in Seq(S)
  OBVIOUS

\* Updating a sequence at one of its indices, or at none, keeps its type.
LEMMA SeqUpdateType ==
  ASSUME NEW S, NEW s \in Seq(S), NEW n \in Nat, NEW v, n # 0 => v \in S
  PROVE  [s EXCEPT ![n] = v] \in Seq(S)
  <1> DEFINE t == [i \in 1..Len(s) |-> IF i = n THEN v ELSE s[i]]
  <1>1. \A i \in 1..Len(s) : (IF i = n THEN v ELSE s[i]) \in S
    OBVIOUS
  <1>2. Len(s) \in Nat
    OBVIOUS
  <1>3. t \in Seq(S)
    <2> HIDE DEF t
    <2>1. t = [i \in 1..Len(s) |-> t[i]] /\ \A i \in 1..Len(s) : t[i] \in S
      BY <1>1 DEF t
    <2> QED BY <1>2, <2>1
  <1>4. [s EXCEPT ![n] = v] = t
    OBVIOUS
  <1> QED BY <1>3, <1>4

\* A sequence of two elements.
LEMMA PairType ==
  ASSUME NEW S, NEW a \in S, NEW b \in S
  PROVE  <<a, b>> \in Seq(S)
  OBVIOUS

\* Updating a function at one point keeps its type.
LEMMA ExceptType ==
  ASSUME NEW A, NEW B, NEW f \in [A -> B], NEW a, NEW b \in B
  PROVE  [f EXCEPT ![a] = b] \in [A -> B]
  OBVIOUS

(***************************************************************************)
(* Types of the pieces of an agenda.                                       *)
(***************************************************************************)

\* Waking every waiter of a promise puts well-formed calls on the agenda.
LEMMA WakeAllType ==
  ASSUME TypeOK, NEW o \in Objs, NEW r \in Results
  PROVE  WakeAll(o, r) \in Seq(CallSet)
  <1> DEFINE D == [i \in 1..Len(wakers[o]) |-> Call("deliver", wakers[o][i], o, r)]
  <1>1. wakers[o] \in Seq(Objs)
    BY DEF TypeOK
  <1>2. \A i \in 1..Len(wakers[o]) : Call("deliver", wakers[o][i], o, r) \in CallSet
    BY <1>1 DEF CallSet, Call, CallOps, FiberOps
  <1>3. D \in Seq(CallSet)
    BY <1>1, <1>2, IsASeq
  <1>4. Do("woken", o) \in CallSet
    BY DEF CallSet, Call, Do, CallOps, FiberOps, Results
  <1> QED BY <1>3, <1>4 DEF WakeAll

\* So does the first await of a future.
LEMMA InitialAwaitType ==
  ASSUME TypeOK, NEW o \in Objs
  PROVE  InitialAwait(o) \in Seq(CallSet)
  <1>1. CASE o \in Futures
    <2>1. fut[o].of \in Seq(Objs \cup {None})
      BY <1>1 DEF TypeOK
    <2>2. \A i \in 1..Len(fut[o].of) : Call("await", fut[o].of[i], o, "val") \in CallSet
      BY <2>1 DEF CallSet, Call, CallOps, FiberOps, Results
    <2> QED BY <1>1, <2>1, <2>2, IsASeq DEF InitialAwait
  <1>2. CASE o \notin Futures
    BY <1>2 DEF InitialAwait
  <1> QED BY <1>1, <1>2

\* VM::Await keeps promises, timers and agenda well formed.
LEMMA AwaitOnType ==
  ASSUME TypeOK, NEW x \in Objs \cup {None}, NEW by \in Objs,
         NEW ready \in Seq(CallSet), NEW pending \in Seq(CallSet),
         AwaitOn(x, by, ready, pending)
  PROVE  /\ wakers' \in [Objs -> Seq(Objs)]
         /\ pstat' \in [Objs -> {"New", "Pending", "Resolved", "Rejected"}]
         /\ timers' \in Seq(Futures)
         /\ agenda' \in Seq(CallSet)
  <1>0. /\ wakers \in [Objs -> Seq(Objs)]
        /\ pstat \in [Objs -> {"New", "Pending", "Resolved", "Rejected"}]
        /\ timers \in Seq(Futures)
    BY DEF TypeOK
  <1>1. CASE x = None
    <2>1. Call("deliver", by, None, "err") \in CallSet
      BY DEF CallSet, Call, CallOps, FiberOps, Results
    <2>2. /\ agenda' = <<Call("deliver", by, None, "err")>> \o ready
          /\ UNCHANGED <<pstat, wakers, timers>>
      BY <1>1, ObjsAssumption DEF AwaitOn
    <2> QED BY <1>0, <2>1, <2>2
  <1>2. CASE x \in Objs /\ HasResult(x)
    <2>1. Call("deliver", by, x, ResultOf(x)) \in CallSet
      BY <1>2 DEF CallSet, Call, CallOps, FiberOps, Results, ResultOf
    <2>2. Do("bump", x) \in CallSet
      BY <1>2 DEF CallSet, Call, Do, CallOps, FiberOps, Results
    <2>3. /\ agenda' = <<Call("deliver", by, x, ResultOf(x)), Do("bump", x)>> \o ready
          /\ UNCHANGED <<pstat, wakers, timers>>
      BY <1>2, ObjsAssumption DEF AwaitOn
    <2> QED BY <1>0, <2>1, <2>2, <2>3
  <1>3. CASE x \in Objs /\ ~HasResult(x)
    <2>1. InitialAwait(x) \in Seq(CallSet)
      BY <1>3, InitialAwaitType
    <2>2. x \in Fibers => Do("micro", x) \in CallSet
      BY DEF Objs, CallSet, Call, Do, CallOps, FiberOps, Results
    <2>3. /\ wakers' = [wakers EXCEPT ![x] = Append(@, by)]
          /\ pstat'  = [pstat EXCEPT ![x] = "Pending"]
          /\ agenda' = (IF pstat[x] = "New" THEN InitialAwait(x) ELSE <<>>)
                    \o (IF x \in Fibers THEN <<Do("micro", x)>> ELSE <<>>)
                    \o pending
          /\ IF pstat[x] = "New" /\ Timed(x)
             THEN \E i \in 1..Len(timers) + 1 : timers' = InsertAt(timers, i, x)
             ELSE UNCHANGED timers
      BY <1>3, ObjsAssumption DEF AwaitOn
    <2>4. agenda' \in Seq(CallSet)
      <3> DEFINE A == IF pstat[x] = "New" THEN InitialAwait(x) ELSE <<>>
                 B == IF x \in Fibers THEN <<Do("micro", x)>> ELSE <<>>
      <3>1. A \in Seq(CallSet)
        BY <2>1
      <3>2. B \in Seq(CallSet)
        BY <2>2
      <3>3. agenda' = (A \o B) \o pending
        BY <2>3
      <3> HIDE DEF A, B
      <3> QED BY <3>1, <3>2, <3>3, ConcatProperties
    <2>5. timers' \in Seq(Futures)
      BY <1>0, <2>3, InsertAtType DEF Timed
    <2> QED BY <1>0, <1>3, <2>3, <2>4, <2>5
  <1> QED BY <1>1, <1>2, <1>3

\* A call of a fiber operation is well formed.
LEMMA DoType ==
  ASSUME NEW op \in FiberOps, NEW f \in Fibers
  PROVE  Do(op, f) \in CallSet
  BY DEF FiberOps, CallSet, Call, Do, CallOps, Results, Objs

\* The agenda's head is well formed, and so is what follows it.
LEMMA TopType ==
  ASSUME TypeOK, NEW op, Running(op)
  PROVE  /\ Top \in CallSet
         /\ Top.op = op
         /\ Rest \in Seq(CallSet)
  BY HeadTailProperties DEF TypeOK, Running, Top, Rest

-----------------------------------------------------------------------------
(* Type correctness.                                                       *)

\* At the start.
LEMMA InitType == Init => TypeOK
  BY BoundsAssumption DEF Init, TypeOK

\* The calls in progress keep the types.
LEMMA CallsType ==
  ASSUME TypeOK, Calls
  PROVE  TypeOK'
  <1> USE DEF fiberVars, promiseVars, schedVars, sweepVars, loopVars
  <1>a. /\ fstate \in [Fibers -> {"Free", "Running", "Suspended", "Dead"}]
        /\ frames \in [Fibers -> Seq(Nat)]
    BY DEF TypeOK
  <1>b. /\ pstat \in [Objs -> {"New", "Pending", "Resolved", "Rejected"}]
        /\ wakers \in [Objs -> Seq(Objs)]
        /\ told \in [Objs -> BOOLEAN]
    BY DEF TypeOK
  <1>c. runq \in Seq(Fibers) /\ microq \in Seq(Fibers)
    BY DEF TypeOK
  <1>1. CASE AwaitCall
    <2>1. Top \in CallSet /\ Top.op = "await" /\ Rest \in Seq(CallSet)
      BY <1>1, TopType DEF AwaitCall
    <2>2. Top.who \in Objs \cup {None} /\ Top.by \in Objs
      BY <2>1 DEF CallSet
    <2>3. AwaitOn(Top.who, Top.by, Rest, Rest)
      BY <1>1 DEF AwaitCall
    <2>4. /\ wakers' \in [Objs -> Seq(Objs)]
          /\ pstat' \in [Objs -> {"New", "Pending", "Resolved", "Rejected"}]
          /\ timers' \in Seq(Futures)
          /\ agenda' \in Seq(CallSet)
      BY <2>1, <2>2, <2>3, AwaitOnType
    <2> QED BY <1>1, <2>4 DEF AwaitCall, TypeOK
  <1>2. CASE DeliverToFiber
    <2>1. Top \in CallSet /\ Top.op = "deliver" /\ Rest \in Seq(CallSet)
      BY <1>2, TopType DEF DeliverToFiber
    <2>2. Top.who \in Fibers
      BY <1>2 DEF DeliverToFiber
    <2>3. /\ Do("error", Top.who) \in CallSet
          /\ Do("micro", Top.who) \in CallSet
          /\ Top.by \in Fibers => Do("task", Top.by) \in CallSet
      BY <2>2, DoType DEF FiberOps
    <2>4. agenda' \in Seq(CallSet)
      BY <1>2, <2>1, <2>3 DEF DeliverToFiber
    <2> QED BY <1>2, <2>2, <2>4 DEF DeliverToFiber, TypeOK
  <1>3. CASE DeliverToFuture
    <2>1. Top \in CallSet /\ Top.op = "deliver" /\ Rest \in Seq(CallSet)
      BY <1>3, TopType DEF DeliverToFuture
    <2>2. Top.who \in Futures /\ Top.res \in Results
      BY <1>3, <2>1 DEF DeliverToFuture, CallSet
    <2>3. /\ Call("settle", Top.who, None, Top.res) \in CallSet
          /\ Do("arrived", Top.who) \in CallSet
      BY <2>2 DEF CallSet, Call, Do, CallOps, FiberOps, Objs, Results
    <2>4. agenda' \in Seq(CallSet)
      BY <1>3, <2>1, <2>3 DEF DeliverToFuture
    <2> QED BY <1>3, <2>4 DEF DeliverToFuture, TypeOK
  <1>4. CASE Arrived
    <2>1. Top \in CallSet /\ Top.op = "arrived" /\ Rest \in Seq(CallSet)
      BY <1>4, TopType DEF Arrived
    <2>2. Top.who \in Futures
      BY <2>1 DEF CallSet
    <2>3. Do("settle", Top.who) \in CallSet
      BY <2>2 DEF CallSet, Call, Do, CallOps, FiberOps, Objs, Results
    <2>4. agenda' \in Seq(CallSet)
      BY <1>4, <2>1, <2>3 DEF Arrived
    <2>5. left' \in [Futures -> Int]
      BY <1>4, <2>2 DEF Arrived, TypeOK
    <2> QED BY <1>4, <2>4, <2>5 DEF Arrived, TypeOK
  <1>5. CASE Settle
    <2>1. Top \in CallSet /\ Top.op = "settle" /\ Rest \in Seq(CallSet)
      BY <1>5, TopType DEF Settle
    <2>2. Top.who \in Objs /\ Top.res \in Results
      BY <2>1 DEF CallSet
    <2>3. CASE HasResult(Top.who)
      BY <1>5, <2>1, <2>3 DEF Settle, TypeOK
    <2>4. CASE ~HasResult(Top.who)
      <3>1. WakeAll(Top.who, Top.res) \in Seq(CallSet)
        BY <2>2, WakeAllType
      <3>2. agenda' = WakeAll(Top.who, Top.res) \o Rest
        BY <1>5, <2>4 DEF Settle
      <3>3. agenda' \in Seq(CallSet)
        BY <2>1, <3>1, <3>2, ConcatProperties
      <3>4. pstat' = [pstat EXCEPT ![Top.who] = StatusOf(Top.res)]
        BY <1>5, <2>4 DEF Settle
      <3>5. StatusOf(Top.res) \in {"New", "Pending", "Resolved", "Rejected"}
        BY DEF StatusOf
      <3>6. pstat' \in [Objs -> {"New", "Pending", "Resolved", "Rejected"}]
        BY <1>b, <3>4, <3>5, ExceptType
      <3> QED BY <1>5, <3>3, <3>6 DEF Settle, TypeOK
    <2> QED BY <2>3, <2>4
  <1>6. CASE Woken
    <2>1. Rest \in Seq(CallSet)
      BY <1>6, TopType DEF Woken
    <2>2. told' = [told EXCEPT ![Top.who] = @ \/ wakers[Top.who] # <<>>]
      BY <1>6 DEF Woken
    <2>3. (told[Top.who] \/ wakers[Top.who] # <<>>) \in BOOLEAN
      OBVIOUS
    <2>4. told' \in [Objs -> BOOLEAN]
      BY <1>b, <2>2, <2>3, ExceptType, Zenon
    <2>5. wakers' = [wakers EXCEPT ![Top.who] = <<>>]
      BY <1>6 DEF Woken
    <2>6. wakers' \in [Objs -> Seq(Objs)]
      BY <1>b, <2>5, EmptyType, ExceptType
    <2> QED BY <1>6, <2>1, <2>4, <2>6 DEF Woken, TypeOK
  <1>6b. CASE Bump
    <2>1. Rest \in Seq(CallSet)
      BY <1>6b, TopType DEF Bump
    <2>2. told' = [told EXCEPT ![Top.who] = TRUE]
      BY <1>6b DEF Bump
    <2>3. told' \in [Objs -> BOOLEAN]
      BY <1>b, <2>2, ExceptType
    <2> QED BY <1>6b, <2>1, <2>3 DEF Bump, TypeOK
  <1>7. CASE MicroTask
    <2>1. Top \in CallSet /\ Top.op = "micro" /\ Rest \in Seq(CallSet)
      BY <1>7, TopType DEF MicroTask
    <2>2. Top.who \in Fibers
      BY <2>1 DEF CallSet, FiberOps
    <2>3. CASE fstate[Top.who] = "Dead"
      BY <1>7, <2>1, <2>3 DEF MicroTask, TypeOK
    <2>4. CASE fstate[Top.who] # "Dead"
      <3>1. /\ fstate' = [fstate EXCEPT ![Top.who] = "Running"]
            /\ microq' = Append(microq, Top.who)
        BY <1>7, <2>4 DEF MicroTask
      <3>2. fstate' \in [Fibers -> {"Free", "Running", "Suspended", "Dead"}]
        BY <1>a, <3>1, ExceptType
      <3>3. microq' \in Seq(Fibers)
        BY <1>c, <2>2, <3>1
      <3> QED BY <1>7, <2>1, <3>2, <3>3 DEF MicroTask, TypeOK
    <2> QED BY <2>3, <2>4
  <1>8. CASE ResumeAwaited
    <2>1. Top \in CallSet /\ Top.op = "task" /\ Rest \in Seq(CallSet)
      BY <1>8, TopType DEF ResumeAwaited
    <2>2. Top.who \in Fibers
      BY <2>1 DEF CallSet, FiberOps
    <2>3. CASE fstate[Top.who] # "Suspended"
      BY <1>8, <2>1, <2>3 DEF ResumeAwaited, TypeOK
    <2>4. CASE fstate[Top.who] = "Suspended"
      <3>1. /\ fstate' = [fstate EXCEPT ![Top.who] = "Running"]
            /\ runq' = Append(runq, Top.who)
        BY <1>8, <2>4 DEF ResumeAwaited
      <3>2. fstate' \in [Fibers -> {"Free", "Running", "Suspended", "Dead"}]
        BY <1>a, <3>1, ExceptType
      <3>3. runq' \in Seq(Fibers)
        BY <1>c, <2>2, <3>1
      <3> QED BY <1>8, <2>1, <3>2, <3>3 DEF ResumeAwaited, TypeOK
    <2> QED BY <2>3, <2>4
  <1>9. CASE RaiseError
    <2>1. Top \in CallSet /\ Top.op = "error" /\ Rest \in Seq(CallSet)
      BY <1>9, TopType DEF RaiseError
    <2>2. Top.who \in Fibers
      BY <2>1 DEF CallSet, FiberOps
    <2>3. frames[Top.who] \in Seq(Nat)
      BY <2>2 DEF TypeOK
    <2>4. CASE /\ Handling(Top.who) = {}
               /\ frames' = [frames EXCEPT ![Top.who] = <<>>]
               /\ agenda' = <<Call("kill", Top.who, None, "err")>> \o Rest
      <3>1. Call("kill", Top.who, None, "err") \in CallSet
        BY <2>2 DEF CallSet, Call, CallOps, FiberOps, Objs, Results
      <3>2. agenda' \in Seq(CallSet)
        BY <2>1, <2>4, <3>1
      <3>3. frames' \in [Fibers -> Seq(Nat)]
        BY <1>a, <2>2, <2>4, EmptyType, ExceptType
      <3> QED BY <1>9, <3>2, <3>3 DEF RaiseError, TypeOK
    <2>5. ASSUME NEW i \in Handling(Top.who),
                 frames' = [frames EXCEPT ![Top.who] = Append(SubSeq(@, 1, i - 1), @[i] - 1)],
                 agenda' = Rest
          PROVE  TypeOK'
      <3>1. i \in 1..Len(frames[Top.who]) /\ frames[Top.who][i] - 1 \in Nat
        <4>1. i \in DOMAIN frames[Top.who] /\ frames[Top.who][i] > 0
          BY <2>5 DEF Handling
        <4>2. frames[Top.who][i] \in Nat
          BY <2>3, <4>1
        <4> QED BY <2>3, <4>1, <4>2
      <3>2. SubSeq(frames[Top.who], 1, i - 1) \in Seq(Nat)
        BY <2>3, <3>1, SubSeqType
      <3>3. frames' \in [Fibers -> Seq(Nat)]
        <4>1. Append(SubSeq(frames[Top.who], 1, i - 1), frames[Top.who][i] - 1) \in Seq(Nat)
          BY <3>1, <3>2
        <4>2. frames \in [Fibers -> Seq(Nat)]
          BY DEF TypeOK
        <4> QED BY <2>2, <2>5, <4>1, <4>2
      <3> QED BY <1>9, <2>1, <2>5, <3>3 DEF RaiseError, TypeOK
    <2> QED BY <1>9, <2>4, <2>5 DEF RaiseError
  <1>10. CASE Kill
    <2>1. Top \in CallSet /\ Top.op = "kill" /\ Rest \in Seq(CallSet)
      BY <1>10, TopType DEF Kill
    <2>2. Top.who \in Fibers /\ Top.res \in Results
      BY <2>1 DEF CallSet, FiberOps
    <2>3. /\ Call("settle", Top.who, None, Top.res) \in CallSet
          /\ Do("bury", Top.who) \in CallSet
      BY <2>2 DEF CallSet, Call, Do, CallOps, FiberOps, Objs, Results
    <2>4. agenda' \in Seq(CallSet)
      BY <1>10, <2>1, <2>3 DEF Kill
    <2> QED BY <1>10, <2>2, <2>4 DEF Kill, TypeOK
  <1>11. CASE KillDead
    <2>1. agenda' = <<>>
      BY <1>11 DEF KillDead
    <2>2. UNCHANGED <<fiberVars, promiseVars, schedVars, sweepVars>>
      BY <1>11 DEF KillDead
    <2>3. \/ UNCHANGED loopVars
          \/ cur' = None /\ phase' = "host" /\ outcome' = "LogicError"
      BY <1>11 DEF KillDead
    <2>4. agenda' \in Seq(CallSet)
      BY <2>1, EmptyType
    <2>5. CASE UNCHANGED loopVars
      BY <2>2, <2>4, <2>5 DEF fiberVars, promiseVars, schedVars, sweepVars,
                              loopVars, TypeOK
    <2>6. CASE cur' = None /\ phase' = "host" /\ outcome' = "LogicError"
      BY <2>2, <2>4, <2>6 DEF fiberVars, promiseVars, schedVars, sweepVars, TypeOK
    <2> QED BY <2>3, <2>5, <2>6
  <1>12. CASE Bury
    <2>1. Top \in CallSet /\ Top.op = "bury" /\ Rest \in Seq(CallSet)
      BY <1>12, TopType DEF Bury
    <2>2. frames' = [frames EXCEPT ![Top.who] = <<>>]
      BY <1>12 DEF Bury
    <2>3. frames' \in [Fibers -> Seq(Nat)]
      BY <1>a, <2>2, EmptyType, ExceptType
    <2> QED BY <1>12, <2>1, <2>3 DEF Bury, TypeOK
  <1>13. CASE Detach
    <2>1. Rest \in Seq(CallSet)
      BY <1>13, TopType DEF Detach
    <2>2. /\ pstat' = [pstat EXCEPT ![Top.who] = "New"]
          /\ wakers' = [wakers EXCEPT ![Top.who] = <<>>]
          /\ told' = [told EXCEPT ![Top.who] = FALSE]
          /\ fstate' = [fstate EXCEPT ![Top.who] = "Suspended"]
      BY <1>13 DEF Detach
    <2>3. pstat' \in [Objs -> {"New", "Pending", "Resolved", "Rejected"}]
      BY <1>b, <2>2, ExceptType
    <2>4. wakers' \in [Objs -> Seq(Objs)]
      BY <1>b, <2>2, EmptyType, ExceptType
    <2>5. told' \in [Objs -> BOOLEAN]
      BY <1>b, <2>2, ExceptType
    <2>6. fstate' \in [Fibers -> {"Free", "Running", "Suspended", "Dead"}]
      BY <1>a, <2>2, ExceptType
    <2> QED BY <1>13, <2>1, <2>3, <2>4, <2>5, <2>6 DEF Detach, TypeOK
  <1>14. CASE LoopTail
    <2>1. Top \in CallSet /\ Top.op = "tail"
      BY <1>14, TopType DEF LoopTail
    <2>2. Do("kill", Top.who) \in CallSet /\ Do("leave", Top.who) \in CallSet
      BY <2>1, DoType DEF CallSet, FiberOps
    <2>3. agenda' \in Seq(CallSet)
      BY <1>14, <2>2 DEF LoopTail
    <2> QED BY <1>14, <2>3 DEF LoopTail, TypeOK
  <1>15. CASE Leave
    <2>1. Top \in CallSet /\ Top.op = "leave" /\ Rest \in Seq(CallSet)
      BY <1>15, TopType DEF Leave
    <2>2. Top.who \in Fibers
      BY <2>1 DEF CallSet, FiberOps
    <2>3. runq' \in Seq(Fibers)
      <3>1. runq' \in {runq, Append(runq, Top.who)}
        BY <1>15 DEF Leave
      <3> QED BY <1>c, <2>2, <3>1
    <2> QED BY <1>15, <2>1, <2>3 DEF Leave, TypeOK
  <1> QED BY <1>1, <1>2, <1>3, <1>4, <1>5, <1>6, <1>6b, <1>7, <1>8, <1>9, <1>10,
             <1>11, <1>12, <1>13, <1>14, <1>15 DEF Calls

\* So does the event loop.
LEMMA LoopType ==
  ASSUME TypeOK, Loop
  PROVE  TypeOK'
  <1> USE DEF fiberVars, promiseVars, schedVars, sweepVars, loopVars
  <1>a. /\ runq \in Seq(Fibers) /\ microq \in Seq(Fibers)
        /\ timers \in Seq(Futures)
        /\ fibres \in Seq(Fibers) /\ kept \in Seq(Fibers)
        /\ scan \in Nat \ {0}
        /\ reported \in [Fibers -> 0..2]
    BY DEF TypeOK
  <1>1. CASE FireTimer
    <2>1. Head(timers) \in Futures /\ Tail(timers) \in Seq(Futures)
      BY <1>a, <1>1, HeadTailProperties DEF FireTimer
    <2>2. \A r \in Results : Call("settle", Head(timers), None, r) \in CallSet
      BY <2>1 DEF CallSet, Call, CallOps, FiberOps, Objs
    <2>3. agenda' \in Seq(CallSet)
      BY <1>1, <2>2 DEF FireTimer, Results
    <2> QED BY <1>1, <2>1, <2>3 DEF FireTimer, TypeOK
  <1>2. CASE NextTask
    <2>1. ASSUME NEW f \in Fibers, RunOrSkip(f)
          PROVE  /\ cur' \in Fibers \cup {None}
                 /\ phase' \in {"host", "drain", "exec", "sweep"}
                 /\ outcome' = outcome
                 /\ agenda' \in Seq(CallSet)
      <3>1. Do("kill", f) \in CallSet /\ Do("leave", f) \in CallSet
        BY DoType DEF FiberOps
      <3>2. CASE Execute(f)
        BY <3>1, <3>2 DEF Execute
      <3>3. CASE Skip
        BY <3>3 DEF Skip, TypeOK
      <3> QED BY <2>1, <3>2, <3>3 DEF RunOrSkip
    <2>2. CASE /\ microq # <<>>
               /\ microq' = Front(microq)
               /\ RunOrSkip(Last(microq))
               /\ UNCHANGED runq
      <3>1. Last(microq) \in Fibers
        BY <1>a, <2>2 DEF Last
      <3>2. microq' \in Seq(Fibers)
        BY <1>a, <2>2, FrontType
      <3> QED BY <1>2, <2>1, <2>2, <3>1, <3>2 DEF NextTask, TypeOK
    <2>3. CASE /\ runq # <<>>
               /\ runq' = Tail(runq)
               /\ RunOrSkip(Head(runq))
               /\ UNCHANGED microq
      <3>1. Head(runq) \in Fibers /\ runq' \in Seq(Fibers)
        BY <1>a, <2>3, HeadTailProperties
      <3> QED BY <1>2, <2>1, <2>3, <3>1 DEF NextTask, TypeOK
    <2>4. CASE Skip /\ UNCHANGED <<runq, microq>>
      BY <1>2, <2>4 DEF Skip, NextTask, TypeOK
    <2> QED BY <1>2, <2>2, <2>3, <2>4 DEF NextTask
  <1>3. CASE SweepKeep
    <2>1. fibres[scan] \in Fibers
      BY <1>a, <1>3 DEF SweepKeep
    <2>2. kept' \in Seq(Fibers) /\ scan' \in Nat \ {0}
      BY <1>a, <1>3, <2>1 DEF SweepKeep
    <2> QED BY <1>3, <2>2 DEF SweepKeep, TypeOK
  <1>4. CASE SweepErase
    <2>1. fibres[scan] \in Fibers
      BY <1>a, <1>4 DEF SweepErase
    <2>2. last' \in Fibers \cup {None} /\ scan' \in Nat \ {0}
      BY <1>a, <1>4, <2>1 DEF SweepErase, TypeOK
    <2> QED BY <1>4, <2>2 DEF SweepErase, TypeOK
  <1>5. CASE SweepThrow
    <2>1. fibres[scan] \in Fibers
      BY <1>a, <1>5 DEF SweepThrow
    <2> DEFINE n == reported[fibres[scan]]
    <2>2. reported' = [reported EXCEPT ![fibres[scan]] = IF n < 2 THEN n + 1 ELSE 2]
      BY <1>5 DEF SweepThrow
    <2>3. reported' \in [Fibers -> 0..2]
      <3>1. n \in 0..2
        BY <1>a, <2>1
      <3>2. (IF n < 2 THEN n + 1 ELSE 2) \in 0..2
        BY <3>1
      <3> QED BY <1>a, <2>2, <3>2, ExceptType
    <2>4. SubSeq(fibres, Len(kept) + 1, Len(fibres)) \in Seq(Fibers)
      BY <1>a, SubSeqType
    <2>5. fibres' \in Seq(Fibers)
      BY <1>a, <1>5, <2>4, ConcatProperties DEF SweepThrow
    <2>6. kept' \in Seq(Fibers) /\ scan' \in Nat \ {0}
      BY <1>5, EmptyType DEF SweepThrow
    <2> QED BY <1>5, <2>3, <2>5, <2>6 DEF SweepThrow, TypeOK
  <1>6. CASE SweepDone
    <2>1. kept' \in Seq(Fibers) /\ fibres' \in Seq(Fibers) /\ scan' \in Nat \ {0}
      BY <1>a, <1>6, EmptyType DEF SweepDone
    <2>2. /\ phase' \in {"host", "drain", "exec", "sweep"}
          /\ outcome' \in {"none", "ok", "UnhandledError", "LogicError"}
      BY <1>6 DEF SweepDone, TypeOK
    <2> QED BY <1>6, <2>1, <2>2 DEF SweepDone, TypeOK
  <1> QED BY <1>1, <1>2, <1>3, <1>4, <1>5, <1>6 DEF Loop

\* An instruction within its budget keeps the counter within its bound.
LEMMA BudgetType ==
  ASSUME TypeOK, NEW f \in Fibers, Budgeted(f)
  PROVE  ops' \in [Fibers -> 0..MaxOps]
  <1>1. ops \in [Fibers -> 0..MaxOps] /\ MaxOps \in Nat
    BY BoundsAssumption DEF TypeOK
  <1>2. CASE f \in Loopers
    BY <1>1, <1>2 DEF Budgeted
  <1>3. CASE f \notin Loopers
    <2>1. ops' = [ops EXCEPT ![f] = ops[f] + 1]
      BY <1>3 DEF Budgeted
    <2>2. ops[f] + 1 \in 0..MaxOps
      BY <1>1 DEF Budgeted
    <2> QED BY <1>1, <2>1, <2>2, ExceptType
  <1> QED BY <1>2, <1>3

\* So do the instructions of the running fiber.
LEMMA InstructionsType ==
  ASSUME TypeOK, Instructions
  PROVE  TypeOK'
  <1> USE DEF fiberVars, promiseVars, schedVars, sweepVars, loopVars
  <1>a. /\ fstate \in [Fibers -> {"Free", "Running", "Suspended", "Dead"}]
        /\ frames \in [Fibers -> Seq(Nat)]
        /\ waiting \in [Fibers -> Objs \cup {None}]
    BY DEF TypeOK
  <1>b. /\ pstat \in [Objs -> {"New", "Pending", "Resolved", "Rejected"}]
        /\ fut \in [Futures -> [kind : Kinds \cup {"none"}, of : Seq(Objs \cup {None})]]
        /\ left \in [Futures -> Int]
    BY DEF TypeOK
  <1>c. runq \in Seq(Fibers) /\ fibres \in Seq(Fibers)
    BY DEF TypeOK
  <1> PICK f \in Fibers :
        \/ CallFunction(f) \/ CallBadArguments(f) \/ Throw(f)
        \/ TryBegin(f) \/ TryEnd(f) \/ Return(f) \/ Yield(f)
        \/ \E g \in Fibers : Spawn(f, g) \/ SpawnBadArguments(f, g)
        \/ \E p \in Futures, kind \in FutureKinds :
             \E items \in Items(kind) : CreateFuture(f, p, kind, items)
        \/ \E x \in Objs \cup {None} : Await(f, x)
    BY DEF Instructions
  <1>d. Budgeted(f) => ops' \in [Fibers -> 0..MaxOps]
    BY BudgetType
  <1>e. frames[f] \in Seq(Nat)
    BY <1>a
  <1>f. \A op \in FiberOps : Do(op, f) \in CallSet
    BY DoType
  <1>1. CASE CallFunction(f)
    <2>1. frames' = [frames EXCEPT ![f] = Append(frames[f], 0)]
      BY <1>1 DEF CallFunction
    <2>2. Append(frames[f], 0) \in Seq(Nat)
      BY <1>e
    <2>3. frames' \in [Fibers -> Seq(Nat)]
      BY <1>a, <2>1, <2>2, ExceptType
    <2> QED BY <1>1, <1>d, <2>3 DEF CallFunction, TypeOK
  <1>2. CASE CallBadArguments(f) \/ Throw(f)
    <2>1. /\ Do("error", f) \in CallSet
          /\ Do("tail", f) \in CallSet
          /\ Do("leave", f) \in CallSet
      BY <1>f DEF FiberOps
    <2>2. \/ agenda' = <<Do("error", f), Do("tail", f)>>
          \/ agenda' = <<Do("error", f), Do("leave", f)>>
      BY <1>2 DEF CallBadArguments, Throw
    <2>3. agenda' \in Seq(CallSet)
      BY <2>1, <2>2, PairType
    <2> QED BY <1>2, <1>d, <2>3 DEF CallBadArguments, Throw, TypeOK
  <1>3. CASE TryBegin(f) \/ TryEnd(f)
    <2> DEFINE n == Len(frames[f])
    <2>1. n \in Nat /\ (n # 0 => frames[f][n] \in Nat)
      BY <1>e
    <2>2. CASE TryBegin(f)
      <3>1. frames' = [frames EXCEPT ![f] = [frames[f] EXCEPT ![n] = frames[f][n] + 1]]
        BY <2>2 DEF TryBegin
      <3>2. [frames[f] EXCEPT ![n] = frames[f][n] + 1] \in Seq(Nat)
        BY <1>e, <2>1, SeqUpdateType
      <3>3. frames' \in [Fibers -> Seq(Nat)]
        BY <1>a, <3>1, <3>2, ExceptType
      <3> QED BY <1>d, <2>2, <3>3 DEF TryBegin, TypeOK
    <2>3. CASE TryEnd(f)
      <3>1. frames' = [frames EXCEPT ![f] = [frames[f] EXCEPT ![n] = frames[f][n] - 1]]
        BY <2>3 DEF TryEnd
      <3>2. n # 0 => frames[f][n] - 1 \in Nat
        BY <2>1, <2>3 DEF TryEnd, Last
      <3>3. [frames[f] EXCEPT ![n] = frames[f][n] - 1] \in Seq(Nat)
        BY <1>e, <2>1, <3>2, SeqUpdateType
      <3>4. frames' \in [Fibers -> Seq(Nat)]
        BY <1>a, <3>1, <3>3, ExceptType
      <3> QED BY <1>d, <2>3, <3>4 DEF TryEnd, TypeOK
    <2> QED BY <1>3, <2>2, <2>3
  <1>4. CASE Return(f)
    <2>1. frames' = [frames EXCEPT ![f] = Front(frames[f])]
      BY <1>4 DEF Return
    <2>2. frames' \in [Fibers -> Seq(Nat)]
      BY <1>a, <1>e, <2>1, FrontType, ExceptType
    <2>3. agenda' \in Seq(CallSet)
      BY <1>4, <1>f DEF Return, FiberOps
    <2> QED BY <1>4, <2>2, <2>3 DEF Return, TypeOK
  <1>5. CASE Yield(f)
    <2>1. Do("settle", f) \in CallSet
      BY DEF CallSet, Call, Do, CallOps, FiberOps, Objs, Results
    <2>2. agenda' \in Seq(CallSet)
      BY <1>5, <1>f, <2>1 DEF Yield, FiberOps
    <2> QED BY <1>5, <1>d, <2>2 DEF Yield, TypeOK
  <1>6. ASSUME NEW g \in Fibers, Spawn(f, g)
        PROVE  TypeOK'
    <2>1. PICK fr \in {<<>>, <<0>>} : frames' = [frames EXCEPT ![g] = fr]
      BY <1>6 DEF Spawn
    <2>2. frames' = [frames EXCEPT ![g] = <<>>] \/ frames' = [frames EXCEPT ![g] = <<0>>]
      BY <2>1
    <2>3. frames' \in [Fibers -> Seq(Nat)]
      <3>1. <<0>> \in Seq(Nat)
        OBVIOUS
      <3>2. CASE frames' = [frames EXCEPT ![g] = <<>>]
        BY <1>a, <3>2, EmptyType, ExceptType
      <3>3. CASE frames' = [frames EXCEPT ![g] = <<0>>]
        BY <1>a, <3>1, <3>3, ExceptType
      <3> QED BY <2>2, <3>2, <3>3
    <2>4. fstate' \in [Fibers -> {"Free", "Running", "Suspended", "Dead"}]
      BY <1>a, <1>6, ExceptType DEF Spawn
    <2>5. fibres' \in Seq(Fibers) /\ runq' \in Seq(Fibers)
      BY <1>c, <1>6 DEF Spawn
    <2> QED BY <1>6, <1>d, <2>3, <2>4, <2>5 DEF Spawn, TypeOK
  <1>7. ASSUME NEW g \in Fibers, SpawnBadArguments(f, g)
        PROVE  TypeOK'
    <2>1. fstate' \in [Fibers -> {"Free", "Running", "Suspended", "Dead"}]
      BY <1>a, <1>7, ExceptType DEF SpawnBadArguments
    <2>2. pstat' \in [Objs -> {"New", "Pending", "Resolved", "Rejected"}]
      BY <1>b, <1>7, ExceptType DEF SpawnBadArguments
    <2>3. fibres' \in Seq(Fibers)
      BY <1>c, <1>7 DEF SpawnBadArguments
    <2> QED BY <1>7, <1>d, <2>1, <2>2, <2>3 DEF SpawnBadArguments, TypeOK
  <1>8. ASSUME NEW p \in Futures, NEW kind \in FutureKinds,
               NEW items \in Items(kind), CreateFuture(f, p, kind, items)
        PROVE  TypeOK'
    <2>1. PICK n \in Arity(kind) : items \in [1..n -> Objs \cup {None}]
      BY DEF Items
    <2>2. n \in Nat
      BY BoundsAssumption DEF Arity
    <2>3. items \in Seq(Objs \cup {None})
      BY <2>1, <2>2
    <2>4. [kind |-> kind, of |-> items]
            \in [kind : Kinds \cup {"none"}, of : Seq(Objs \cup {None})]
      BY <2>3, ScriptAssumption
    <2>5. fut' \in [Futures -> [kind : Kinds \cup {"none"}, of : Seq(Objs \cup {None})]]
      <3>1. fut' = [fut EXCEPT ![p] = [kind |-> kind, of |-> items]]
        BY <1>8 DEF CreateFuture
      <3> QED BY <1>b, <2>4, <3>1, ExceptType
    <2>6. left' \in [Futures -> Int]
      <3>1. left' = [left EXCEPT ![p] = Len(items)]
        BY <1>8 DEF CreateFuture
      <3>2. Len(items) \in Int
        BY <2>3
      <3> QED BY <1>b, <3>1, <3>2, ExceptType
    <2>7. pstat' \in [Objs -> {"New", "Pending", "Resolved", "Rejected"}]
      BY <1>b, <1>8, ExceptType DEF CreateFuture
    <2> QED BY <1>8, <1>d, <2>5, <2>6, <2>7 DEF CreateFuture, TypeOK
  <1>9. ASSUME NEW x \in Objs \cup {None}, Await(f, x)
        PROVE  TypeOK'
    <2>1. fstate' \in [Fibers -> {"Free", "Running", "Suspended", "Dead"}]
      BY <1>a, <1>9, ExceptType DEF Await
    <2>2. waiting' \in [Fibers -> Objs \cup {None}]
      BY <1>a, <1>9, ExceptType DEF Await
    <2>3. <<Do("tail", f)>> \in Seq(CallSet) /\ <<Do("leave", f)>> \in Seq(CallSet)
      BY <1>f DEF FiberOps
    <2>4. AwaitOn(x, f, <<Do("tail", f)>>, <<Do("leave", f)>>)
      BY <1>9 DEF Await
    <2>5. f \in Objs
      BY DEF Objs
    <2>6. /\ wakers' \in [Objs -> Seq(Objs)]
          /\ pstat' \in [Objs -> {"New", "Pending", "Resolved", "Rejected"}]
          /\ timers' \in Seq(Futures)
          /\ agenda' \in Seq(CallSet)
      BY <2>3, <2>4, <2>5, AwaitOnType
    <2> QED BY <1>9, <1>d, <2>1, <2>2, <2>6 DEF Await, TypeOK
  <1> QED BY <1>1, <1>2, <1>3, <1>4, <1>5, <1>6, <1>7, <1>8, <1>9

\* So does a host that evaluates a script.
LEMMA EvaluateType ==
  ASSUME TypeOK, NEW f \in Fibers, Evaluate(f)
  PROVE  TypeOK'
  <1>1. /\ fstate \in [Fibers -> {"Free", "Running", "Suspended", "Dead"}]
        /\ frames \in [Fibers -> Seq(Nat)]
        /\ fibres \in Seq(Fibers) /\ runq \in Seq(Fibers)
    BY DEF TypeOK
  <1>2. fstate' \in [Fibers -> {"Free", "Running", "Suspended", "Dead"}]
    BY <1>1, ExceptType DEF Evaluate
  <1>3. frames' = [frames EXCEPT ![f] = <<0>>] /\ <<0>> \in Seq(Nat)
    BY DEF Evaluate
  <1>4. frames' \in [Fibers -> Seq(Nat)]
    BY <1>1, <1>3, ExceptType
  <1>5. fibres' \in Seq(Fibers) /\ runq' \in Seq(Fibers)
    BY <1>1 DEF Evaluate
  <1> QED BY <1>2, <1>4, <1>5 DEF Evaluate, TypeOK, promiseVars

\* And a step that changes nothing.
LEMMA StutterType ==
  ASSUME TypeOK, UNCHANGED vars
  PROVE  TypeOK'
  BY DEF vars, fiberVars, promiseVars, schedVars, sweepVars, loopVars, TypeOK

\* Every state of the runtime is well formed: queues hold fibers, wakers are
\* objects, every pending call has the operands its operation needs.
THEOREM TypeCorrect == Spec => []TypeOK
  <1>1. TypeOK /\ [Next]_vars => TypeOK'
    BY CallsType, LoopType, InstructionsType, EvaluateType, StutterType DEF Next, Step
  <1> QED BY InitType, <1>1, PTL DEF Spec

-----------------------------------------------------------------------------
(***************************************************************************)
(* The scheduler: SchedulingInv is inductive.                              *)
(***************************************************************************)

\* Calls that are not the last ones of ExecuteFiber, nor the end of a Yield.
PlainCalls == {c \in CallSet : c.op \notin Control \cup {"detach"}}

\* Calls of a cascade of values.
CalmCalls == {c \in CallSet : c.op \in CalmOps /\ c.res = "val"}

(***************************************************************************)
(* Executing the head of an agenda puts some calls in its place.           *)
(***************************************************************************)

\* The element at each index of the new agenda.
LEMMA PushIndices ==
  ASSUME NEW a \in Seq(CallSet), a # <<>>, NEW X \in Seq(CallSet)
  PROVE  /\ Len(X \o Tail(a)) = Len(X) + Len(a) - 1
         /\ \A j \in 1..Len(X) : (X \o Tail(a))[j] = X[j]
         /\ \A i \in 2..Len(a) : (X \o Tail(a))[Len(X) + i - 1] = a[i]
         /\ \A j \in 1..Len(X \o Tail(a)) :
              \/ j \in 1..Len(X)
              \/ \E i \in 2..Len(a) : j = Len(X) + i - 1
  <1>1. Tail(a) \in Seq(CallSet) /\ Len(Tail(a)) = Len(a) - 1
    BY HeadTailProperties
  <1>2. \A i \in 2..Len(a) : Tail(a)[i - 1] = a[i]
    BY HeadTailProperties
  <1>3. Len(X \o Tail(a)) = Len(X) + Len(a) - 1
    BY <1>1, ConcatProperties
  <1>4. \A j \in 1..Len(X) : (X \o Tail(a))[j] = X[j]
    BY <1>1, ConcatProperties
  <1>5. \A i \in 2..Len(a) : (X \o Tail(a))[Len(X) + i - 1] = a[i]
    BY <1>1, <1>2, ConcatProperties
  <1>6. ASSUME NEW j \in 1..Len(X \o Tail(a)), j \notin 1..Len(X)
        PROVE  \E i \in 2..Len(a) : j = Len(X) + i - 1
    <2>1. j - Len(X) + 1 \in 2..Len(a) /\ j = Len(X) + (j - Len(X) + 1) - 1
      BY <1>3, <1>6
    <2> QED BY <2>1
  <1> QED BY <1>3, <1>4, <1>5, <1>6

\* What being a sequence of plain calls means, index by index.
LEMMA PlainSeq ==
  ASSUME NEW X \in Seq(PlainCalls)
  PROVE  /\ X \in Seq(CallSet)
         /\ \A i \in 1..Len(X) : X[i].op \notin Control \cup {"detach"}
  BY DEF PlainCalls

\* The same for calm calls.
LEMMA CalmSeq ==
  ASSUME NEW X \in Seq(CalmCalls)
  PROVE  /\ X \in Seq(CallSet)
         /\ \A i \in 1..Len(X) : X[i].op \in CalmOps /\ X[i].res = "val"
  BY DEF CalmCalls

\* What a call other than the last ones of ExecuteFiber does to the shape of
\* the agenda: nothing, if it calls neither of them and detaches nobody.
LEMMA PushShape ==
  ASSUME TypeOK, AgendaShape, agenda # <<>>, Head(agenda).op \notin Control,
         NEW X \in Seq(PlainCalls),
         agenda' = X \o Tail(agenda),
         UNCHANGED <<phase, cur>>
  PROVE  /\ AgendaShape'
         /\ phase = "exec" => agenda' # <<>>
  <1>0. /\ X \in Seq(CallSet)
        /\ \A i \in 1..Len(X) : X[i].op \notin Control \cup {"detach"}
    BY PlainSeq
  <1>1. agenda \in Seq(CallSet)
    BY DEF TypeOK
  <1> DEFINE r == X \o Tail(agenda)
  <1>2. /\ Len(r) = Len(X) + Len(agenda) - 1
        /\ \A j \in 1..Len(X) : r[j] = X[j]
        /\ \A i \in 2..Len(agenda) : r[Len(X) + i - 1] = agenda[i]
        /\ \A j \in 1..Len(r) : \/ j \in 1..Len(X)
                                \/ \E i \in 2..Len(agenda) : j = Len(X) + i - 1
    BY <1>0, <1>1, PushIndices
  <1>3. r \in Seq(CallSet) /\ Len(X) \in Nat /\ Len(agenda) \in Nat /\ Len(agenda) > 0
    BY <1>0, <1>1, HeadTailProperties
  <1>a. agenda' = r /\ DOMAIN agenda' = 1..Len(r) /\ DOMAIN agenda = 1..Len(agenda)
    BY <1>1, <1>3
  <1> HIDE DEF r
  <1>4. CASE phase \in {"host", "sweep"}
    BY <1>4 DEF AgendaShape
  <1>5. CASE phase = "drain"
    <2>1. \A i \in 1..Len(agenda) : agenda[i].op \notin Control \cup {"detach"}
      BY <1>1, <1>5 DEF AgendaShape
    <2>2. ASSUME NEW j \in 1..Len(r)
          PROVE  r[j].op \notin Control \cup {"detach"}
      <3>1. CASE j \in 1..Len(X)
        BY <1>0, <1>2, <3>1
      <3>2. ASSUME NEW i \in 2..Len(agenda), j = Len(X) + i - 1
            PROVE  r[j].op \notin Control \cup {"detach"}
        <4>1. r[j] = agenda[i] /\ i \in 1..Len(agenda)
          BY <1>2, <1>3, <3>2
        <4> QED BY <2>1, <4>1
      <3> QED BY <1>2, <3>1, <3>2
    <2> QED BY <1>a, <1>5, <2>2 DEF AgendaShape
  <1>6. CASE phase = "exec"
    <2>1. /\ agenda[Len(agenda)] \in {Do("tail", cur), Do("leave", cur)}
          /\ \A i \in 1..Len(agenda) - 1 : agenda[i].op \notin Control
      BY <1>6 DEF AgendaShape
    <2>2. agenda[Len(agenda)].op \in Control
      BY <2>1 DEF Do, Call, Control
    <2>3. Len(agenda) >= 2
      BY <1>1, <1>3, <2>2, HeadTailProperties
    <2>4. r[Len(r)] = agenda[Len(agenda)]
      BY <1>2, <1>3, <2>3
    <2>5. ASSUME NEW j \in 1..Len(r) - 1
          PROVE  r[j].op \notin Control
      <3>0. j \in 1..Len(r)
        BY <1>2, <1>3
      <3>1. CASE j \in 1..Len(X)
        BY <1>0, <1>2, <3>1
      <3>2. ASSUME NEW i \in 2..Len(agenda), j = Len(X) + i - 1
            PROVE  r[j].op \notin Control
        <4>1. r[j] = agenda[i] /\ i \in 1..Len(agenda) - 1
          BY <1>2, <1>3, <3>2
        <4> QED BY <2>1, <4>1
      <3> QED BY <1>2, <3>0, <3>1, <3>2
    <2>6. r # <<>>
      BY <1>2, <1>3, <2>3
    <2> QED BY <1>a, <1>6, <2>1, <2>4, <2>5, <2>6 DEF AgendaShape
  <1> QED BY <1>4, <1>5, <1>6 DEF TypeOK

\* A calm agenda stays calm if the calls put in front are.
LEMMA PushCalm ==
  ASSUME TypeOK, agenda # <<>>, Calm,
         NEW X \in Seq(CalmCalls),
         agenda' = X \o Tail(agenda)
  PROVE  Calm'
  <1>0. /\ X \in Seq(CallSet)
        /\ \A i \in 1..Len(X) : X[i].op \in CalmOps /\ X[i].res = "val"
    BY DEF CalmCalls
  <1>1. agenda \in Seq(CallSet)
    BY DEF TypeOK
  <1> DEFINE r == X \o Tail(agenda)
  <1>2. /\ Len(r) = Len(X) + Len(agenda) - 1
        /\ \A j \in 1..Len(X) : r[j] = X[j]
        /\ \A i \in 2..Len(agenda) : r[Len(X) + i - 1] = agenda[i]
        /\ \A j \in 1..Len(r) : \/ j \in 1..Len(X)
                                \/ \E i \in 2..Len(agenda) : j = Len(X) + i - 1
    BY <1>0, <1>1, PushIndices
  <1>3. r \in Seq(CallSet) /\ Len(X) \in Nat /\ Len(agenda) \in Nat
    BY <1>0, <1>1, HeadTailProperties
  <1>a. agenda' = r /\ DOMAIN agenda' = 1..Len(r) /\ DOMAIN agenda = 1..Len(agenda)
    BY <1>1, <1>3
  <1> HIDE DEF r
  <1>4. \A i \in 1..Len(agenda) : agenda[i].op \in CalmOps /\ agenda[i].res = "val"
    BY <1>1 DEF Calm
  <1>5. ASSUME NEW j \in 1..Len(r)
        PROVE  r[j].op \in CalmOps /\ r[j].res = "val"
    <2>1. CASE j \in 1..Len(X)
      BY <1>0, <1>2, <2>1
    <2>2. ASSUME NEW i \in 2..Len(agenda), j = Len(X) + i - 1
          PROVE  r[j].op \in CalmOps /\ r[j].res = "val"
      <3>1. r[j] = agenda[i] /\ i \in 1..Len(agenda)
        BY <1>2, <1>3, <2>2
      <3> QED BY <1>4, <3>1
    <2> QED BY <1>2, <2>1, <2>2
  <1> QED BY <1>a, <1>5 DEF Calm

\* What is to be detached later was to be detached before.
LEMMA PushDetach ==
  ASSUME TypeOK, agenda # <<>>,
         NEW X \in Seq(PlainCalls),
         agenda' = X \o Tail(agenda),
         NEW j \in DOMAIN agenda', agenda'[j].op = "detach"
  PROVE  \E i \in DOMAIN agenda : agenda[i] = agenda'[j]
  <1>0. /\ X \in Seq(CallSet)
        /\ \A i \in 1..Len(X) : X[i].op # "detach"
    BY DEF PlainCalls
  <1>1. agenda \in Seq(CallSet)
    BY DEF TypeOK
  <1> DEFINE r == X \o Tail(agenda)
  <1>2. /\ Len(r) = Len(X) + Len(agenda) - 1
        /\ \A k \in 1..Len(X) : r[k] = X[k]
        /\ \A i \in 2..Len(agenda) : r[Len(X) + i - 1] = agenda[i]
        /\ \A k \in 1..Len(r) : \/ k \in 1..Len(X)
                                \/ \E i \in 2..Len(agenda) : k = Len(X) + i - 1
    BY <1>0, <1>1, PushIndices
  <1>3. r \in Seq(CallSet)
    BY <1>0, <1>1, HeadTailProperties
  <1>a. agenda' = r /\ DOMAIN agenda' = 1..Len(r) /\ DOMAIN agenda = 1..Len(agenda)
    BY <1>1, <1>3
  <1> HIDE DEF r
  <1>4. j \in 1..Len(r) /\ r[j].op = "detach" /\ r[j] = agenda'[j]
    BY <1>a
  <1>5. PICK i \in 2..Len(agenda) : j = Len(X) + i - 1
    BY <1>0, <1>2, <1>4
  <1>6. i \in DOMAIN agenda /\ r[j] = agenda[i]
    BY <1>a, <1>1, <1>2, <1>5
  <1> QED BY <1>4, <1>6

(***************************************************************************)
(* One call of a cascade preserves the invariant if no fiber becomes       *)
(* Running without being queued, nobody leaves a queue, and in a calm      *)
(* agenda the executed fiber neither dies nor loses its frames.            *)
(***************************************************************************)

LEMMA CascadeStep ==
  ASSUME SchedulingInv, agenda # <<>>, Head(agenda).op \notin Control,
         NEW X \in Seq(PlainCalls),
         Calm => X \in Seq(CalmCalls),
         agenda' = X \o Tail(agenda),
         UNCHANGED <<phase, cur>>,
         \A f \in Fibers : Queued(f) => Queued(f)',
         \A f \in Fibers :
           fstate'[f] = "Running" => fstate[f] = "Running" \/ Queued(f)',
         Calm /\ cur \in Fibers =>
           /\ frames'[cur] = frames[cur]
           /\ fstate[cur] # "Dead" => fstate'[cur] # "Dead",
         Len(agenda) = 2 /\ Head(agenda).op \in {"error", "kill"}
             /\ Head(agenda).who = cur =>
           \/ fstate'[cur] # "Running"
           \/ Calm' /\ frames'[cur] # <<>>
           \/ /\ Len(agenda') = 2
              /\ agenda'[1].op \in {"error", "kill"} /\ agenda'[1].who = cur
  PROVE  RunnableQueued' /\ AgendaShape' /\ CurrentFiber' /\ YieldIsCalm'
  <1>0. TypeOK /\ RunnableQueued /\ AgendaShape /\ CurrentFiber /\ YieldIsCalm
    BY DEF SchedulingInv
  <1>1. AgendaShape' /\ (phase = "exec" => agenda' # <<>>)
    BY <1>0, PushShape
  <1>2. RunnableQueued'
    BY <1>0 DEF RunnableQueued
  <1>3. Calm => Calm'
    BY <1>0, PushCalm
  <1>4. CurrentFiber'
    <2> SUFFICES ASSUME phase = "exec", fstate'[cur] = "Running"
                 PROVE  \/ Queued(cur)'
                        \/ Calm' /\ frames'[cur] # <<>>
                        \/ /\ Len(agenda') = 2
                           /\ agenda'[1].op \in {"error", "kill"}
                           /\ agenda'[1].who = cur
      BY <1>1 DEF CurrentFiber, Queued
    <2>1. cur \in Fibers
      BY <1>0 DEF AgendaShape, TypeOK
    <2>2. CASE fstate[cur] = "Running"
      <3>1. \/ Queued(cur)
            \/ Calm /\ frames[cur] # <<>>
            \/ Len(agenda) = 2 /\ agenda[1].op \in {"error", "kill"} /\ agenda[1].who = cur
        BY <1>0, <2>2 DEF CurrentFiber
      <3>2. agenda[1] = Head(agenda)
        OBVIOUS
      <3> QED BY <1>3, <2>1, <3>1, <3>2
    <2>3. CASE Queued(cur)'
      BY <2>3
    <2> QED BY <2>1, <2>2, <2>3
  <1>5. YieldIsCalm'
    <2> SUFFICES ASSUME NEW j \in DOMAIN agenda', agenda'[j].op = "detach"
                 PROVE  Calm' /\ agenda'[j].who = cur /\ fstate'[cur] # "Dead"
      BY DEF YieldIsCalm, Calm
    <2>1. PICK i \in DOMAIN agenda : agenda[i] = agenda'[j]
      BY <1>0, PushDetach
    <2>2. Calm /\ agenda[i].who = cur /\ fstate[cur] # "Dead"
      BY <1>0, <2>1 DEF YieldIsCalm
    <2>3. cur \in Fibers
      <3>1. agenda[i] \in CallSet
        BY <1>0 DEF TypeOK
      <3> QED BY <2>1, <2>2, <3>1 DEF CallSet, FiberOps
    <2> QED BY <1>3, <2>1, <2>2, <2>3
  <1> QED BY <1>1, <1>2, <1>4, <1>5

\* The frequent case: the call only pushes others.
LEMMA QuietStep ==
  ASSUME SchedulingInv, agenda # <<>>,
         Head(agenda).op \notin Control \cup {"error", "kill"},
         NEW X \in Seq(PlainCalls),
         Calm => X \in Seq(CalmCalls),
         agenda' = X \o Tail(agenda),
         UNCHANGED <<phase, cur, fstate, frames, runq, microq>>
  PROVE  RunnableQueued' /\ AgendaShape' /\ CurrentFiber' /\ YieldIsCalm'
  <1>1. \A f \in Fibers : Queued(f) <=> Queued(f)'
    BY DEF Queued
  <1> QED BY <1>1, CascadeStep

\* Calls of fiber operations that no cascade of values excludes.
LEMMA DoPlain ==
  ASSUME NEW op \in {"micro", "task", "error", "kill", "bury"}, NEW f \in Fibers
  PROVE  /\ Do(op, f) \in PlainCalls
         /\ op \in {"micro", "task"} => Do(op, f) \in CalmCalls
  BY DEF Do, Call, PlainCalls, CalmCalls, CallSet, CallOps, FiberOps, Control,
         CalmOps, Objs, Results

\* Waking every waiter is a cascade, calm if the result is a value.
LEMMA WakeAllPlain ==
  ASSUME TypeOK, NEW o \in Objs, NEW r \in Results
  PROVE  /\ WakeAll(o, r) \in Seq(PlainCalls)
         /\ r = "val" => WakeAll(o, r) \in Seq(CalmCalls)
  <1> DEFINE D == [i \in 1..Len(wakers[o]) |-> Call("deliver", wakers[o][i], o, r)]
  <1>1. wakers[o] \in Seq(Objs)
    BY DEF TypeOK
  <1>2. \A i \in 1..Len(wakers[o]) :
          /\ Call("deliver", wakers[o][i], o, r) \in PlainCalls
          /\ r = "val" => Call("deliver", wakers[o][i], o, r) \in CalmCalls
    BY <1>1 DEF CallSet, Call, CallOps, FiberOps, PlainCalls, CalmCalls, CalmOps, Control
  <1>3. D \in Seq(PlainCalls) /\ (r = "val" => D \in Seq(CalmCalls))
    BY <1>1, <1>2, IsASeq
  <1>4. Do("woken", o) \in PlainCalls /\ Do("woken", o) \in CalmCalls
    BY DEF CallSet, Call, Do, CallOps, FiberOps, Results, PlainCalls, CalmCalls,
           CalmOps, Control
  <1> QED BY <1>3, <1>4 DEF WakeAll

\* VM::Await puts a cascade in front of what its caller goes on with.
LEMMA AwaitOnPush ==
  ASSUME TypeOK, NEW x \in Objs \cup {None}, NEW by \in Objs,
         NEW ready \in Seq(CallSet), NEW pending \in Seq(CallSet),
         AwaitOn(x, by, ready, pending)
  PROVE  \E X \in Seq(PlainCalls) : agenda' = X \o ready \/ agenda' = X \o pending
  <1>1. CASE x = None
    <2>1. Call("deliver", by, None, "err") \in PlainCalls
      BY DEF CallSet, Call, CallOps, FiberOps, Results, PlainCalls, Control
    <2>2. agenda' = <<Call("deliver", by, None, "err")>> \o ready
      BY <1>1, ObjsAssumption DEF AwaitOn
    <2>3. <<Call("deliver", by, None, "err")>> \in Seq(PlainCalls)
      BY <2>1
    <2> QED BY <2>2, <2>3
  <1>2. CASE x \in Objs /\ HasResult(x)
    <2>1. Call("deliver", by, x, ResultOf(x)) \in PlainCalls
      BY <1>2 DEF CallSet, Call, CallOps, FiberOps, Results, ResultOf, PlainCalls, Control
    <2>2. Do("bump", x) \in PlainCalls
      BY <1>2 DEF CallSet, Call, Do, CallOps, FiberOps, Results, PlainCalls, Control
    <2>3. agenda' = <<Call("deliver", by, x, ResultOf(x)), Do("bump", x)>> \o ready
      BY <1>2, ObjsAssumption DEF AwaitOn
    <2>4. <<Call("deliver", by, x, ResultOf(x)), Do("bump", x)>> \in Seq(PlainCalls)
      BY <2>1, <2>2, PairType
    <2> QED BY <2>3, <2>4
  <1>3. CASE x \in Objs /\ ~HasResult(x)
    <2> DEFINE A == IF pstat[x] = "New" THEN InitialAwait(x) ELSE <<>>
               B == IF x \in Fibers THEN <<Do("micro", x)>> ELSE <<>>
    <2>1. agenda' = (A \o B) \o pending
      BY <1>3, ObjsAssumption DEF AwaitOn
    <2>2. InitialAwait(x) \in Seq(PlainCalls)
      <3>1. CASE x \in Futures
        <4>1. fut[x].of \in Seq(Objs \cup {None})
          BY <3>1 DEF TypeOK
        <4>2. \A i \in 1..Len(fut[x].of) : Call("await", fut[x].of[i], x, "val") \in PlainCalls
          BY <3>1, <4>1 DEF CallSet, Call, CallOps, FiberOps, Results, PlainCalls, Control, Objs
        <4> QED BY <3>1, <4>1, <4>2, IsASeq DEF InitialAwait
      <3>2. CASE x \notin Futures
        BY <3>2 DEF InitialAwait
      <3> QED BY <3>1, <3>2
    <2>3. A \in Seq(PlainCalls)
      BY <2>2
    <2>4. B \in Seq(PlainCalls)
      BY DoPlain
    <2>5. A \o B \in Seq(PlainCalls)
      <3> HIDE DEF A, B
      <3> QED BY <2>3, <2>4, ConcatProperties
    <2> HIDE DEF A, B
    <2> QED BY <2>1, <2>5
  <1> QED BY <1>1, <1>2, <1>3

(***************************************************************************)
(* The calls in progress.                                                  *)
(***************************************************************************)

\* What SchedulingInv says besides the types.
ShapeInv == RunnableQueued /\ AgendaShape /\ CurrentFiber /\ YieldIsCalm

\* A call that is not one of ExecuteFiber's last ones, at the head of a calm
\* agenda.
LEMMA CalmTop ==
  ASSUME TypeOK, Calm, agenda # <<>>
  PROVE  Top.op \in CalmOps /\ Top.res = "val"
  <1>1. 1 \in DOMAIN agenda /\ Top = agenda[1]
    BY DEF TypeOK, Top
  <1> QED BY <1>1 DEF Calm

\* Calls that deliver, count, settle or record a result.
LEMMA ValueCallsInv ==
  ASSUME SchedulingInv,
         AwaitCall \/ DeliverToFiber \/ DeliverToFuture \/ Arrived \/ Settle
           \/ Woken \/ Bump \/ Bury
  PROVE  ShapeInv'
  <1> USE DEF fiberVars, promiseVars, schedVars, sweepVars, loopVars
  <1>a. TypeOK
    BY DEF SchedulingInv
  <1>b. agenda # <<>> /\ Rest = Tail(agenda) /\ Top = Head(agenda)
    BY DEF Running, Rest, Top, AwaitCall, DeliverToFiber, DeliverToFuture,
           Arrived, Settle, Woken, Bump, Bury
  <1>c. <<>> \in Seq(PlainCalls) /\ <<>> \in Seq(CalmCalls)
    OBVIOUS
  <1>d. Tail(agenda) \in Seq(CallSet) /\ <<>> \o Tail(agenda) = Tail(agenda)
    BY <1>a, <1>b, HeadTailProperties, ConcatEmptySeq DEF TypeOK
  <1>1. CASE AwaitCall
    <2>1. Top \in CallSet /\ Top.op = "await" /\ Rest \in Seq(CallSet)
      BY <1>1, <1>a, TopType DEF AwaitCall
    <2>2. Top.who \in Objs \cup {None} /\ Top.by \in Objs
      BY <2>1 DEF CallSet
    <2>3. AwaitOn(Top.who, Top.by, Rest, Rest)
      BY <1>1 DEF AwaitCall
    <2>4. PICK X \in Seq(PlainCalls) : agenda' = X \o Rest
      BY <1>a, <2>1, <2>2, <2>3, AwaitOnPush
    <2>5. ~Calm
      BY <1>a, <1>b, <2>1, CalmTop DEF CalmOps, Control
    <2>6. UNCHANGED <<phase, cur, fstate, frames, runq, microq>>
      BY <1>1 DEF AwaitCall
    <2>7. Head(agenda).op \notin Control \cup {"error", "kill"}
      BY <1>b, <2>1 DEF Control
    <2> QED BY <1>b, <2>4, <2>5, <2>6, <2>7, QuietStep DEF ShapeInv
  <1>2. CASE DeliverToFiber
    <2> DEFINE E == IF Top.res = "err" THEN <<Do("error", Top.who)>> ELSE <<>>
               M == <<Do("micro", Top.who)>>
               T == IF Top.by \in Fibers THEN <<Do("task", Top.by)>> ELSE <<>>
    <2>1. Top \in CallSet /\ Top.op = "deliver" /\ Rest \in Seq(CallSet)
      BY <1>2, <1>a, TopType DEF DeliverToFiber
    <2>2. Top.who \in Fibers
      BY <1>2 DEF DeliverToFiber
    <2>3. E \in Seq(PlainCalls) /\ (Top.res = "val" => E \in Seq(CalmCalls))
      BY <2>2, DoPlain
    <2>4. M \in Seq(PlainCalls) /\ M \in Seq(CalmCalls)
      BY <2>2, DoPlain
    <2>5. T \in Seq(PlainCalls) /\ T \in Seq(CalmCalls)
      BY DoPlain
    <2>6. agenda' = ((E \o M) \o T) \o Rest
      BY <1>2 DEF DeliverToFiber
    <2>7. Head(agenda).op \notin Control \cup {"error", "kill"}
      BY <1>b, <2>1 DEF Control
    <2> HIDE DEF E, M, T
    <2> DEFINE X == (E \o M) \o T
    <2>8. X \in Seq(PlainCalls)
      BY <2>3, <2>4, <2>5
    <2>9. Calm => X \in Seq(CalmCalls)
      BY <1>a, <1>b, <2>3, <2>4, <2>5, CalmTop
    <2>10. agenda' = X \o Tail(agenda)
      BY <1>b, <2>6
    <2>11. UNCHANGED <<phase, cur, fstate, frames, runq, microq>>
      BY <1>2 DEF DeliverToFiber
    <2> HIDE DEF X
    <2> QED BY <1>b, <2>7, <2>8, <2>9, <2>10, <2>11, QuietStep DEF ShapeInv
  <1>3. CASE DeliverToFuture
    <2> DEFINE S == IF fut[Top.who].kind # "gather" \/ Top.res = "err"
                    THEN <<Call("settle", Top.who, None, Top.res)>> ELSE <<>>
               A == IF fut[Top.who].kind = "gather"
                    THEN <<Do("arrived", Top.who)>> ELSE <<>>
    <2>1. Top \in CallSet /\ Top.op = "deliver" /\ Rest \in Seq(CallSet)
      BY <1>3, <1>a, TopType DEF DeliverToFuture
    <2>2. Top.who \in Futures /\ Top.res \in Results
      BY <1>3, <2>1 DEF DeliverToFuture, CallSet
    <2>3. /\ Call("settle", Top.who, None, Top.res) \in PlainCalls
          /\ Top.res = "val" => Call("settle", Top.who, None, Top.res) \in CalmCalls
      BY <2>2 DEF CallSet, Call, CallOps, FiberOps, Objs, PlainCalls, CalmCalls,
                  CalmOps, Control
    <2>4. Do("arrived", Top.who) \in PlainCalls /\ Do("arrived", Top.who) \in CalmCalls
      BY <2>2 DEF CallSet, Call, Do, CallOps, FiberOps, Objs, Results, PlainCalls,
                  CalmCalls, CalmOps, Control
    <2>5. S \in Seq(PlainCalls) /\ (Top.res = "val" => S \in Seq(CalmCalls))
      BY <2>3
    <2>6. A \in Seq(PlainCalls) /\ A \in Seq(CalmCalls)
      BY <2>4
    <2>7. agenda' = (S \o A) \o Rest
      BY <1>3 DEF DeliverToFuture
    <2>8. Head(agenda).op \notin Control \cup {"error", "kill"}
      BY <1>b, <2>1 DEF Control
    <2> HIDE DEF S, A
    <2> DEFINE X == S \o A
    <2>9. X \in Seq(PlainCalls) /\ (Calm => X \in Seq(CalmCalls))
      BY <1>a, <1>b, <2>5, <2>6, CalmTop
    <2>10. agenda' = X \o Tail(agenda)
      BY <1>b, <2>7
    <2>11. UNCHANGED <<phase, cur, fstate, frames, runq, microq>>
      BY <1>3 DEF DeliverToFuture
    <2> HIDE DEF X
    <2> QED BY <1>b, <2>8, <2>9, <2>10, <2>11, QuietStep DEF ShapeInv
  <1>4. CASE Arrived
    <2> DEFINE X == IF left[Top.who] = 1 THEN <<Do("settle", Top.who)>> ELSE <<>>
    <2>1. Top \in CallSet /\ Top.op = "arrived" /\ Rest \in Seq(CallSet)
      BY <1>4, <1>a, TopType DEF Arrived
    <2>2. Do("settle", Top.who) \in PlainCalls /\ Do("settle", Top.who) \in CalmCalls
      BY <2>1 DEF CallSet, Call, Do, CallOps, FiberOps, Objs, Results, PlainCalls,
                  CalmCalls, CalmOps, Control
    <2>3. X \in Seq(PlainCalls) /\ X \in Seq(CalmCalls)
      BY <2>2
    <2>4. agenda' = X \o Tail(agenda)
      BY <1>4, <1>b DEF Arrived
    <2>5. Head(agenda).op \notin Control \cup {"error", "kill"}
      BY <1>b, <2>1 DEF Control
    <2>6. UNCHANGED <<phase, cur, fstate, frames, runq, microq>>
      BY <1>4 DEF Arrived
    <2> HIDE DEF X
    <2> QED BY <1>b, <2>3, <2>4, <2>5, <2>6, QuietStep DEF ShapeInv
  <1>5. CASE Settle
    <2>1. Top \in CallSet /\ Top.op = "settle" /\ Rest \in Seq(CallSet)
      BY <1>5, <1>a, TopType DEF Settle
    <2>2. Top.who \in Objs /\ Top.res \in Results
      BY <2>1 DEF CallSet
    <2>3. Head(agenda).op \notin Control \cup {"error", "kill"}
      BY <1>b, <2>1 DEF Control
    <2>4. UNCHANGED <<phase, cur, fstate, frames, runq, microq>>
      BY <1>5 DEF Settle
    <2>5. CASE HasResult(Top.who)
      <3>1. agenda' = <<>> \o Tail(agenda)
        BY <1>5, <1>b, <1>d, <2>5 DEF Settle
      <3> QED BY <1>b, <1>c, <2>3, <2>4, <3>1, QuietStep DEF ShapeInv
    <2>6. CASE ~HasResult(Top.who)
      <3>1. agenda' = WakeAll(Top.who, Top.res) \o Tail(agenda)
        BY <1>5, <1>b, <2>6 DEF Settle
      <3>2. /\ WakeAll(Top.who, Top.res) \in Seq(PlainCalls)
            /\ Calm => WakeAll(Top.who, Top.res) \in Seq(CalmCalls)
        BY <1>a, <1>b, <2>2, WakeAllPlain, CalmTop
      <3> QED BY <1>b, <2>3, <2>4, <3>1, <3>2, QuietStep DEF ShapeInv
    <2> QED BY <2>5, <2>6
  <1>6. CASE Woken \/ Bump
    <2>1. agenda' = <<>> \o Tail(agenda)
      BY <1>6, <1>b, <1>d DEF Woken, Bump
    <2>2. Head(agenda).op \notin Control \cup {"error", "kill"}
      BY <1>6 DEF Control, Woken, Bump, Running
    <2>3. UNCHANGED <<phase, cur, fstate, frames, runq, microq>>
      BY <1>6 DEF Woken, Bump
    <2> QED BY <1>b, <1>c, <2>1, <2>2, <2>3, QuietStep DEF ShapeInv
  <1>7. CASE Bury
    <2>1. agenda' = <<>> \o Tail(agenda)
      BY <1>7, <1>b, <1>d DEF Bury
    <2>2. Head(agenda).op = "bury"
      BY <1>7 DEF Bury, Running
    <2>3. UNCHANGED <<phase, cur, fstate, runq, microq>>
      BY <1>7 DEF Bury
    <2>4. ~Calm
      BY <1>a, <1>b, <2>2, CalmTop DEF CalmOps, Control
    <2>5. \A f \in Fibers : Queued(f) <=> Queued(f)'
      BY <2>3 DEF Queued
    <2>6. Head(agenda).op \notin Control \cup {"error", "kill"}
      BY <2>2 DEF Control
    <2> QED BY <1>b, <1>c, <2>1, <2>3, <2>4, <2>5, <2>6, CascadeStep DEF ShapeInv
  <1> QED BY <1>1, <1>2, <1>3, <1>4, <1>5, <1>6, <1>7

\* Appending adds an element to a queue.
LEMMA AppendSet ==
  ASSUME NEW S, NEW q \in Seq(S), NEW e \in S
  PROVE  ToSet(Append(q, e)) = ToSet(q) \cup {e}
  <1>1. Append(q, e) \in Seq(S) /\ Len(Append(q, e)) = Len(q) + 1
    OBVIOUS
  <1>2. \A i \in 1..Len(q) : Append(q, e)[i] = q[i]
    OBVIOUS
  <1>3. Append(q, e)[Len(q) + 1] = e
    OBVIOUS
  <1>4. \A i \in 1..Len(q) + 1 : i \in 1..Len(q) \/ i = Len(q) + 1
    OBVIOUS
  <1>5. DOMAIN Append(q, e) = 1..Len(q) + 1 /\ DOMAIN q = 1..Len(q)
    BY <1>1
  <1> QED BY <1>2, <1>3, <1>4, <1>5 DEF ToSet

\* Calls that make a fiber runnable, suspend it or end it.
LEMMA StateCallsInv ==
  ASSUME SchedulingInv,
         MicroTask \/ ResumeAwaited \/ RaiseError \/ Kill \/ Detach
  PROVE  ShapeInv'
  <1> USE DEF fiberVars, promiseVars, schedVars, sweepVars, loopVars
  <1>a. TypeOK
    BY DEF SchedulingInv
  <1>b. agenda # <<>> /\ Rest = Tail(agenda) /\ Top = Head(agenda)
    BY DEF Running, Rest, Top, MicroTask, ResumeAwaited, RaiseError, Kill, Detach
  <1>c. <<>> \in Seq(PlainCalls) /\ <<>> \in Seq(CalmCalls)
    OBVIOUS
  <1>d. Tail(agenda) \in Seq(CallSet) /\ <<>> \o Tail(agenda) = Tail(agenda)
    BY <1>a, <1>b, HeadTailProperties, ConcatEmptySeq DEF TypeOK
  <1>e. /\ fstate \in [Fibers -> {"Free", "Running", "Suspended", "Dead"}]
        /\ frames \in [Fibers -> Seq(Nat)]
        /\ runq \in Seq(Fibers) /\ microq \in Seq(Fibers)
    BY <1>a DEF TypeOK
  <1>1. CASE MicroTask
    <2>1. Top \in CallSet /\ Top.op = "micro"
      BY <1>1, <1>a, TopType DEF MicroTask
    <2>2. Top.who \in Fibers
      BY <2>1 DEF CallSet, FiberOps
    <2>3. Head(agenda).op \notin Control \cup {"error", "kill"}
      BY <1>b, <2>1 DEF Control
    <2>4. agenda' = <<>> \o Tail(agenda) /\ UNCHANGED <<phase, cur, frames, runq>>
      BY <1>1, <1>b, <1>d DEF MicroTask
    <2>5. CASE fstate[Top.who] = "Dead"
      <3>1. UNCHANGED <<fstate, microq>>
        BY <1>1, <2>5 DEF MicroTask
      <3> QED BY <1>b, <1>c, <2>3, <2>4, <3>1, QuietStep DEF ShapeInv
    <2>6. CASE fstate[Top.who] # "Dead"
      <3>1. /\ fstate' = [fstate EXCEPT ![Top.who] = "Running"]
            /\ microq' = Append(microq, Top.who)
        BY <1>1, <2>6 DEF MicroTask
      <3>2. ToSet(microq') = ToSet(microq) \cup {Top.who}
        BY <1>e, <2>2, <3>1, AppendSet
      <3>3. \A f \in Fibers : Queued(f) => Queued(f)'
        BY <2>4, <3>2 DEF Queued
      <3>4. \A f \in Fibers :
              fstate'[f] = "Running" => fstate[f] = "Running" \/ Queued(f)'
        BY <1>e, <3>1, <3>2 DEF Queued
      <3>5. cur \in Fibers => frames'[cur] = frames[cur]
              /\ (fstate[cur] # "Dead" => fstate'[cur] # "Dead")
        BY <1>e, <2>4, <3>1
      <3> QED BY <1>b, <1>c, <2>3, <2>4, <3>3, <3>4, <3>5, CascadeStep DEF ShapeInv
    <2> QED BY <2>5, <2>6
  <1>2. CASE ResumeAwaited
    <2>1. Top \in CallSet /\ Top.op = "task"
      BY <1>2, <1>a, TopType DEF ResumeAwaited
    <2>2. Top.who \in Fibers
      BY <2>1 DEF CallSet, FiberOps
    <2>3. Head(agenda).op \notin Control \cup {"error", "kill"}
      BY <1>b, <2>1 DEF Control
    <2>4. agenda' = <<>> \o Tail(agenda) /\ UNCHANGED <<phase, cur, frames, microq>>
      BY <1>2, <1>b, <1>d DEF ResumeAwaited
    <2>5. CASE fstate[Top.who] # "Suspended"
      <3>1. UNCHANGED <<fstate, runq>>
        BY <1>2, <2>5 DEF ResumeAwaited
      <3> QED BY <1>b, <1>c, <2>3, <2>4, <3>1, QuietStep DEF ShapeInv
    <2>6. CASE fstate[Top.who] = "Suspended"
      <3>1. /\ fstate' = [fstate EXCEPT ![Top.who] = "Running"]
            /\ runq' = Append(runq, Top.who)
        BY <1>2, <2>6 DEF ResumeAwaited
      <3>2. ToSet(runq') = ToSet(runq) \cup {Top.who}
        BY <1>e, <2>2, <3>1, AppendSet
      <3>3. \A f \in Fibers : Queued(f) => Queued(f)'
        BY <2>4, <3>2 DEF Queued
      <3>4. \A f \in Fibers :
              fstate'[f] = "Running" => fstate[f] = "Running" \/ Queued(f)'
        BY <1>e, <3>1, <3>2 DEF Queued
      <3>5. cur \in Fibers => frames'[cur] = frames[cur]
              /\ (fstate[cur] # "Dead" => fstate'[cur] # "Dead")
        BY <1>e, <2>4, <3>1
      <3> QED BY <1>b, <1>c, <2>3, <2>4, <3>3, <3>4, <3>5, CascadeStep DEF ShapeInv
    <2> QED BY <2>5, <2>6
  <1>3. CASE RaiseError
    <2>1. Top \in CallSet /\ Top.op = "error"
      BY <1>3, <1>a, TopType DEF RaiseError
    <2>2. Top.who \in Fibers
      BY <2>1 DEF CallSet, FiberOps
    <2>3. Head(agenda).op \notin Control
      BY <1>b, <2>1 DEF Control
    <2>4. ~Calm
      BY <1>a, <1>b, <2>1, CalmTop DEF CalmOps, Control
    <2>5. UNCHANGED <<phase, cur, fstate, runq, microq>>
      BY <1>3 DEF RaiseError
    <2>6. \A f \in Fibers : Queued(f) <=> Queued(f)'
      BY <2>5 DEF Queued
    <2>7. CASE Handling(Top.who) = {}
      <3> DEFINE X == <<Call("kill", Top.who, None, "err")>>
      <3>1. agenda' = X \o Tail(agenda)
        BY <1>3, <1>b, <2>7 DEF RaiseError
      <3>2. Call("kill", Top.who, None, "err") \in PlainCalls
        BY <2>2 DEF Call, PlainCalls, CallSet, CallOps, FiberOps, Control, Objs, Results
      <3>3. X \in Seq(PlainCalls)
        BY <3>2
      <3>4. /\ agenda'[1] = Call("kill", Top.who, None, "err")
            /\ Len(agenda) = 2 => Len(agenda') = 2
        <4>1. X \in Seq(CallSet) /\ Len(X) = 1 /\ X[1] = Call("kill", Top.who, None, "err")
          BY <3>3, PlainSeq
        <4>2. agenda \in Seq(CallSet)
          BY <1>a DEF TypeOK
        <4> HIDE DEF X
        <4>3. /\ Len(X \o Tail(agenda)) = Len(X) + Len(agenda) - 1
              /\ \A j \in 1..Len(X) : (X \o Tail(agenda))[j] = X[j]
          BY <1>b, <4>1, <4>2, PushIndices
        <4>4. agenda'[1] = X[1]
          <5>1. 1 \in 1..Len(X)
            BY <4>1
          <5> QED BY <3>1, <4>3, <5>1
        <4>5. Len(agenda') = Len(agenda)
          <5>1. Len(agenda) \in Nat
            BY <4>2
          <5>2. Len(agenda') = 1 + Len(agenda) - 1
            BY <3>1, <4>1, <4>3
          <5> QED BY <5>1, <5>2
        <4> QED BY <4>1, <4>4, <4>5
      <3>5. Head(agenda).who = cur =>
              agenda'[1].op \in {"error", "kill"} /\ agenda'[1].who = cur
        BY <1>b, <3>4 DEF Call
      <3> HIDE DEF X
      <3> QED BY <1>b, <2>3, <2>4, <2>5, <2>6, <3>1, <3>3, <3>4, <3>5, CascadeStep
              DEF ShapeInv
    <2>8. ASSUME NEW i \in Handling(Top.who),
                 frames' = [frames EXCEPT ![Top.who] =
                              Append(SubSeq(frames[Top.who], 1, i - 1),
                                     frames[Top.who][i] - 1)],
                 agenda' = Rest
          PROVE  ShapeInv'
      <3>1. agenda' = <<>> \o Tail(agenda)
        BY <1>b, <1>d, <2>8
      <3>2. ASSUME Len(agenda) = 2, Top.who = cur
            PROVE  Calm' /\ frames'[cur] # <<>>
        <4>1. phase = "exec"
          BY <1>a, <1>b, <2>2, <3>2, ObjsAssumption
             DEF SchedulingInv, AgendaShape, TypeOK, Objs
        <4>2. agenda[2] \in {Do("tail", cur), Do("leave", cur)}
          BY <1>b, <3>2, <4>1 DEF SchedulingInv, AgendaShape
        <4>3. agenda[2].op \in CalmOps /\ agenda[2].res = "val"
          BY <4>2 DEF Do, Call, CalmOps, Control
        <4>4. agenda \in Seq(CallSet)
          BY <1>a DEF TypeOK
        <4>5. DOMAIN agenda' = {1} /\ agenda'[1] = agenda[2]
          <5>0. /\ Len(Tail(agenda)) = Len(agenda) - 1
                /\ \A k \in 1..Len(Tail(agenda)) : Tail(agenda)[k] = agenda[k + 1]
            BY <1>b, <4>4, HeadTailProperties
          <5>1. Len(Tail(agenda)) = 1 /\ Tail(agenda)[1] = agenda[2]
            BY <3>2, <5>0
          <5>2. DOMAIN Tail(agenda) = 1..1
            BY <1>d, <5>1, LenProperties
          <5>3. agenda' = Tail(agenda)
            BY <1>b, <2>8
          <5>4. 1..1 = {1}
            OBVIOUS
          <5> QED BY <5>1, <5>2, <5>3, <5>4
        <4>6. Calm'
          BY <4>3, <4>5 DEF Calm
        <4>7. frames'[cur] # <<>>
          <5> DEFINE a == SubSeq(frames[cur], 1, i - 1)
                     e == frames[cur][i] - 1
          <5>1. frames'[cur] = Append(a, e)
            BY <1>e, <2>2, <2>8, <3>2
          <5>2. a \in Seq(Nat) /\ e \in Int
            <6>1. frames[cur] \in Seq(Nat)
              BY <1>e, <2>2, <3>2
            <6>2. i \in Nat \ {0} /\ i <= Len(frames[cur])
              BY <3>2, <6>1 DEF Handling
            <6>3. frames[cur][i] \in Nat
              BY <6>1, <6>2
            <6> QED BY <6>1, <6>2, <6>3, SubSeqType
          <5> HIDE DEF a, e
          <5>3. a \in Seq(Int)
            BY <5>2, SeqMonotonic
          <5>4. Append(a, e) # <<>>
            BY <5>2, <5>3
          <5> QED BY <5>1, <5>4
        <4> QED BY <4>6, <4>7
      <3> QED BY <1>b, <1>c, <2>3, <2>4, <2>5, <2>6, <3>1, <3>2, CascadeStep
              DEF ShapeInv
    <2> QED BY <1>3, <2>7, <2>8 DEF RaiseError
  <1>4. CASE Kill
    <2>1. Top \in CallSet /\ Top.op = "kill"
      BY <1>4, <1>a, TopType DEF Kill
    <2>2. Top.who \in Fibers /\ Top.res \in Results
      BY <2>1 DEF CallSet, FiberOps
    <2>3. Head(agenda).op \notin Control
      BY <1>b, <2>1 DEF Control
    <2>4. ~Calm
      BY <1>a, <1>b, <2>1, CalmTop DEF CalmOps, Control
    <2>5. UNCHANGED <<phase, cur, runq, microq>>
      BY <1>4 DEF Kill
    <2>6. \A f \in Fibers : Queued(f) <=> Queued(f)'
      BY <2>5 DEF Queued
    <2>7. fstate' = [fstate EXCEPT ![Top.who] = "Dead"]
      BY <1>4 DEF Kill
    <2> DEFINE X == <<Call("settle", Top.who, None, Top.res), Do("bury", Top.who)>>
    <2>8. agenda' = X \o Tail(agenda)
      BY <1>4, <1>b DEF Kill
    <2>9. X \in Seq(PlainCalls)
      <3>1. Call("settle", Top.who, None, Top.res) \in PlainCalls
        BY <2>2 DEF Call, PlainCalls, CallSet, CallOps, FiberOps, Control, Objs, Results
      <3>2. Do("bury", Top.who) \in PlainCalls
        BY <2>2, DoPlain
      <3> QED BY <3>1, <3>2, PairType
    <2>10. \A f \in Fibers : fstate'[f] = "Running" => fstate[f] = "Running"
      BY <1>e, <2>7
    <2>11. Head(agenda).who = cur => fstate'[cur] # "Running"
      BY <1>b, <1>e, <2>2, <2>7
    <2> HIDE DEF X
    <2> QED BY <1>b, <2>3, <2>4, <2>5, <2>6, <2>8, <2>9, <2>10, <2>11, CascadeStep
            DEF ShapeInv
  <1>5. CASE Detach
    <2>1. Top \in CallSet /\ Top.op = "detach"
      BY <1>5, <1>a, TopType DEF Detach
    <2>2. Top.who \in Fibers
      BY <2>1 DEF CallSet, FiberOps
    <2>3. Head(agenda).op \notin Control \cup {"error", "kill"}
      BY <1>b, <2>1 DEF Control
    <2>4. agenda' = <<>> \o Tail(agenda) /\ UNCHANGED <<phase, cur, frames, runq, microq>>
      BY <1>5, <1>b, <1>d DEF Detach
    <2>5. fstate' = [fstate EXCEPT ![Top.who] = "Suspended"]
      BY <1>5 DEF Detach
    <2>6. \A f \in Fibers : Queued(f) <=> Queued(f)'
      BY <2>4 DEF Queued
    <2>7. /\ \A f \in Fibers : fstate'[f] = "Running" => fstate[f] = "Running"
          /\ cur \in Fibers /\ fstate[cur] # "Dead" => fstate'[cur] # "Dead"
      BY <1>e, <2>5
    <2> QED BY <1>b, <1>c, <2>3, <2>4, <2>6, <2>7, CascadeStep DEF ShapeInv
  <1> QED BY <1>1, <1>2, <1>3, <1>4, <1>5

\* The last calls of ExecuteFiber are last: nothing else is in progress.
LEMMA ControlAlone ==
  ASSUME TypeOK, AgendaShape, agenda # <<>>, Head(agenda).op \in Control
  PROVE  /\ phase = "exec" /\ cur \in Fibers
         /\ Len(agenda) = 1 /\ Tail(agenda) = <<>>
         /\ Head(agenda) \in {Do("tail", cur), Do("leave", cur)}
  <1>1. agenda \in Seq(CallSet) /\ Len(agenda) \in Nat \ {0} /\ Head(agenda) = agenda[1]
    BY EmptySeq DEF TypeOK
  <1>2. 1 \in DOMAIN agenda
    BY <1>1
  <1>3. phase = "exec"
    BY <1>1, <1>2 DEF AgendaShape, TypeOK
  <1>4. Len(agenda) = 1
    <2>1. \A i \in 1..Len(agenda) - 1 : agenda[i].op \notin Control
      BY <1>3 DEF AgendaShape
    <2>2. Len(agenda) # 1 => 1 \in 1..Len(agenda) - 1
      <3>1. \A n \in Nat : n # 0 /\ n # 1 => 1 \in 1..n - 1
        OBVIOUS
      <3> QED BY <1>1, <3>1
    <2> QED BY <1>1, <2>1, <2>2
  <1>5. Tail(agenda) = <<>>
    <2>1. Tail(agenda) \in Seq(CallSet) /\ Len(Tail(agenda)) = 0
      BY <1>1, <1>4, HeadTailProperties
    <2> QED BY <2>1, EmptySeq
  <1>6. cur \in Fibers
    BY <1>3 DEF AgendaShape, TypeOK
  <1>7. agenda[1] \in {Do("tail", cur), Do("leave", cur)}
    BY <1>3, <1>4 DEF AgendaShape
  <1> QED BY <1>1, <1>3, <1>4, <1>5, <1>6, <1>7

\* An agenda of two calls that ends in one of ExecuteFiber's last ones.
LEMMA TwoCalls ==
  ASSUME NEW f \in Fibers, NEW op \in {"error", "kill"}, NEW c \in Control,
         phase' = "exec", cur' = f, agenda' = <<Do(op, f), Do(c, f)>>
  PROVE  /\ AgendaShape' /\ YieldIsCalm'
         /\ Len(agenda') = 2 /\ agenda'[1].op \in {"error", "kill"} /\ agenda'[1].who = cur'
  <1>1. /\ Len(agenda') = 2 /\ DOMAIN agenda' = 1..2
        /\ agenda'[1] = Do(op, f) /\ agenda'[2] = Do(c, f)
    OBVIOUS
  <1>2. agenda'[1].op = op /\ agenda'[1].who = f /\ agenda'[2].op = c
    BY <1>1 DEF Do, Call
  <1>3. f # None
    BY ObjsAssumption DEF Objs
  <1>4. agenda' # <<>>
    BY <1>1
  <1>5. \A i \in 1..Len(agenda') - 1 : i = 1
    BY <1>1
  <1>6. agenda'[Len(agenda')] \in {Do("tail", f), Do("leave", f)}
    BY <1>1 DEF Control
  <1>7. AgendaShape'
    BY <1>2, <1>3, <1>4, <1>5, <1>6 DEF AgendaShape, Control
  <1>8. \A i \in 1..2 : i = 1 \/ i = 2
    OBVIOUS
  <1>9. YieldIsCalm'
    <2>1. \A i \in DOMAIN agenda' : agenda'[i].op # "detach"
      BY <1>1, <1>2, <1>8 DEF Control
    <2> QED BY <2>1 DEF YieldIsCalm
  <1> QED BY <1>1, <1>2, <1>7, <1>9

\* The ends of ExecuteFiber, and the exception that leaves the event loop.
LEMMA LeavingInv ==
  ASSUME SchedulingInv, KillDead \/ LoopTail \/ Leave
  PROVE  ShapeInv'
  <1> USE DEF fiberVars, promiseVars, schedVars, sweepVars, loopVars
  <1>a. TypeOK /\ RunnableQueued /\ AgendaShape /\ CurrentFiber
    BY DEF SchedulingInv
  <1>b. agenda # <<>> /\ Top = Head(agenda) /\ Rest = Tail(agenda)
    BY DEF Running, Top, Rest, KillDead, LoopTail, Leave
  <1>c. agenda \in Seq(CallSet) /\ Head(agenda) = agenda[1]
    BY <1>a DEF TypeOK
  <1>d. frames \in [Fibers -> Seq(Nat)] /\ runq \in Seq(Fibers)
    BY <1>a DEF TypeOK
  <1>1. CASE KillDead
    <2>1. Top \in CallSet /\ Top.op = "kill"
      BY <1>1, <1>a, TopType DEF KillDead
    <2>2. agenda' = <<>> /\ UNCHANGED <<fstate, runq, microq>>
      BY <1>1 DEF KillDead
    <2>3. \A f \in Fibers : Queued(f) <=> Queued(f)'
      BY <2>2 DEF Queued
    <2>4. YieldIsCalm'
      BY <2>2 DEF YieldIsCalm
    <2>5. CASE phase = "drain"
      <3>1. UNCHANGED <<phase, cur>>
        BY <1>1, <2>5 DEF KillDead
      <3>2. AgendaShape' /\ CurrentFiber'
        BY <1>a, <2>2, <2>5, <3>1 DEF AgendaShape, CurrentFiber
      <3>3. RunnableQueued'
        BY <1>a, <2>2, <2>3, <3>1 DEF RunnableQueued
      <3> QED BY <2>4, <3>2, <3>3 DEF ShapeInv
    <2>6. CASE phase # "drain"
      <3>1. cur' = None /\ phase' = "host"
        BY <1>1, <2>6 DEF KillDead
      <3>2. AgendaShape' /\ CurrentFiber'
        BY <2>2, <3>1 DEF AgendaShape, CurrentFiber
      <3>3. phase = "exec"
        BY <1>a, <1>b, <2>6 DEF AgendaShape, TypeOK
      <3>4. fstate[cur] = "Running" => Queued(cur)
        <4>1. ~Calm
          BY <1>a, <1>b, <2>1, CalmTop DEF CalmOps, Control
        <4>2. fstate[Top.who] = "Dead"
          BY <1>1 DEF KillDead
        <4> QED BY <1>a, <1>b, <1>c, <3>3, <4>1, <4>2 DEF CurrentFiber
      <3>5. RunnableQueued'
        BY <1>a, <2>2, <2>3, <3>4 DEF RunnableQueued
      <3> QED BY <2>4, <3>2, <3>5 DEF ShapeInv
    <2> QED BY <2>5, <2>6
  <1>2. CASE LoopTail
    <2>1. Top.op = "tail"
      BY <1>2 DEF LoopTail, Running, Top
    <2>2. phase = "exec" /\ cur \in Fibers /\ Top.who = cur
      BY <1>a, <1>b, <2>1, ControlAlone DEF Control, Do, Call
    <2>3. UNCHANGED <<fstate, frames, phase, cur, runq, microq>>
      BY <1>2 DEF LoopTail
    <2>4. \A f \in Fibers : Queued(f) <=> Queued(f)'
      BY <2>3 DEF Queued
    <2>5. RunnableQueued'
      BY <1>a, <2>3, <2>4 DEF RunnableQueued
    <2>6. CASE frames[cur] = <<>>
      <3>1. agenda' = <<Do("kill", cur), Do("leave", cur)>>
        BY <1>2, <2>2, <2>6 DEF LoopTail
      <3>2. /\ AgendaShape' /\ YieldIsCalm'
            /\ Len(agenda') = 2 /\ agenda'[1].op \in {"error", "kill"}
            /\ agenda'[1].who = cur'
        BY <2>2, <2>3, <3>1, TwoCalls DEF Control
      <3>3. CurrentFiber'
        <4>1. agenda' # <<>>
          BY <3>1
        <4> QED BY <3>2, <4>1 DEF CurrentFiber
      <3> QED BY <2>5, <3>2, <3>3 DEF ShapeInv
    <2>7. CASE frames[cur] # <<>> /\ fstate[cur] = "Running"
      <3>1. agenda' = <<>>
        BY <1>2, <2>2, <2>7 DEF LoopTail
      <3>2. AgendaShape' /\ YieldIsCalm' /\ CurrentFiber'
        BY <1>a, <2>2, <2>3, <2>7, <3>1 DEF AgendaShape, YieldIsCalm, CurrentFiber
      <3> QED BY <2>5, <3>2 DEF ShapeInv
    <2>8. CASE frames[cur] # <<>> /\ fstate[cur] # "Running"
      <3>1. agenda' = <<Do("leave", cur)>>
        BY <1>2, <2>2, <2>8 DEF LoopTail
      <3>2. Len(agenda') = 1 /\ DOMAIN agenda' = 1..1 /\ agenda'[1] = Do("leave", cur)
        BY <3>1
      <3>3. AgendaShape'
        BY <1>a, <2>2, <2>3, <3>2 DEF AgendaShape
      <3>4. agenda' # <<>> /\ agenda'[1].op = "leave" /\ \A i \in 1..1 : i = 1
        BY <3>1 DEF Do, Call
      <3>5. CurrentFiber'
        BY <2>3, <2>8, <3>4 DEF CurrentFiber
      <3>6. YieldIsCalm'
        BY <3>2, <3>4 DEF YieldIsCalm
      <3> QED BY <2>5, <3>3, <3>5, <3>6 DEF ShapeInv
    <2> QED BY <2>6, <2>7, <2>8
  <1>3. CASE Leave
    <2>1. Top.op = "leave"
      BY <1>3 DEF Leave, Running, Top
    <2>2. /\ phase = "exec" /\ cur \in Fibers /\ Top.who = cur
          /\ Len(agenda) = 1 /\ Tail(agenda) = <<>>
      BY <1>a, <1>b, <2>1, ControlAlone DEF Control, Do, Call
    <2>3. /\ cur' = None /\ phase' = "sweep" /\ agenda' = <<>>
          /\ UNCHANGED <<fstate, frames, microq>>
      BY <1>3, <1>b, <2>2 DEF Leave
    <2>4. AgendaShape' /\ CurrentFiber' /\ YieldIsCalm'
      BY <2>3 DEF AgendaShape, CurrentFiber, YieldIsCalm
    <2>5. fstate[cur] = "Running" => Queued(cur) \/ frames[cur] # <<>>
      BY <1>a, <1>b, <1>c, <2>1, <2>2 DEF CurrentFiber
    <2>6. CASE fstate[cur] = "Running" /\ frames[cur] # <<>>
      <3>1. runq' = Append(runq, cur)
        BY <1>3, <2>2, <2>6 DEF Leave
      <3>2. ToSet(runq') = ToSet(runq) \cup {cur}
        BY <1>d, <2>2, <3>1, AppendSet
      <3>3. RunnableQueued'
        BY <1>a, <2>3, <3>2 DEF RunnableQueued, Queued
      <3> QED BY <2>4, <3>3 DEF ShapeInv
    <2>7. CASE ~(fstate[cur] = "Running" /\ frames[cur] # <<>>)
      <3>1. runq' = runq
        BY <1>3, <2>2, <2>7 DEF Leave
      <3>2. RunnableQueued'
        BY <1>a, <2>3, <2>5, <2>7, <3>1 DEF RunnableQueued, Queued
      <3> QED BY <2>4, <3>2 DEF ShapeInv
    <2> QED BY <2>6, <2>7
  <1> QED BY <1>1, <1>2, <1>3

\* Every call in progress, whatever the agenda, preserves the invariant.
LEMMA CallsInv ==
  ASSUME SchedulingInv, Calls
  PROVE  ShapeInv'
  BY ValueCallsInv, StateCallsInv, LeavingInv DEF Calls

(***************************************************************************)
(* The event loop.                                                         *)
(***************************************************************************)

\* Taking a task from either end of a queue leaves the others in it.
LEMMA TakenFrom ==
  ASSUME NEW S, NEW q \in Seq(S), q # <<>>
  PROVE  /\ ToSet(q) \subseteq ToSet(Tail(q)) \cup {Head(q)}
         /\ ToSet(q) \subseteq ToSet(Front(q)) \cup {Last(q)}
  <1>0. Len(q) \in Nat \ {0} /\ DOMAIN q = 1..Len(q)
    BY EmptySeq
  <1>1. /\ Tail(q) \in Seq(S) /\ Len(Tail(q)) = Len(q) - 1
        /\ \A i \in 1..Len(Tail(q)) : Tail(q)[i] = q[i + 1]
    BY HeadTailProperties
  <1>2. DOMAIN Tail(q) = 1..Len(q) - 1
    BY <1>1, LenProperties
  <1>3. ASSUME NEW i \in 1..Len(q)
        PROVE  q[i] \in ToSet(Tail(q)) \cup {Head(q)}
    <2>1. CASE i = 1
      BY <1>0, <2>1
    <2>2. CASE i # 1
      <3>1. i - 1 \in 1..Len(q) - 1 /\ Tail(q)[i - 1] = q[i]
        BY <1>0, <1>1, <2>2
      <3> QED BY <1>2, <3>1 DEF ToSet
    <2> QED BY <2>1, <2>2
  <1>4. Front(q) \in Seq(S) /\ Len(Front(q)) = Len(q) - 1
    BY <1>0, FrontType DEF Front
  <1>5. \A i \in 1..Len(q) - 1 : Front(q)[i] = q[i]
    <2>1. \A i \in 1..Len(q) - 1 : q[i] \in S
      BY <1>0
    <2>2. \A i \in 1..(Len(q) - 1) - 1 + 1 : SubSeq(q, 1, Len(q) - 1)[i] = q[1 + i - 1]
      BY <1>0, <2>1, SubSeqProperties
    <2> QED BY <1>0, <2>2 DEF Front
  <1>6. DOMAIN Front(q) = 1..Len(q) - 1
    BY <1>4, LenProperties
  <1>7. ASSUME NEW i \in 1..Len(q)
        PROVE  q[i] \in ToSet(Front(q)) \cup {Last(q)}
    <2>1. CASE i = Len(q)
      BY <2>1 DEF Last
    <2>2. CASE i # Len(q)
      <3>1. i \in 1..Len(q) - 1
        <4>1. \A n \in Nat : \A k \in 1..n : k # n => k \in 1..n - 1
          OBVIOUS
        <4> QED BY <1>0, <2>2, <4>1
      <3>2. Front(q)[i] = q[i] /\ i \in DOMAIN Front(q)
        BY <1>5, <1>6, <3>1
      <3>3. Front(q)[i] \in ToSet(Front(q))
        BY <3>2 DEF ToSet
      <3> QED BY <3>2, <3>3
    <2> QED BY <2>1, <2>2
  <1> QED BY <1>0, <1>3, <1>7 DEF ToSet

\* Between two calls of ExecuteFiber no fiber is being executed.
LEMMA OutsideExec ==
  ASSUME SchedulingInv, phase # "exec"
  PROVE  cur = None /\ \A f \in Fibers : fstate[f] = "Running" => Queued(f)
  <1>1. cur = None
    BY DEF SchedulingInv, AgendaShape
  <1>2. cur \notin Fibers
    BY <1>1, ObjsAssumption DEF Objs
  <1> QED BY <1>1, <1>2 DEF SchedulingInv, RunnableQueued

\* A turn of the loop that executes no fiber, with nobody in progress.
LEMMA IdleTurn ==
  ASSUME \A f \in Fibers : fstate'[f] = "Running" => Queued(f)',
         agenda' = <<>>, cur' = None, phase' \in {"host", "drain", "sweep"}
  PROVE  ShapeInv'
  BY DEF ShapeInv, RunnableQueued, AgendaShape, CurrentFiber, YieldIsCalm

\* NextTask hands a runnable fiber to ExecuteFiber and drops any other.
LEMMA RunOrSkipInv ==
  ASSUME SchedulingInv, phase = "drain", agenda = <<>>,
         NEW f \in Fibers, RunOrSkip(f), UNCHANGED <<fstate, frames>>,
         \A g \in Fibers : Queued(g) => Queued(g)' \/ g = f
  PROVE  ShapeInv'
  <1>1. cur = None /\ \A g \in Fibers : fstate[g] = "Running" => Queued(g)
    BY OutsideExec
  <1>2. CASE fstate[f] # "Running"
    <2>1. phase' = "sweep" /\ UNCHANGED <<cur, agenda>>
      BY <1>2 DEF RunOrSkip, Skip
    <2>2. \A g \in Fibers : fstate'[g] = "Running" => Queued(g)'
      BY <1>1, <1>2
    <2> QED BY <1>1, <2>1, <2>2, IdleTurn
  <1>3. CASE fstate[f] = "Running"
    <2>1. /\ phase' = "exec" /\ cur' = f
          /\ agenda' = IF frames[f] = <<>> THEN <<Do("kill", f), Do("leave", f)>> ELSE <<>>
      BY <1>3 DEF RunOrSkip, Execute
    <2>2. RunnableQueued'
      BY <1>1, <2>1 DEF RunnableQueued
    <2>3. CASE frames[f] = <<>>
      <3>1. agenda' = <<Do("kill", f), Do("leave", f)>>
        BY <2>1, <2>3
      <3>2. /\ AgendaShape' /\ YieldIsCalm'
            /\ Len(agenda') = 2 /\ agenda'[1].op \in {"error", "kill"}
            /\ agenda'[1].who = cur'
        BY <2>1, <3>1, TwoCalls DEF Control
      <3>3. agenda' # <<>>
        BY <3>1
      <3> QED BY <2>2, <3>2, <3>3 DEF CurrentFiber, ShapeInv
    <2>4. CASE frames[f] # <<>>
      <3>1. agenda' = <<>>
        BY <2>1, <2>4
      <3>2. f # None
        BY ObjsAssumption DEF Objs
      <3>3. AgendaShape' /\ YieldIsCalm'
        BY <2>1, <3>1, <3>2 DEF AgendaShape, YieldIsCalm
      <3>4. CurrentFiber'
        BY <1>3, <2>1, <2>4, <3>1 DEF CurrentFiber
      <3> QED BY <2>2, <3>3, <3>4 DEF ShapeInv
    <2> QED BY <2>3, <2>4
  <1> QED BY <1>2, <1>3

\* Timers, the choice of the next task and the sweep preserve the invariant.
LEMMA LoopInv ==
  ASSUME SchedulingInv, Loop
  PROVE  ShapeInv'
  <1> USE DEF fiberVars, promiseVars, schedVars, sweepVars, loopVars
  <1>a. TypeOK /\ AgendaShape
    BY DEF SchedulingInv
  <1>b. phase \in {"drain", "sweep"} /\ UNCHANGED <<fstate, frames>>
    BY DEF Loop, FireTimer, NextTask, SweepKeep, SweepErase, SweepThrow, SweepDone
  <1>c. cur = None /\ \A f \in Fibers : fstate[f] = "Running" => Queued(f)
    BY <1>b, OutsideExec
  <1>d. runq \in Seq(Fibers) /\ microq \in Seq(Fibers)
    BY <1>a DEF TypeOK
  <1>1. CASE FireTimer
    <2> DEFINE c == Call("settle", Head(timers), None,
                         IF fut[Head(timers)].kind = "sleep" THEN "val" ELSE "err")
    <2>1. agenda' = <<c>> /\ UNCHANGED <<runq, microq, phase, cur>> /\ phase = "drain"
      BY <1>1 DEF FireTimer
    <2>2. c.op = "settle"
      BY DEF Call
    <2> HIDE DEF c
    <2>3. DOMAIN agenda' = 1..1 /\ agenda'[1].op = "settle" /\ \A i \in 1..1 : i = 1
      BY <2>1, <2>2
    <2>4. \A i \in DOMAIN agenda' : agenda'[i].op = "settle"
      BY <2>3
    <2>5. AgendaShape' /\ YieldIsCalm' /\ CurrentFiber'
      BY <1>c, <2>1, <2>4 DEF AgendaShape, YieldIsCalm, CurrentFiber, Control
    <2>6. RunnableQueued'
      BY <1>b, <1>c, <2>1 DEF RunnableQueued, Queued
    <2> QED BY <2>5, <2>6 DEF ShapeInv
  <1>2. CASE NextTask
    <2>1. phase = "drain" /\ agenda = <<>>
      BY <1>2 DEF NextTask
    <2>2. CASE /\ microq # <<>>
               /\ microq' = Front(microq)
               /\ RunOrSkip(Last(microq))
               /\ UNCHANGED runq
      <3>1. Last(microq) \in Fibers
        BY <1>d, <2>2 DEF Last
      <3>2. ToSet(microq) \subseteq ToSet(microq') \cup {Last(microq)}
        BY <1>d, <2>2, TakenFrom
      <3>3. \A g \in Fibers : Queued(g) => Queued(g)' \/ g = Last(microq)
        BY <2>2, <3>2 DEF Queued
      <3> QED BY <1>b, <2>1, <2>2, <3>1, <3>3, RunOrSkipInv
    <2>3. CASE /\ runq # <<>>
               /\ runq' = Tail(runq)
               /\ RunOrSkip(Head(runq))
               /\ UNCHANGED microq
      <3>1. Head(runq) \in Fibers
        BY <1>d, <2>3, HeadTailProperties
      <3>2. ToSet(runq) \subseteq ToSet(runq') \cup {Head(runq)}
        BY <1>d, <2>3, TakenFrom
      <3>3. \A g \in Fibers : Queued(g) => Queued(g)' \/ g = Head(runq)
        BY <2>3, <3>2 DEF Queued
      <3> QED BY <1>b, <2>1, <2>3, <3>1, <3>3, RunOrSkipInv
    <2>4. CASE Skip /\ UNCHANGED <<runq, microq>>
      <3>1. \A f \in Fibers : fstate'[f] = "Running" => Queued(f)'
        BY <1>b, <1>c, <2>4 DEF Queued
      <3>2. agenda' = <<>> /\ cur' = None /\ phase' = "sweep"
        BY <1>c, <2>1, <2>4 DEF Skip
      <3> QED BY <3>1, <3>2, IdleTurn
    <2> QED BY <1>2, <2>2, <2>3, <2>4 DEF NextTask
  <1>3. CASE SweepKeep \/ SweepErase \/ SweepThrow \/ SweepDone
    <2>1. /\ UNCHANGED <<fstate, runq, microq, cur, agenda>>
          /\ phase = "sweep" /\ phase' \in {"host", "drain", "sweep"}
      BY <1>3 DEF SweepKeep, SweepErase, SweepThrow, SweepDone
    <2>2. agenda = <<>>
      BY <1>a, <2>1 DEF AgendaShape
    <2>3. \A f \in Fibers : fstate'[f] = "Running" => Queued(f)'
      BY <1>c, <2>1 DEF Queued
    <2> QED BY <1>c, <2>1, <2>2, <2>3, IdleTurn
  <1> QED BY <1>1, <1>2, <1>3 DEF Loop

\* A host's Evaluate queues the fiber it adds.
LEMMA EvaluateInv ==
  ASSUME SchedulingInv, NEW f \in Fibers, Evaluate(f)
  PROVE  ShapeInv'
  <1>1. /\ phase = "host" /\ phase' = "drain" /\ UNCHANGED <<cur, agenda, microq>>
        /\ fstate' = [fstate EXCEPT ![f] = "Running"]
        /\ runq' = Append(runq, f)
    BY DEF Evaluate
  <1>2. agenda = <<>> /\ cur = None /\ \A g \in Fibers : fstate[g] = "Running" => Queued(g)
    BY <1>1, OutsideExec DEF SchedulingInv, AgendaShape
  <1>3. fstate \in [Fibers -> {"Free", "Running", "Suspended", "Dead"}] /\ runq \in Seq(Fibers)
    BY DEF SchedulingInv, TypeOK
  <1>4. ToSet(runq') = ToSet(runq) \cup {f}
    BY <1>1, <1>3, AppendSet
  <1>5. \A g \in Fibers : fstate'[g] = "Running" => Queued(g)'
    BY <1>1, <1>2, <1>3, <1>4 DEF Queued
  <1> QED BY <1>1, <1>2, <1>5, IdleTurn

(***************************************************************************)
(* The instructions.                                                       *)
(***************************************************************************)

\* Between two instructions the executed fiber is Running and has a frame.
LEMMA ExecutingFiber ==
  ASSUME SchedulingInv, NEW f \in Fibers, Executing(f)
  PROVE  /\ phase = "exec" /\ cur = f /\ agenda = <<>>
         /\ fstate[f] = "Running" /\ frames[f] # <<>>
  BY DEF Executing, SchedulingInv, CurrentFiber

\* An instruction after which the same fiber goes on.
LEMMA GoesOn ==
  ASSUME SchedulingInv, NEW f \in Fibers, Executing(f),
         UNCHANGED <<phase, cur, agenda>>,
         fstate'[f] = "Running", frames'[f] # <<>>,
         \A g \in Fibers : Queued(g) => Queued(g)',
         \A g \in Fibers : fstate'[g] = "Running" => fstate[g] = "Running" \/ Queued(g)'
  PROVE  ShapeInv'
  <1>1. phase = "exec" /\ cur = f /\ agenda = <<>>
    BY ExecutingFiber
  <1>2. RunnableQueued'
    BY DEF SchedulingInv, RunnableQueued
  <1>3. AgendaShape' /\ YieldIsCalm'
    BY <1>1 DEF SchedulingInv, AgendaShape, YieldIsCalm
  <1>4. CurrentFiber'
    BY <1>1 DEF CurrentFiber
  <1> QED BY <1>2, <1>3, <1>4 DEF ShapeInv

\* An instruction that leaves calls to be executed and the queues alone.
LEMMA CallsOut ==
  ASSUME SchedulingInv, UNCHANGED <<fstate, runq, microq, cur>>
  PROVE  RunnableQueued'
  BY DEF SchedulingInv, RunnableQueued, Queued

\* Await suspends the fiber before anything else happens.
LEMMA AwaitInv ==
  ASSUME SchedulingInv, NEW f \in Fibers, NEW x \in Objs \cup {None}, Await(f, x)
  PROVE  ShapeInv'
  <1>a. TypeOK /\ Executing(f)
    BY DEF SchedulingInv, Await, Budgeted
  <1>1. phase = "exec" /\ cur = f
    BY <1>a, ExecutingFiber
  <1>2. UNCHANGED <<phase, cur, runq, microq>>
    BY DEF Await, loopVars
  <1>3. fstate' = [fstate EXCEPT ![f] = "Suspended"]
    BY DEF Await
  <1>4. fstate \in [Fibers -> {"Free", "Running", "Suspended", "Dead"}]
    BY <1>a DEF TypeOK
  <1>5. RunnableQueued'
    BY <1>2, <1>3, <1>4 DEF SchedulingInv, RunnableQueued, Queued
  <1>6. PICK X \in Seq(PlainCalls), c \in Control : agenda' = X \o <<Do(c, f)>>
    <2>1. Do("tail", f) \in CallSet /\ Do("leave", f) \in CallSet
      BY DoType DEF FiberOps
    <2>2. <<Do("tail", f)>> \in Seq(CallSet) /\ <<Do("leave", f)>> \in Seq(CallSet)
      BY <2>1
    <2>3. f \in Objs /\ AwaitOn(x, f, <<Do("tail", f)>>, <<Do("leave", f)>>)
      BY DEF Await, Objs
    <2>4. \E X \in Seq(PlainCalls) : agenda' = X \o <<Do("tail", f)>>
                                     \/ agenda' = X \o <<Do("leave", f)>>
      BY <1>a, <2>2, <2>3, AwaitOnPush
    <2> QED BY <2>4 DEF Control
  <1>7. /\ X \in Seq(CallSet)
        /\ \A i \in 1..Len(X) : X[i].op \notin Control \cup {"detach"}
    BY PlainSeq
  <1> DEFINE d == Do(c, f)
  <1>8. d \in CallSet
    BY DoType DEF FiberOps, Control
  <1>9. <<d>> \in Seq(CallSet) /\ Len(<<d>>) = 1 /\ <<d>>[1] = d
    BY <1>8
  <1>10. d.op \in Control /\ d.op # "detach" /\ d \in {Do("tail", f), Do("leave", f)}
    BY DEF Do, Call, Control
  <1> HIDE DEF d
  <1>11. /\ agenda' = X \o <<d>> /\ agenda' \in Seq(CallSet)
         /\ Len(agenda') = Len(X) + 1 /\ Len(X) \in Nat
    BY <1>6, <1>7, <1>9, ConcatProperties DEF d
  <1>12. \A i \in 1..Len(X) + 1 : agenda'[i] = IF i <= Len(X) THEN X[i] ELSE d
    <2>1. \A i \in 1..Len(X) + Len(<<d>>) :
            (X \o <<d>>)[i] = IF i <= Len(X) THEN X[i] ELSE <<d>>[i - Len(X)]
      BY <1>7, <1>9, ConcatProperties
    <2>2. ASSUME NEW i \in 1..Len(X) + 1, ~(i <= Len(X))
          PROVE  i - Len(X) = 1
      BY <1>11, <2>2
    <2> QED BY <1>9, <1>11, <2>1, <2>2
  <1>13. DOMAIN agenda' = 1..Len(X) + 1
    BY <1>11, LenProperties
  <1>14. agenda' # <<>>
    BY <1>11
  <1>15. YieldIsCalm'
    <2>1. ASSUME NEW i \in DOMAIN agenda'
          PROVE  agenda'[i].op # "detach"
      BY <1>7, <1>10, <1>11, <1>12, <1>13
    <2> QED BY <2>1 DEF YieldIsCalm
  <1>16. AgendaShape'
    <2>1. agenda'[Len(agenda')] = d
      BY <1>11, <1>12
    <2>2. \A i \in 1..Len(agenda') - 1 : agenda'[i].op \notin Control
      BY <1>7, <1>11, <1>12
    <2>3. cur # None
      BY <1>1, ObjsAssumption DEF Objs
    <2> QED BY <1>1, <1>2, <1>10, <2>1, <2>2, <2>3 DEF AgendaShape
  <1>17. CurrentFiber'
    <2>1. fstate'[f] # "Running"
      BY <1>3, <1>4
    <2> QED BY <1>1, <1>2, <1>14, <2>1 DEF CurrentFiber
  <1> QED BY <1>5, <1>15, <1>16, <1>17 DEF ShapeInv

\* Concatenating two calls.
LEMMA JoinOne ==
  ASSUME NEW a, NEW b
  PROVE  <<a>> \o <<b>> = <<a, b>>
  <1> DEFINE S == {a, b}
  <1>1. <<a>> \in Seq(S) /\ <<b>> \in Seq(S) /\ <<a, b>> \in Seq(S)
    OBVIOUS
  <1>2. Len(<<a>>) = 1 /\ Len(<<b>>) = 1 /\ Len(<<a, b>>) = 2
    OBVIOUS
  <1>3. /\ <<a>> \o <<b>> \in Seq(S) /\ Len(<<a>> \o <<b>>) = 2
        /\ \A i \in 1..2 : (<<a>> \o <<b>>)[i] =
                              IF i <= 1 THEN <<a>>[i] ELSE <<b>>[i - 1]
    BY <1>1, <1>2, ConcatProperties
  <1>4. \A i \in 1..2 : (<<a>> \o <<b>>)[i] = <<a, b>>[i]
    <2>1. \A i \in 1..2 : i = 1 \/ i = 2
      OBVIOUS
    <2>2. (<<a>> \o <<b>>)[1] = a /\ (<<a>> \o <<b>>)[2] = b
      BY <1>3
    <2> QED BY <2>1, <2>2
  <1> QED BY <1>1, <1>2, <1>3, <1>4, SeqEqual

\* Every instruction of the executed fiber preserves the invariant.
LEMMA InstructionsInv ==
  ASSUME SchedulingInv, Instructions
  PROVE  ShapeInv'
  <1> USE DEF fiberVars, promiseVars, schedVars, sweepVars, loopVars
  <1>a. /\ TypeOK
        /\ fstate \in [Fibers -> {"Free", "Running", "Suspended", "Dead"}]
        /\ frames \in [Fibers -> Seq(Nat)]
        /\ runq \in Seq(Fibers)
    BY DEF SchedulingInv, TypeOK
  <1> PICK f \in Fibers :
        \/ CallFunction(f) \/ CallBadArguments(f) \/ Throw(f)
        \/ TryBegin(f) \/ TryEnd(f) \/ Return(f) \/ Yield(f)
        \/ \E g \in Fibers : Spawn(f, g) \/ SpawnBadArguments(f, g)
        \/ \E p \in Futures, kind \in FutureKinds :
             \E items \in Items(kind) : CreateFuture(f, p, kind, items)
        \/ \E x \in Objs \cup {None} : Await(f, x)
    BY DEF Instructions
  <1>b. Budgeted(f) => Executing(f)
    BY DEF Budgeted
  <1>c. Executing(f) =>
          /\ phase = "exec" /\ cur = f /\ agenda = <<>>
          /\ fstate[f] = "Running" /\ frames[f] # <<>>
    BY ExecutingFiber
  <1>d. frames[f] \in Seq(Nat) /\ f # None
    BY <1>a, ObjsAssumption DEF Objs
  <1>1. ASSUME \/ CallFunction(f) \/ TryBegin(f) \/ TryEnd(f)
               \/ \E p \in Futures, kind \in FutureKinds :
                    \E items \in Items(kind) : CreateFuture(f, p, kind, items)
        PROVE  ShapeInv'
    <2>1. Executing(f)
      BY <1>1, <1>b DEF CallFunction, TryBegin, TryEnd, CreateFuture
    <2>2. UNCHANGED <<phase, cur, agenda, fstate, runq, microq>>
      BY <1>1 DEF CallFunction, TryBegin, TryEnd, CreateFuture
    <2>3. frames'[f] # <<>>
      <3>1. CASE CallFunction(f)
        <4>1. frames'[f] = Append(frames[f], 0)
          BY <1>a, <3>1 DEF CallFunction
        <4>2. Append(frames[f], 0) # <<>>
          BY <1>d
        <4> QED BY <4>1, <4>2
      <3>2. CASE TryBegin(f) \/ TryEnd(f)
        <4> DEFINE n == Len(frames[f])
        <4>1. \/ frames'[f] = [frames[f] EXCEPT ![n] = frames[f][n] + 1]
              \/ frames'[f] = [frames[f] EXCEPT ![n] = frames[f][n] - 1]
          BY <1>a, <3>2 DEF TryBegin, TryEnd
        <4>2. DOMAIN frames'[f] = DOMAIN frames[f]
          <5> HIDE DEF n
          <5> QED BY <4>1
        <4>3. 1 \in DOMAIN frames[f]
          <5>1. Len(frames[f]) \in Nat \ {0} /\ DOMAIN frames[f] = 1..Len(frames[f])
            BY <1>c, <1>d, <2>1, EmptySeq
          <5> QED BY <5>1
        <4> QED BY <4>2, <4>3
      <3>3. CASE frames' = frames
        BY <1>c, <2>1, <3>3
      <3> QED BY <1>1, <3>1, <3>2, <3>3 DEF CreateFuture
    <2>4. \A g \in Fibers : Queued(g) <=> Queued(g)'
      BY <2>2 DEF Queued
    <2> QED BY <1>c, <2>1, <2>2, <2>3, <2>4, GoesOn
  <1>2. CASE CallBadArguments(f) \/ Throw(f)
    <2>1. Executing(f)
      BY <1>2, <1>b DEF CallBadArguments, Throw
    <2>2. PICK c \in Control : agenda' = <<Do("error", f), Do(c, f)>>
      BY <1>2 DEF CallBadArguments, Throw, Control
    <2>3. UNCHANGED <<phase, cur, fstate, runq, microq>>
      BY <1>2 DEF CallBadArguments, Throw
    <2>4. /\ AgendaShape' /\ YieldIsCalm'
          /\ Len(agenda') = 2 /\ agenda'[1].op \in {"error", "kill"} /\ agenda'[1].who = cur'
      BY <1>c, <2>1, <2>2, <2>3, TwoCalls
    <2>5. agenda' # <<>>
      BY <2>2
    <2> QED BY <2>3, <2>4, <2>5, CallsOut DEF CurrentFiber, ShapeInv
  <1>3. CASE Return(f)
    <2>1. Executing(f)
      BY <1>3 DEF Return
    <2>2. UNCHANGED <<phase, cur, fstate, runq, microq>>
      BY <1>3 DEF Return
    <2>3. CASE Len(frames[f]) = 1
      <3>1. agenda' = <<Do("kill", f), Do("leave", f)>>
        <4> DEFINE K == IF Len(frames[f]) = 1 THEN <<Do("kill", f)>> ELSE <<>>
        <4>1. agenda' = K \o <<Do("leave", f)>>
          <5> HIDE DEF K
          <5>1. (IF Len(frames[f]) = 1 THEN <<Do("kill", f)>> ELSE <<>>) = K
            BY DEF K
          <5> QED BY <1>3, <5>1, Zenon DEF Return
        <4>2. K = <<Do("kill", f)>>
          BY <2>3
        <4> HIDE DEF K
        <4>3. <<Do("kill", f)>> \o <<Do("leave", f)>> = <<Do("kill", f), Do("leave", f)>>
          BY JoinOne
        <4> QED BY <4>1, <4>2, <4>3, Zenon
      <3>2. /\ AgendaShape' /\ YieldIsCalm'
            /\ Len(agenda') = 2 /\ agenda'[1].op \in {"error", "kill"} /\ agenda'[1].who = cur'
        BY <1>c, <2>1, <2>2, <3>1, TwoCalls DEF Control
      <3>3. agenda' # <<>>
        BY <3>1
      <3> QED BY <2>2, <3>2, <3>3, CallsOut DEF CurrentFiber, ShapeInv
    <2>4. CASE Len(frames[f]) # 1
      <3>1. agenda' = <<Do("leave", f)>>
        BY <1>3, <2>4 DEF Return
      <3>2. /\ Len(agenda') = 1 /\ DOMAIN agenda' = 1..1 /\ agenda' # <<>>
            /\ agenda'[1] = Do("leave", f) /\ \A i \in 1..1 : i = 1
        BY <3>1
      <3>3. agenda'[1].op = "leave" /\ agenda'[1].res = "val"
        BY <3>2 DEF Do, Call
      <3>4. AgendaShape'
        BY <1>c, <1>d, <2>1, <2>2, <3>2 DEF AgendaShape
      <3>5. YieldIsCalm'
        BY <3>2, <3>3 DEF YieldIsCalm
      <3>6. Calm'
        BY <3>2, <3>3 DEF Calm, CalmOps, Control
      <3>7. frames'[f] # <<>>
        <4>1. frames'[f] = Front(frames[f])
          BY <1>a, <1>3 DEF Return
        <4>2. Len(frames[f]) \in Nat \ {0}
          BY <1>c, <1>d, <2>1, EmptySeq
        <4>3. Len(Front(frames[f])) = Len(frames[f]) - 1
          BY <1>d, <4>2 DEF Front
        <4>4. Front(frames[f]) \in Seq(Nat)
          BY <1>d, FrontType
        <4>5. \A n \in Nat \ {0} : n # 1 => n - 1 # 0
          OBVIOUS
        <4>6. Len(Front(frames[f])) # 0
          BY <2>4, <4>2, <4>3, <4>5
        <4> QED BY <4>1, <4>4, <4>6, EmptySeq
      <3>8. CurrentFiber'
        BY <1>c, <2>1, <2>2, <3>2, <3>6, <3>7 DEF CurrentFiber
      <3> QED BY <2>2, <3>4, <3>5, <3>8, CallsOut DEF ShapeInv
    <2> QED BY <2>3, <2>4
  <1>4. CASE Yield(f)
    <2>1. Executing(f)
      BY <1>4, <1>b DEF Yield
    <2>2. UNCHANGED <<phase, cur, fstate, frames, runq, microq>>
      BY <1>4 DEF Yield
    <2>3. agenda' = <<Do("settle", f), Do("detach", f), Do("leave", f)>>
      BY <1>4 DEF Yield
    <2>4. /\ Len(agenda') = 3 /\ DOMAIN agenda' = 1..3 /\ agenda' # <<>>
          /\ agenda'[1] = Do("settle", f)
          /\ agenda'[2] = Do("detach", f)
          /\ agenda'[3] = Do("leave", f)
      BY <2>3
    <2>5. /\ agenda'[1].op = "settle" /\ agenda'[2].op = "detach"
          /\ agenda'[3].op = "leave" /\ agenda'[2].who = f
          /\ agenda'[1].res = "val" /\ agenda'[2].res = "val" /\ agenda'[3].res = "val"
      BY <2>4 DEF Do, Call
    <2>6. \A i \in 1..3 : i = 1 \/ i = 2 \/ i = 3
      OBVIOUS
    <2>7. Calm'
      BY <2>4, <2>5, <2>6 DEF Calm, CalmOps, Control
    <2>8. AgendaShape'
      <3>1. \A i \in 1..3 - 1 : agenda'[i].op \notin Control
        <4>1. \A i \in 1..3 - 1 : i = 1 \/ i = 2
          OBVIOUS
        <4> QED BY <2>5, <4>1 DEF Control
      <3> QED BY <1>c, <1>d, <2>1, <2>2, <2>4, <3>1 DEF AgendaShape
    <2>9. YieldIsCalm'
      <3>1. \A i \in DOMAIN agenda' : agenda'[i].op = "detach" => i = 2
        BY <2>4, <2>5, <2>6
      <3>2. agenda'[2].who = cur' /\ fstate'[cur'] # "Dead"
        BY <1>c, <2>1, <2>2, <2>5
      <3> QED BY <2>7, <3>1, <3>2 DEF YieldIsCalm
    <2>10. CurrentFiber'
      BY <1>c, <2>1, <2>2, <2>4, <2>7 DEF CurrentFiber
    <2> QED BY <2>2, <2>8, <2>9, <2>10, CallsOut DEF ShapeInv
  <1>5. ASSUME NEW g \in Fibers, Spawn(f, g)
        PROVE  ShapeInv'
    <2>1. Executing(f)
      BY <1>5, <1>b DEF Spawn
    <2>2. UNCHANGED <<phase, cur, agenda, microq>> /\ fstate[g] = "Free"
      BY <1>5 DEF Spawn
    <2>3. /\ fstate' = [fstate EXCEPT ![g] = "Running"]
          /\ \E fr \in {<<>>, <<0>>} : frames' = [frames EXCEPT ![g] = fr]
          /\ runq' = Append(runq, g)
      BY <1>5 DEF Spawn
    <2>4. f # g
      BY <1>c, <2>1, <2>2
    <2>5. fstate'[f] = "Running" /\ frames'[f] # <<>>
      BY <1>a, <1>c, <2>1, <2>3, <2>4
    <2>6. ToSet(runq') = ToSet(runq) \cup {g}
      BY <1>a, <2>3, AppendSet
    <2>7. \A h \in Fibers : Queued(h) => Queued(h)'
      BY <2>2, <2>6 DEF Queued
    <2>8. \A h \in Fibers : fstate'[h] = "Running" => fstate[h] = "Running" \/ Queued(h)'
      BY <1>a, <2>3, <2>6 DEF Queued
    <2> QED BY <2>1, <2>2, <2>5, <2>7, <2>8, GoesOn
  <1>6. ASSUME NEW g \in Fibers, SpawnBadArguments(f, g)
        PROVE  ShapeInv'
    <2>1. Executing(f)
      BY <1>6, <1>b DEF SpawnBadArguments
    <2>2. UNCHANGED <<phase, cur, agenda, runq, microq, frames>> /\ fstate[g] = "Free"
      BY <1>6 DEF SpawnBadArguments
    <2>3. fstate' = [fstate EXCEPT ![g] = "Dead"]
      BY <1>6 DEF SpawnBadArguments
    <2>4. f # g
      BY <1>c, <2>1, <2>2
    <2>5. fstate'[f] = "Running" /\ frames'[f] # <<>>
      BY <1>a, <1>c, <2>1, <2>2, <2>3, <2>4
    <2>6. \A h \in Fibers : Queued(h) <=> Queued(h)'
      BY <2>2 DEF Queued
    <2>7. \A h \in Fibers : fstate'[h] = "Running" => fstate[h] = "Running"
      BY <1>a, <2>3
    <2> QED BY <2>1, <2>2, <2>5, <2>6, <2>7, GoesOn
  <1>7. ASSUME NEW x \in Objs \cup {None}, Await(f, x)
        PROVE  ShapeInv'
    BY <1>7, AwaitInv
  <1> QED BY <1>1, <1>2, <1>3, <1>4, <1>5, <1>6, <1>7

(***************************************************************************)
(* The theorems.                                                           *)
(***************************************************************************)

\* The initial state satisfies the invariant.
LEMMA SchedulingInit == Init => SchedulingInv
  <1> SUFFICES ASSUME Init PROVE SchedulingInv
    OBVIOUS
  <1>1. TypeOK
    BY InitType
  <1>2. agenda = <<>> /\ cur = None /\ phase = "host" /\ fstate = [f \in Fibers |-> "Free"]
    BY DEF Init
  <1> QED BY <1>1, <1>2
          DEF SchedulingInv, RunnableQueued, AgendaShape, CurrentFiber, YieldIsCalm

\* Every step preserves the invariant.
LEMMA SchedulingNext == SchedulingInv /\ [Next]_vars => SchedulingInv'
  <1> SUFFICES ASSUME SchedulingInv, [Next]_vars PROVE SchedulingInv'
    OBVIOUS
  <1>1. TypeOK'
    BY CallsType, LoopType, InstructionsType, EvaluateType, StutterType
       DEF SchedulingInv, Next, Step
  <1>2. CASE UNCHANGED vars
    BY <1>1, <1>2
       DEF vars, fiberVars, promiseVars, schedVars, sweepVars, loopVars, SchedulingInv,
           RunnableQueued, Queued, AgendaShape, CurrentFiber, YieldIsCalm, Calm
  <1>3. CASE Next
    <2>1. ShapeInv'
      BY <1>3, CallsInv, LoopInv, InstructionsInv, EvaluateInv DEF Next, Step
    <2> QED BY <1>1, <2>1 DEF ShapeInv, SchedulingInv
  <1> QED BY <1>2, <1>3

\* What the C++ call stack can look like in each phase of VM::Run, whatever a
\* script does: the inductive invariant of the scheduler.
THEOREM Scheduling == Spec => []SchedulingInv
  BY SchedulingInit, SchedulingNext, PTL DEF Spec

\* No lost fiber: one marked Running is in a queue or is being executed.
THEOREM NoLostFiber == Spec => []RunnableQueued
  <1>1. SchedulingInv => RunnableQueued
    BY DEF SchedulingInv
  <1> QED BY Scheduling, <1>1, PTL

\* What a step does to a dead fiber.
LEMMA DeadStep ==
  ASSUME SchedulingInv, [Next]_vars
  PROVE  [\A f \in Fibers : fstate[f] = "Dead" => fstate'[f] = "Dead"]_vars
  <1> SUFFICES ASSUME Next, NEW f \in Fibers, fstate[f] = "Dead"
               PROVE  fstate'[f] = "Dead"
    OBVIOUS
  <1> USE DEF fiberVars, promiseVars, schedVars, sweepVars, loopVars
  <1>a. TypeOK /\ fstate \in [Fibers -> {"Free", "Running", "Suspended", "Dead"}]
    BY DEF SchedulingInv, TypeOK
  <1>1. CASE fstate' = fstate
    BY <1>1
  <1>2. CASE MicroTask
    BY <1>a, <1>2 DEF MicroTask
  <1>3. CASE ResumeAwaited
    BY <1>a, <1>3 DEF ResumeAwaited
  <1>4. CASE Kill
    BY <1>a, <1>4 DEF Kill
  <1>5. CASE Detach
    <2>1. agenda # <<>> /\ Top.op = "detach" /\ agenda \in Seq(CallSet)
      BY <1>a, <1>5 DEF Detach, Running, Top, TypeOK
    <2>2. 1 \in DOMAIN agenda /\ agenda[1] = Top
      BY <2>1 DEF Top
    <2>3. Top.who = cur /\ fstate[cur] # "Dead"
      BY <2>1, <2>2 DEF SchedulingInv, YieldIsCalm
    <2> QED BY <1>a, <1>5, <2>3 DEF Detach
  <1>6. ASSUME NEW g \in Fibers, Evaluate(g)
        PROVE  fstate'[f] = "Dead"
    BY <1>a, <1>6 DEF Evaluate
  <1>7. ASSUME NEW g \in Fibers, NEW h \in Fibers, Spawn(g, h) \/ SpawnBadArguments(g, h)
        PROVE  fstate'[f] = "Dead"
    BY <1>a, <1>7 DEF Spawn, SpawnBadArguments
  <1>8. ASSUME NEW g \in Fibers, NEW x \in Objs \cup {None}, Await(g, x)
        PROVE  fstate'[f] = "Dead"
    <2>1. fstate[g] = "Running"
      BY <1>8, ExecutingFiber DEF Await, Budgeted
    <2> QED BY <1>a, <1>8, <2>1 DEF Await
  <1>9. Calls => \/ fstate' = fstate \/ MicroTask \/ ResumeAwaited \/ Kill \/ Detach
    BY DEF Calls, AwaitCall, DeliverToFiber, DeliverToFuture, Arrived, Settle, Woken,
           Bump, RaiseError, KillDead, Bury, LoopTail, Leave
  <1>10. Loop => fstate' = fstate
    BY DEF Loop, FireTimer, NextTask, SweepKeep, SweepErase, SweepThrow, SweepDone
  <1>11. Instructions =>
           \/ fstate' = fstate
           \/ \E g, h \in Fibers : Spawn(g, h) \/ SpawnBadArguments(g, h)
           \/ \E g \in Fibers, x \in Objs \cup {None} : Await(g, x)
    BY DEF Instructions, CallFunction, CallBadArguments, Throw, TryBegin, TryEnd,
           Return, Yield, CreateFuture
  <1> QED BY <1>1, <1>2, <1>3, <1>4, <1>5, <1>6, <1>7, <1>8, <1>9, <1>10, <1>11
          DEF Next, Step

\* A dead fiber stays dead, whatever wake-ups are still on their way to it.
THEOREM NoResurrection == Spec => DeadStaysDead
  <1>1. SchedulingInv /\ [Next]_vars
          => [\A f \in Fibers : fstate[f] = "Dead" => fstate'[f] = "Dead"]_vars
    BY DeadStep
  <1> QED BY Scheduling, <1>1, PTL DEF Spec, DeadStaysDead

-----------------------------------------------------------------------------
(***************************************************************************)
(* Nobody waits for an object that does not exist yet.                     *)
(***************************************************************************)

\* A call of an operation of an object that is known.
LEMMA KnownDo ==
  /\ \A op \in FiberOps, f \in Known \cap Fibers : Do(op, f) \in KnownCalls
  /\ \A p \in Known \cap Futures : Do("arrived", p) \in KnownCalls
  /\ \A op \in {"settle", "woken", "bump"}, o \in Known : Do(op, o) \in KnownCalls
  /\ \A op \in {"settle"}, o \in Known, r \in Results : Call(op, o, None, r) \in KnownCalls
  /\ \A f \in Known \cap Fibers, r \in Results : Call("kill", f, None, r) \in KnownCalls
  /\ \A o \in Known, b \in Known \cup {None}, r \in Results : Call("deliver", o, b, r) \in KnownCalls
  /\ \A x \in Known \cup {None}, o \in Known : Call("await", x, o, "val") \in KnownCalls
  BY DEF Do, Call, KnownCalls, Known, CallSet, CallOps, FiberOps, Objs, Results

\* The agenda's head concerns what is known, and so does what follows it.
LEMMA KnownTop ==
  ASSUME KnownInv, NEW op, Running(op)
  PROVE  /\ Top \in KnownCalls /\ Top \in CallSet /\ Top.op = op
         /\ Top.who \in Known \cup {None} /\ Top.by \in Known \cup {None}
         /\ Top.res \in Results
         /\ Rest \in Seq(KnownCalls)
  <1>1. Top \in KnownCalls /\ Top.op = op /\ Rest \in Seq(KnownCalls)
    BY HeadTailProperties DEF KnownInv, Running, Top, Rest
  <1> QED BY <1>1 DEF KnownCalls, CallSet

\* Waking the waiters of a promise tells those who are known.
LEMMA WakeAllKnown ==
  ASSUME KnownInv, NEW o \in Known, NEW r \in Results
  PROVE  WakeAll(o, r) \in Seq(KnownCalls)
  <1> DEFINE D == [i \in 1..Len(wakers[o]) |-> Call("deliver", wakers[o][i], o, r)]
  <1>1. wakers[o] \in Seq(Known)
    BY DEF KnownInv, Known
  <1>2. \A i \in 1..Len(wakers[o]) : Call("deliver", wakers[o][i], o, r) \in KnownCalls
    BY <1>1, KnownDo
  <1>3. D \in Seq(KnownCalls)
    BY <1>1, <1>2, IsASeq
  <1>4. Do("woken", o) \in KnownCalls
    BY KnownDo
  <1> QED BY <1>3, <1>4 DEF WakeAll

\* The first await of a future concerns what it was created with.
LEMMA InitialAwaitKnown ==
  ASSUME KnownInv, NEW o \in Known
  PROVE  InitialAwait(o) \in Seq(KnownCalls)
  <1>1. CASE o \in Futures
    <2>1. fut[o].of \in Seq(Known \cup {None})
      BY <1>1 DEF KnownInv
    <2>2. \A i \in 1..Len(fut[o].of) : Call("await", fut[o].of[i], o, "val") \in KnownCalls
      BY <2>1, KnownDo
    <2> QED BY <1>1, <2>1, <2>2, IsASeq DEF InitialAwait
  <1>2. CASE o \notin Futures
    BY <1>2 DEF InitialAwait
  <1> QED BY <1>1, <1>2

\* VM::Await of something known, by somebody known.
LEMMA AwaitOnKnown ==
  ASSUME TypeOK, KnownInv, NEW x \in Known \cup {None}, NEW by \in Known,
         NEW ready \in Seq(KnownCalls), NEW pending \in Seq(KnownCalls),
         AwaitOn(x, by, ready, pending)
  PROVE  /\ wakers' \in [Objs -> Seq(Known)]
         /\ timers' \in Seq(Known)
         /\ agenda' \in Seq(KnownCalls)
         /\ \A p \in Futures : p # x => pstat'[p] = pstat[p]
  <1>0. /\ wakers \in [Objs -> Seq(Known)] /\ timers \in Seq(Known)
        /\ pstat \in [Objs -> {"New", "Pending", "Resolved", "Rejected"}]
    BY DEF TypeOK, KnownInv
  <1>1. CASE x = None
    <2>1. Call("deliver", by, None, "err") \in KnownCalls
      BY KnownDo DEF Results
    <2>2. /\ agenda' = <<Call("deliver", by, None, "err")>> \o ready
          /\ UNCHANGED <<pstat, wakers, timers>>
      BY <1>1, ObjsAssumption DEF AwaitOn
    <2> QED BY <1>0, <2>1, <2>2
  <1>2. CASE x \in Objs /\ HasResult(x)
    <2>1. Call("deliver", by, x, ResultOf(x)) \in KnownCalls
      BY <1>2, KnownDo DEF Results, ResultOf
    <2>2. Do("bump", x) \in KnownCalls
      BY <1>2, ObjsAssumption, KnownDo
    <2>3. /\ agenda' = <<Call("deliver", by, x, ResultOf(x)), Do("bump", x)>> \o ready
          /\ UNCHANGED <<pstat, wakers, timers>>
      BY <1>2, ObjsAssumption DEF AwaitOn
    <2> QED BY <1>0, <2>1, <2>2, <2>3
  <1>3. CASE x \in Objs /\ ~HasResult(x)
    <2>0. x \in Known
      BY <1>3, ObjsAssumption
    <2>1. InitialAwait(x) \in Seq(KnownCalls)
      BY <2>0, InitialAwaitKnown
    <2>2. x \in Fibers => Do("micro", x) \in KnownCalls
      BY <2>0, KnownDo DEF FiberOps
    <2>3. /\ wakers' = [wakers EXCEPT ![x] = Append(@, by)]
          /\ pstat'  = [pstat EXCEPT ![x] = "Pending"]
          /\ agenda' = (IF pstat[x] = "New" THEN InitialAwait(x) ELSE <<>>)
                    \o (IF x \in Fibers THEN <<Do("micro", x)>> ELSE <<>>)
                    \o pending
          /\ IF pstat[x] = "New" /\ Timed(x)
             THEN \E i \in 1..Len(timers) + 1 : timers' = InsertAt(timers, i, x)
             ELSE UNCHANGED timers
      BY <1>3, ObjsAssumption DEF AwaitOn
    <2>4. agenda' \in Seq(KnownCalls)
      <3> DEFINE A == IF pstat[x] = "New" THEN InitialAwait(x) ELSE <<>>
                 B == IF x \in Fibers THEN <<Do("micro", x)>> ELSE <<>>
      <3>1. A \in Seq(KnownCalls)
        BY <2>1
      <3>2. B \in Seq(KnownCalls)
        BY <2>2
      <3>3. agenda' = (A \o B) \o pending
        BY <2>3
      <3> HIDE DEF A, B
      <3> QED BY <3>1, <3>2, <3>3, ConcatProperties
    <2>5. timers' \in Seq(Known)
      BY <1>0, <2>0, <2>3, InsertAtType
    <2>6. wakers' \in [Objs -> Seq(Known)]
      <3>1. wakers[x] \in Seq(Known)
        BY <1>0, <1>3
      <3>2. Append(wakers[x], by) \in Seq(Known)
        BY <3>1
      <3> QED BY <1>0, <2>3, <3>2, ExceptType
    <2>7. \A p \in Futures : p # x => pstat'[p] = pstat[p]
      BY <1>0, <2>3 DEF Objs
    <2> QED BY <2>4, <2>5, <2>6, <2>7
  <1> QED BY <1>1, <1>2, <1>3 DEF Known, Objs

\* What is known stays known: no step takes an object back.
LEMMA KnownGrows ==
  ASSUME TypeOK, [Next]_vars
  PROVE  Known \subseteq Known'
  <1> USE DEF fiberVars, promiseVars, schedVars, sweepVars, loopVars
  <1>a. /\ fstate \in [Fibers -> {"Free", "Running", "Suspended", "Dead"}]
        /\ fut \in [Futures -> [kind : Kinds \cup {"none"}, of : Seq(Objs \cup {None})]]
    BY DEF TypeOK
  <1>1. ASSUME NEW f \in Fibers, fstate[f] # "Free"
        PROVE  fstate'[f] # "Free"
    <2>1. \/ fstate' = fstate
          \/ \E g, s : s # "Free" /\ fstate' = [fstate EXCEPT ![g] = s]
      BY DEF Next, Step, Calls, AwaitCall, DeliverToFiber, DeliverToFuture, Arrived, Settle,
             Woken, Bump, MicroTask, ResumeAwaited, RaiseError, Kill, KillDead, Bury, Detach,
             LoopTail, Leave, Loop, FireTimer, NextTask, SweepKeep, SweepErase, SweepThrow,
             SweepDone, Instructions, CallFunction, CallBadArguments, Throw, TryBegin, TryEnd,
             Return, Yield, Spawn, SpawnBadArguments, CreateFuture, Await, Evaluate, vars
    <2> QED BY <1>a, <1>1, <2>1
  <1>2. ASSUME NEW p \in Futures, fut[p].kind # "none"
        PROVE  fut'[p].kind # "none"
    <2>1. \/ fut' = fut
          \/ \E f \in Fibers, q \in Futures, kind \in FutureKinds :
               \E items \in Items(kind) : CreateFuture(f, q, kind, items)
      BY DEF Next, Step, Calls, AwaitCall, DeliverToFiber, DeliverToFuture, Arrived, Settle,
             Woken, Bump, MicroTask, ResumeAwaited, RaiseError, Kill, KillDead, Bury, Detach,
             LoopTail, Leave, Loop, FireTimer, NextTask, SweepKeep, SweepErase, SweepThrow,
             SweepDone, Instructions, CallFunction, CallBadArguments, Throw, TryBegin, TryEnd,
             Return, Yield, Spawn, SpawnBadArguments, Await, Evaluate, vars
    <2> QED BY <1>a, <1>2, <2>1 DEF CreateFuture
  <1> QED BY <1>1, <1>2 DEF Known, Allocated

\* What the invariant needs of a step that creates no future.
LEMMA KnownStep ==
  ASSUME KnownInv, Known \subseteq Known', UNCHANGED fut,
         wakers' \in [Objs -> Seq(Known)], timers' \in Seq(Known),
         agenda' \in Seq(KnownCalls),
         \A p \in Futures \ Known : pstat'[p] = pstat[p]
  PROVE  KnownInv'
  <1>1. KnownCalls \subseteq KnownCalls'
    BY DEF KnownCalls
  <1>2. ASSUME NEW p \in Futures
        PROVE  fut'[p].of \in Seq(Known' \cup {None})
    <2>1. fut[p].of \in Seq(Known \cup {None})
      BY DEF KnownInv
    <2> QED BY <2>1
  <1>3. \A p \in Futures : fut'[p].kind = "none" => pstat'[p] = "New"
    BY ObjsAssumption DEF KnownInv, Known, Allocated
  <1>4. wakers' \in [Objs -> Seq(Known')]
    OBVIOUS
  <1>5. timers' \in Seq(Known') /\ agenda' \in Seq(KnownCalls')
    BY <1>1
  <1> QED BY <1>2, <1>3, <1>4, <1>5 DEF KnownInv

\* Calls in progress concern known objects and call for known objects.
LEMMA CallsKnown ==
  ASSUME TypeOK, KnownInv, Known \subseteq Known', Calls
  PROVE  KnownInv'
  <1> USE DEF fiberVars, promiseVars, schedVars, sweepVars, loopVars
  <1>a. /\ wakers \in [Objs -> Seq(Known)] /\ timers \in Seq(Known)
        /\ pstat \in [Objs -> {"New", "Pending", "Resolved", "Rejected"}]
        /\ agenda \in Seq(KnownCalls)
    BY DEF TypeOK, KnownInv
  <1>b. UNCHANGED fut
    BY DEF Calls, AwaitCall, DeliverToFiber, DeliverToFuture, Arrived, Settle, Woken, Bump,
           MicroTask, ResumeAwaited, RaiseError, Kill, KillDead, Bury, Detach, LoopTail, Leave
  <1>1. CASE AwaitCall
    <2>1. Top \in CallSet /\ Top.op = "await" /\ Rest \in Seq(KnownCalls)
          /\ Top.who \in Known \cup {None} /\ Top.by \in Known \cup {None}
      BY <1>1, KnownTop DEF AwaitCall
    <2>2. Top.by \in Known
      BY <2>1, ObjsAssumption DEF CallSet
    <2>3. AwaitOn(Top.who, Top.by, Rest, Rest)
      BY <1>1 DEF AwaitCall
    <2>4. /\ wakers' \in [Objs -> Seq(Known)] /\ timers' \in Seq(Known)
          /\ agenda' \in Seq(KnownCalls)
          /\ \A p \in Futures : p # Top.who => pstat'[p] = pstat[p]
      BY <2>1, <2>2, <2>3, AwaitOnKnown
    <2> QED BY <1>b, <2>1, <2>4, KnownStep, ObjsAssumption DEF Objs
  <1>2. CASE DeliverToFiber
    <2>1. /\ Top.who \in Known \cap Fibers /\ Top.by \in Known \cup {None}
          /\ Rest \in Seq(KnownCalls)
      BY <1>2, KnownTop, ObjsAssumption DEF DeliverToFiber, Objs
    <2>2. /\ Do("error", Top.who) \in KnownCalls /\ Do("micro", Top.who) \in KnownCalls
          /\ Top.by \in Fibers => Do("task", Top.by) \in KnownCalls
      BY <2>1, KnownDo, ObjsAssumption DEF FiberOps, Objs
    <2>3. agenda' \in Seq(KnownCalls)
      BY <1>2, <2>1, <2>2 DEF DeliverToFiber
    <2> QED BY <1>2, <1>a, <1>b, <2>3, KnownStep DEF DeliverToFiber
  <1>3. CASE DeliverToFuture
    <2>1. /\ Top.who \in Known \cap Futures /\ Top.res \in Results /\ Rest \in Seq(KnownCalls)
      BY <1>3, KnownTop, ObjsAssumption DEF DeliverToFuture, Objs
    <2>2. /\ Call("settle", Top.who, None, Top.res) \in KnownCalls
          /\ Do("arrived", Top.who) \in KnownCalls
      BY <2>1, KnownDo
    <2>3. agenda' \in Seq(KnownCalls)
      BY <1>3, <2>1, <2>2 DEF DeliverToFuture
    <2> QED BY <1>3, <1>a, <1>b, <2>3, KnownStep DEF DeliverToFuture
  <1>4. CASE Arrived
    <2>1. Top \in CallSet /\ Top.op = "arrived" /\ Top.who \in Known \cup {None}
          /\ Rest \in Seq(KnownCalls)
      BY <1>4, KnownTop DEF Arrived
    <2>2. Top.who \in Known
      BY <2>1, ObjsAssumption DEF CallSet, Objs
    <2>3. Do("settle", Top.who) \in KnownCalls
      BY <2>2, KnownDo
    <2>4. agenda' \in Seq(KnownCalls)
      BY <1>4, <2>1, <2>3 DEF Arrived
    <2> QED BY <1>4, <1>a, <1>b, <2>4, KnownStep DEF Arrived
  <1>5. CASE Settle
    <2>1. Top \in CallSet /\ Top.op = "settle" /\ Top.who \in Known \cup {None}
          /\ Top.res \in Results /\ Rest \in Seq(KnownCalls)
      BY <1>5, KnownTop DEF Settle
    <2>2. Top.who \in Known
      BY <2>1, ObjsAssumption DEF CallSet
    <2>3. WakeAll(Top.who, Top.res) \in Seq(KnownCalls)
      BY <2>1, <2>2, WakeAllKnown
    <2>4. agenda' \in Seq(KnownCalls)
      <3>1. agenda' \in {Rest, WakeAll(Top.who, Top.res) \o Rest}
        BY <1>5 DEF Settle
      <3> QED BY <2>1, <2>3, <3>1, ConcatProperties
    <2>5. \A p \in Futures \ Known : pstat'[p] = pstat[p]
      BY <1>5, <1>a, <2>2 DEF Settle, Objs
    <2> QED BY <1>5, <1>a, <1>b, <2>4, <2>5, KnownStep DEF Settle
  <1>6. CASE Woken \/ Bump
    <2>1. Rest \in Seq(KnownCalls)
      BY <1>6, KnownTop DEF Woken, Bump
    <2>2. wakers' \in [Objs -> Seq(Known)]
      <3>1. CASE Woken
        BY <1>a, <3>1, EmptyType, ExceptType DEF Woken
      <3>2. CASE Bump
        BY <1>a, <3>2 DEF Bump
      <3> QED BY <1>6, <3>1, <3>2
    <2> QED BY <1>6, <1>a, <1>b, <2>1, <2>2, KnownStep DEF Woken, Bump
  <1>7. CASE MicroTask \/ ResumeAwaited \/ Bury \/ Leave
    <2>1. Rest \in Seq(KnownCalls)
      BY <1>7, KnownTop DEF MicroTask, ResumeAwaited, Bury, Leave
    <2> QED BY <1>7, <1>a, <1>b, <2>1, KnownStep DEF MicroTask, ResumeAwaited, Bury, Leave
  <1>8. CASE RaiseError
    <2>1. Top \in CallSet /\ Top.op = "error" /\ Top.who \in Known \cup {None}
          /\ Rest \in Seq(KnownCalls)
      BY <1>8, KnownTop DEF RaiseError
    <2>a. Top.who \in Known \cap Fibers
      BY <2>1, ObjsAssumption DEF CallSet, FiberOps, Objs
    <2>2. Call("kill", Top.who, None, "err") \in KnownCalls
      BY <2>a, KnownDo DEF Results
    <2>3. agenda' \in Seq(KnownCalls)
      <3>1. agenda' \in {Rest, <<Call("kill", Top.who, None, "err")>> \o Rest}
        BY <1>8 DEF RaiseError
      <3> QED BY <2>1, <2>2, <3>1
    <2> QED BY <1>8, <1>a, <1>b, <2>3, KnownStep DEF RaiseError
  <1>9. CASE Kill
    <2>1. Top \in CallSet /\ Top.op = "kill" /\ Top.who \in Known \cup {None}
          /\ Top.res \in Results /\ Rest \in Seq(KnownCalls)
      BY <1>9, KnownTop DEF Kill
    <2>2. Top.who \in Fibers /\ Top.who \in Known
      BY <2>1, ObjsAssumption DEF CallSet, FiberOps, Objs
    <2>3. /\ Call("settle", Top.who, None, Top.res) \in KnownCalls
          /\ Do("bury", Top.who) \in KnownCalls
      BY <2>1, <2>2, KnownDo DEF FiberOps
    <2>4. agenda' \in Seq(KnownCalls)
      BY <1>9, <2>1, <2>3 DEF Kill
    <2> QED BY <1>9, <1>a, <1>b, <2>4, KnownStep DEF Kill
  <1>10. CASE KillDead
    BY <1>10, <1>a, <1>b, EmptyType, KnownStep DEF KillDead
  <1>11. CASE Detach
    <2>1. Top \in CallSet /\ Top.op = "detach" /\ Top.who \in Known \cup {None}
          /\ Rest \in Seq(KnownCalls)
      BY <1>11, KnownTop DEF Detach
    <2>2. Top.who \in Known
      BY <2>1, ObjsAssumption DEF CallSet, FiberOps, Objs
    <2>3. wakers' \in [Objs -> Seq(Known)]
      BY <1>11, <1>a, EmptyType, ExceptType DEF Detach
    <2>4. \A p \in Futures \ Known : pstat'[p] = pstat[p]
      BY <1>11, <1>a, <2>2 DEF Detach, Objs
    <2> QED BY <1>11, <1>a, <1>b, <2>1, <2>3, <2>4, KnownStep DEF Detach
  <1>12. CASE LoopTail
    <2>1. Top \in CallSet /\ Top.op = "tail" /\ Top.who \in Known \cup {None}
      BY <1>12, KnownTop DEF LoopTail
    <2>a. Top.who \in Known \cap Fibers
      BY <2>1, ObjsAssumption DEF CallSet, FiberOps, Objs
    <2>2. Do("kill", Top.who) \in KnownCalls /\ Do("leave", Top.who) \in KnownCalls
      BY <2>a, KnownDo DEF FiberOps
    <2>3. agenda' \in Seq(KnownCalls)
      BY <1>12, <2>2 DEF LoopTail
    <2> QED BY <1>12, <1>a, <1>b, <2>3, KnownStep DEF LoopTail
  <1> QED BY <1>1, <1>2, <1>3, <1>4, <1>5, <1>6, <1>7, <1>8, <1>9, <1>10, <1>11, <1>12
          DEF Calls

\* The loop fires timers of known futures and executes fibers.
LEMMA LoopKnown ==
  ASSUME TypeOK, KnownInv, Known \subseteq Known', Loop
  PROVE  KnownInv'
  <1> USE DEF fiberVars, promiseVars, schedVars, sweepVars, loopVars
  <1>a. /\ wakers \in [Objs -> Seq(Known)] /\ timers \in Seq(Known)
        /\ agenda \in Seq(KnownCalls)
        /\ runq \in Seq(Fibers) /\ microq \in Seq(Fibers)
    BY DEF TypeOK, KnownInv
  <1>b. UNCHANGED <<fut, wakers, pstat>>
    BY DEF Loop, FireTimer, NextTask, SweepKeep, SweepErase, SweepThrow, SweepDone
  <1>1. CASE FireTimer
    <2>1. Head(timers) \in Known /\ Tail(timers) \in Seq(Known)
      BY <1>a, <1>1, HeadTailProperties DEF FireTimer
    <2>2. \A r \in Results : Call("settle", Head(timers), None, r) \in KnownCalls
      BY <2>1, KnownDo
    <2>3. agenda' \in Seq(KnownCalls)
      BY <1>1, <2>2 DEF FireTimer, Results
    <2> QED BY <1>1, <1>a, <1>b, <2>1, <2>3, KnownStep DEF FireTimer
  <1>2. CASE NextTask
    <2>1. ASSUME NEW f \in Fibers, RunOrSkip(f)
          PROVE  agenda' \in Seq(KnownCalls)
      <3>1. CASE fstate[f] = "Running"
        <4>1. f \in Known \cap Fibers
          BY <3>1 DEF Known, Allocated, Objs
        <4>2. Do("kill", f) \in KnownCalls /\ Do("leave", f) \in KnownCalls
          BY <4>1, KnownDo DEF FiberOps
        <4>3. agenda' \in {<<>>, <<Do("kill", f), Do("leave", f)>>}
          BY <2>1, <3>1 DEF RunOrSkip, Execute
        <4> QED BY <4>2, <4>3, EmptyType, PairType
      <3>2. CASE fstate[f] # "Running"
        BY <1>a, <2>1, <3>2 DEF RunOrSkip, Skip
      <3> QED BY <3>1, <3>2
    <2>2. microq # <<>> => Last(microq) \in Fibers
      BY <1>a DEF Last
    <2>3. runq # <<>> => Head(runq) \in Fibers
      BY <1>a
    <2>4. agenda' \in Seq(KnownCalls)
      <3>1. CASE Skip
        BY <1>a, <3>1 DEF Skip
      <3>2. CASE microq # <<>> /\ RunOrSkip(Last(microq))
        BY <2>1, <2>2, <3>2
      <3>3. CASE runq # <<>> /\ RunOrSkip(Head(runq))
        BY <2>1, <2>3, <3>3
      <3> QED BY <1>2, <3>1, <3>2, <3>3 DEF NextTask
    <2> QED BY <1>2, <1>a, <1>b, <2>4, KnownStep DEF NextTask
  <1>3. CASE SweepKeep \/ SweepErase \/ SweepThrow \/ SweepDone
    BY <1>3, <1>a, <1>b, KnownStep DEF SweepKeep, SweepErase, SweepThrow, SweepDone
  <1> QED BY <1>1, <1>2, <1>3 DEF Loop

\* A script can name only what it has: CreateFuture makes one more object known.
LEMMA CreateKnown ==
  ASSUME TypeOK, KnownInv, NEW f \in Fibers, NEW p \in Futures, NEW kind \in FutureKinds,
         NEW items \in Items(kind), CreateFuture(f, p, kind, items)
  PROVE  KnownInv'
  <1>1. PICK n \in Arity(kind) : items \in [1..n -> Objs \cup {None}]
    BY DEF Items
  <1>2. n \in Nat /\ items \in Seq(Objs \cup {None}) /\ DOMAIN items = 1..n
    BY <1>1, BoundsAssumption DEF Arity
  <1>3. /\ fut' = [fut EXCEPT ![p] = [kind |-> kind, of |-> items]]
        /\ UNCHANGED <<wakers, timers, agenda>>
        /\ \A q \in Futures : q # p => pstat'[q] = pstat[q]
    <2>1. pstat' = pstat \/ pstat' = [pstat EXCEPT ![p] = "Resolved"]
      BY DEF CreateFuture
    <2>2. pstat \in [Objs -> {"New", "Pending", "Resolved", "Rejected"}]
      BY DEF TypeOK
    <2> QED BY <2>1, <2>2 DEF CreateFuture, schedVars, Objs
  <1>4. fut \in [Futures -> [kind : Kinds \cup {"none"}, of : Seq(Objs \cup {None})]]
    BY DEF TypeOK
  <1>5. kind # "none"
    BY ScriptAssumption DEF Kinds
  <1>6. /\ fut'[p].kind = kind /\ fut'[p].of = items
        /\ \A q \in Futures : q # p => fut'[q] = fut[q]
    BY <1>3, <1>4
  <1>7. Known \subseteq Known'
    BY <1>5, <1>6 DEF Known, Allocated, CreateFuture
  <1>8. \A i \in 1..n : items[i] \in Known \cup {None}
    BY <1>1, <1>2 DEF CreateFuture, Known
  <1>9. items \in Seq(Known' \cup {None})
    BY <1>1, <1>2, <1>7, <1>8
  <1>10. KnownCalls \subseteq KnownCalls'
    BY <1>7 DEF KnownCalls
  <1>11. /\ wakers' \in [Objs -> Seq(Known')] /\ timers' \in Seq(Known')
         /\ agenda' \in Seq(KnownCalls')
    BY <1>3, <1>7, <1>10 DEF KnownInv
  <1>12. ASSUME NEW q \in Futures
         PROVE  /\ fut'[q].of \in Seq(Known' \cup {None})
                /\ fut'[q].kind = "none" => pstat'[q] = "New"
    <2>1. CASE q = p
      BY <1>5, <1>6, <1>9, <2>1
    <2>2. CASE q # p
      <3>1. fut[q].of \in Seq(Known \cup {None})
        BY DEF KnownInv
      <3>2. fut'[q].of \in Seq(Known' \cup {None})
        BY <1>6, <1>7, <2>2, <3>1
      <3> QED BY <1>3, <1>6, <2>2, <3>2 DEF KnownInv
    <2> QED BY <2>1, <2>2
  <1> QED BY <1>11, <1>12 DEF KnownInv

\* Instructions concern the executed fiber and what its script can name.
LEMMA InstructionsKnown ==
  ASSUME SchedulingInv, KnownInv, Known \subseteq Known', Instructions
  PROVE  KnownInv'
  <1> USE DEF fiberVars, promiseVars, schedVars, sweepVars, loopVars
  <1>a. /\ wakers \in [Objs -> Seq(Known)] /\ timers \in Seq(Known)
        /\ pstat \in [Objs -> {"New", "Pending", "Resolved", "Rejected"}]
        /\ agenda \in Seq(KnownCalls)
    BY DEF SchedulingInv, TypeOK, KnownInv
  <1> PICK f \in Fibers :
        \/ CallFunction(f) \/ CallBadArguments(f) \/ Throw(f)
        \/ TryBegin(f) \/ TryEnd(f) \/ Return(f) \/ Yield(f)
        \/ \E g \in Fibers : Spawn(f, g) \/ SpawnBadArguments(f, g)
        \/ \E p \in Futures, kind \in FutureKinds :
             \E items \in Items(kind) : CreateFuture(f, p, kind, items)
        \/ \E x \in Objs \cup {None} : Await(f, x)
    BY DEF Instructions
  <1>b. f \in Known /\ f \in Objs
    <2>1. Executing(f)
      BY DEF CallFunction, CallBadArguments, Throw, TryBegin, TryEnd, Return, Yield, Spawn,
             SpawnBadArguments, CreateFuture, Await, Budgeted
    <2> QED BY <2>1, ExecutingFiber DEF Known, Allocated, Objs
  <1>c. /\ \A op \in FiberOps : Do(op, f) \in KnownCalls
        /\ Do("settle", f) \in KnownCalls
    BY <1>b, KnownDo
  <1>1. CASE CallFunction(f) \/ TryBegin(f) \/ TryEnd(f)
    BY <1>1, <1>a, KnownStep DEF CallFunction, TryBegin, TryEnd
  <1>2. CASE CallBadArguments(f) \/ Throw(f) \/ Return(f) \/ Yield(f)
    <2>1. agenda' \in Seq(KnownCalls)
      <3>1. /\ Do("error", f) \in KnownCalls /\ Do("tail", f) \in KnownCalls
            /\ Do("leave", f) \in KnownCalls /\ Do("kill", f) \in KnownCalls
            /\ Do("detach", f) \in KnownCalls
        BY <1>c DEF FiberOps
      <3>2. CASE CallBadArguments(f)
        BY <3>1, <3>2 DEF CallBadArguments
      <3>3. CASE Throw(f)
        BY <3>1, <3>3 DEF Throw
      <3>4. CASE Return(f)
        BY <3>1, <3>4 DEF Return
      <3>5. CASE Yield(f)
        BY <1>c, <3>1, <3>5 DEF Yield
      <3> QED BY <1>2, <3>2, <3>3, <3>4, <3>5
    <2> QED BY <1>2, <1>a, <2>1, KnownStep DEF CallBadArguments, Throw, Return, Yield
  <1>3. ASSUME NEW g \in Fibers, Spawn(f, g) \/ SpawnBadArguments(f, g)
        PROVE  KnownInv'
    <2>1. \A p \in Futures : pstat'[p] = pstat[p]
      BY <1>3, <1>a, ObjsAssumption DEF Spawn, SpawnBadArguments, Objs
    <2> QED BY <1>3, <1>a, <2>1, KnownStep DEF Spawn, SpawnBadArguments
  <1>4. ASSUME NEW p \in Futures, NEW kind \in FutureKinds,
               NEW items \in Items(kind), CreateFuture(f, p, kind, items)
        PROVE  KnownInv'
    BY <1>4, CreateKnown DEF SchedulingInv
  <1>5. ASSUME NEW x \in Objs \cup {None}, Await(f, x)
        PROVE  KnownInv'
    <2>1. x \in Known \cup {None}
      BY <1>5 DEF Await, Known
    <2>2. <<Do("tail", f)>> \in Seq(KnownCalls) /\ <<Do("leave", f)>> \in Seq(KnownCalls)
      BY <1>c DEF FiberOps
    <2>3. AwaitOn(x, f, <<Do("tail", f)>>, <<Do("leave", f)>>)
      BY <1>5 DEF Await
    <2>4. /\ wakers' \in [Objs -> Seq(Known)] /\ timers' \in Seq(Known)
          /\ agenda' \in Seq(KnownCalls)
          /\ \A p \in Futures : p # x => pstat'[p] = pstat[p]
      BY <1>b, <2>1, <2>2, <2>3, AwaitOnKnown DEF SchedulingInv
    <2>5. \A p \in Futures \ Known : pstat'[p] = pstat[p]
      BY <2>1, <2>4, ObjsAssumption DEF Objs
    <2> QED BY <1>5, <2>4, <2>5, KnownStep DEF Await
  <1> QED BY <1>1, <1>2, <1>3, <1>4, <1>5

\* No step makes anybody wait for an object that does not exist yet.
LEMMA KnownNext == SchedulingInv /\ KnownInv /\ [Next]_vars => KnownInv'
  <1> SUFFICES ASSUME SchedulingInv, KnownInv, [Next]_vars PROVE KnownInv'
    OBVIOUS
  <1>0. TypeOK /\ Known \subseteq Known'
    BY KnownGrows DEF SchedulingInv
  <1>1. CASE UNCHANGED vars
    BY <1>1 DEF vars, fiberVars, promiseVars, schedVars, KnownInv, Known, Allocated, KnownCalls
  <1>2. ASSUME NEW f \in Fibers, Evaluate(f)
        PROVE  KnownInv'
    BY <1>0, <1>2, KnownStep DEF Evaluate, promiseVars, KnownInv
  <1> QED BY <1>0, <1>1, <1>2, CallsKnown, LoopKnown, InstructionsKnown DEF Next, Step

(***************************************************************************)
(* Results are final.                                                      *)
(***************************************************************************)

\* Initially nothing is known, nothing awaited and nothing kept.
LEMMA ResultsInit == Init => KnownInv /\ KeptInv
  <1> SUFFICES ASSUME Init PROVE KnownInv /\ KeptInv
    OBVIOUS
  <1>1. /\ wakers = [o \in Objs |-> <<>>] /\ timers = <<>> /\ agenda = <<>>
        /\ fut = [p \in Futures |-> [kind |-> "none", of |-> <<>>]]
        /\ pstat = [o \in Objs |-> "New"]
        /\ fstate = [f \in Fibers |-> "Free"]
        /\ fibres = <<>> /\ kept = <<>> /\ scan = 1
    BY DEF Init
  <1>2. KnownInv
    BY <1>1, EmptyType DEF KnownInv, Objs
  <1>3. KeptInv
    BY <1>1 DEF KeptInv, FibresComplete, DeadIsSettled, SweepInv
  <1> QED BY <1>2, <1>3

\* The fiber that is about to be detached is alive.
LEMMA DetachedIsAlive ==
  ASSUME SchedulingInv, Detach
  PROVE  Top.who \in Fibers /\ fstate[Top.who] # "Dead"
  <1>1. agenda # <<>> /\ Top.op = "detach" /\ agenda \in Seq(CallSet)
    BY DEF Detach, Running, Top, SchedulingInv, TypeOK
  <1>2. 1 \in DOMAIN agenda /\ agenda[1] = Top /\ Top \in CallSet
    BY <1>1 DEF Top
  <1>3. Top.who = cur /\ fstate[cur] # "Dead"
    BY <1>1, <1>2 DEF SchedulingInv, YieldIsCalm
  <1> QED BY <1>1, <1>2, <1>3 DEF CallSet, FiberOps

\* What a step does to a promise that has a result.
LEMMA ResultStep ==
  ASSUME SchedulingInv, KnownInv, [Next]_vars, NEW o \in Objs, HasResult(o)
  PROVE  pstat'[o] = pstat[o] \/ (o \in Fibers /\ fstate[o] # "Dead")
  <1> USE DEF fiberVars, promiseVars, schedVars, sweepVars, loopVars
  <1>a. pstat \in [Objs -> {"New", "Pending", "Resolved", "Rejected"}]
    BY DEF SchedulingInv, TypeOK
  <1>0. CASE pstat' = pstat
    BY <1>0
  <1>1. ASSUME NEW x, NEW by, NEW ready, NEW pending, AwaitOn(x, by, ready, pending)
        PROVE  pstat'[o] = pstat[o]
    BY <1>1, <1>a DEF AwaitOn, HasResult
  <1>2. CASE AwaitCall
    BY <1>1, <1>2 DEF AwaitCall
  <1>3. CASE Settle
    BY <1>a, <1>3 DEF Settle
  <1>4. CASE Detach
    <2>1. Top.who \in Fibers /\ fstate[Top.who] # "Dead"
      BY <1>4, DetachedIsAlive
    <2> QED BY <1>4, <1>a, <2>1 DEF Detach
  <1>5. ASSUME NEW f \in Fibers, NEW g \in Fibers, SpawnBadArguments(f, g)
        PROVE  pstat'[o] = pstat[o] \/ (o \in Fibers /\ fstate[o] # "Dead")
    BY <1>5, <1>a DEF SpawnBadArguments
  <1>6. ASSUME NEW f \in Fibers, NEW p \in Futures, NEW kind \in FutureKinds,
               NEW items \in Items(kind), CreateFuture(f, p, kind, items)
        PROVE  pstat'[o] = pstat[o]
    <2>1. pstat[p] = "New"
      BY <1>6 DEF CreateFuture, KnownInv
    <2> QED BY <1>6, <1>a, <2>1 DEF CreateFuture, HasResult
  <1>7. ASSUME NEW f \in Fibers, NEW x \in Objs \cup {None}, Await(f, x)
        PROVE  pstat'[o] = pstat[o]
    BY <1>1, <1>7 DEF Await
  <1>8. Calls => pstat' = pstat \/ AwaitCall \/ Settle \/ Detach
    BY DEF Calls, DeliverToFiber, DeliverToFuture, Arrived, Woken, Bump, MicroTask,
           ResumeAwaited, RaiseError, Kill, KillDead, Bury, LoopTail, Leave
  <1>9. Loop \/ (\E f \in Fibers : Evaluate(f)) \/ UNCHANGED vars => pstat' = pstat
    BY DEF Loop, FireTimer, NextTask, SweepKeep, SweepErase, SweepThrow, SweepDone,
           Evaluate, vars
  <1>10. Instructions =>
           \/ pstat' = pstat
           \/ \E f, g \in Fibers : SpawnBadArguments(f, g)
           \/ \E f \in Fibers, p \in Futures, kind \in FutureKinds :
                \E items \in Items(kind) : CreateFuture(f, p, kind, items)
           \/ \E f \in Fibers, x \in Objs \cup {None} : Await(f, x)
    BY DEF Instructions, CallFunction, CallBadArguments, Throw, TryBegin, TryEnd,
           Return, Yield, Spawn
  <1> QED BY <1>0, <1>2, <1>3, <1>4, <1>5, <1>6, <1>7, <1>8, <1>9, <1>10 DEF Next, Step

\* A result is written once: of the answer, the error and the timeout that race
\* for a promise the first wins (Promise::Resolve, Reject), whatever scripts do.
THEOREM ResultsAreWrittenOnce == Spec => ResultsAreFinal
  <1>1. SchedulingInv /\ KnownInv /\ [Next]_vars
          => [\A o \in Objs : HasResult(o) =>
                pstat'[o] = pstat[o] \/ (o \in Fibers /\ fstate[o] # "Dead")]_vars
    BY ResultStep
  <1> QED BY ResultsInit, KnownNext, Scheduling, <1>1, PTL DEF Spec, ResultsAreFinal

(***************************************************************************)
(* Errors are kept.                                                        *)
(***************************************************************************)

\* What a step does to a dead fiber that has been told about.
LEMMA ToldStep ==
  ASSUME SchedulingInv, [Next]_vars, NEW f \in Fibers, fstate[f] = "Dead", told[f]
  PROVE  told'[f]
  <1> USE DEF fiberVars, promiseVars, schedVars, sweepVars, loopVars
  <1>a. told \in [Objs -> BOOLEAN] /\ f \in Objs
    BY DEF SchedulingInv, TypeOK, Objs
  <1>1. CASE told' = told
    BY <1>1
  <1>2. CASE Woken
    BY <1>a, <1>2, Zenon DEF Woken
  <1>3. CASE Bump
    BY <1>a, <1>3 DEF Bump
  <1>4. CASE Detach
    <2>1. Top.who # f
      BY <1>4, DetachedIsAlive
    <2> QED BY <1>4, <1>a, <2>1 DEF Detach
  <1>5. Calls => told' = told \/ Woken \/ Bump \/ Detach
    BY DEF Calls, AwaitCall, DeliverToFiber, DeliverToFuture, Arrived, Settle, MicroTask,
           ResumeAwaited, RaiseError, Kill, KillDead, Bury, LoopTail, Leave
  <1>6. Loop \/ (\E g \in Fibers : Evaluate(g)) \/ UNCHANGED vars => told' = told
    BY DEF Loop, FireTimer, NextTask, SweepKeep, SweepErase, SweepThrow, SweepDone,
           Evaluate, vars
  <1>7. Instructions => told' = told
    BY DEF Instructions, CallFunction, CallBadArguments, Throw, TryBegin, TryEnd,
           Return, Yield, Spawn, SpawnBadArguments, CreateFuture, Await
  <1> QED BY <1>1, <1>2, <1>3, <1>4, <1>5, <1>6, <1>7 DEF Next, Step

\* A fiber that may be forgotten stays so.
LEMMA GoneStep ==
  ASSUME SchedulingInv, KnownInv, [Next]_vars, NEW f \in Fibers, Gone(f)
  PROVE  Gone(f)'
  <1>1. fstate[f] = "Dead" /\ HasResult(f) /\ f \in Objs
    BY DEF Gone, Objs
  <1>2. fstate'[f] = "Dead"
    <2>1. CASE UNCHANGED vars
      BY <1>1, <2>1 DEF vars, fiberVars
    <2>2. CASE ~ UNCHANGED vars
      BY <1>1, <2>2, DeadStep
    <2> QED BY <2>1, <2>2
  <1>3. pstat'[f] = pstat[f]
    BY <1>1, ResultStep
  <1>4. told[f] => told'[f]
    BY <1>1, ToldStep
  <1> QED BY <1>1, <1>2, <1>3, <1>4 DEF Gone, HasResult

\* Instructions are executed when no call is in progress.
LEMMA InstructionsExecute == Instructions => phase = "exec" /\ agenda = <<>>
  BY DEF Instructions, CallFunction, CallBadArguments, Throw, TryBegin, TryEnd, Return,
         Yield, Spawn, SpawnBadArguments, CreateFuture, Await, Budgeted, Executing

\* While fibres_ is swept nothing else happens.
LEMMA OnlySweeping ==
  ASSUME SchedulingInv, Next, phase = "sweep"
  PROVE  SweepKeep \/ SweepErase \/ SweepThrow \/ SweepDone
  <1>1. agenda = <<>>
    BY DEF SchedulingInv, AgendaShape
  <1>2. ~Calls
    BY <1>1 DEF Calls, AwaitCall, DeliverToFiber, DeliverToFuture, Arrived, Settle, Woken,
           Bump, MicroTask, ResumeAwaited, RaiseError, Kill, KillDead, Bury, Detach,
           LoopTail, Leave, Running
  <1>3. ~Instructions
    BY InstructionsExecute
  <1> QED BY <1>2, <1>3 DEF Next, Step, Loop, FireTimer, NextTask, Evaluate

\* Otherwise fibres_ only grows.
LEMMA NotSweeping ==
  ASSUME SchedulingInv, [Next]_vars, phase # "sweep"
  PROVE  /\ UNCHANGED <<kept, scan>>
         /\ \/ fibres' = fibres
            \/ \E g \in Fibers : fibres' = Append(fibres, g) /\ phase' # "sweep"
  <1> USE DEF fiberVars, promiseVars, schedVars, sweepVars, loopVars
  <1>1. Calls => UNCHANGED <<kept, scan, fibres>>
    BY DEF Calls, AwaitCall, DeliverToFiber, DeliverToFuture, Arrived, Settle, Woken,
           Bump, MicroTask, ResumeAwaited, RaiseError, Kill, KillDead, Bury, Detach,
           LoopTail, Leave
  <1>2. Loop \/ UNCHANGED vars => UNCHANGED <<kept, scan, fibres>>
    BY DEF Loop, FireTimer, NextTask, SweepKeep, SweepErase, SweepThrow, SweepDone, vars
  <1>3. ASSUME NEW g \in Fibers, Evaluate(g)
        PROVE  UNCHANGED <<kept, scan>> /\ fibres' = Append(fibres, g) /\ phase' # "sweep"
    BY <1>3 DEF Evaluate
  <1>4. Instructions => UNCHANGED <<kept, scan, phase>>
    BY DEF Instructions, CallFunction, CallBadArguments, Throw, TryBegin, TryEnd, Return,
           Yield, Spawn, SpawnBadArguments, CreateFuture, Await
  <1>5. Instructions => fibres' = fibres \/ \E g \in Fibers : fibres' = Append(fibres, g)
    BY DEF Instructions, CallFunction, CallBadArguments, Throw, TryBegin, TryEnd, Return,
           Yield, Spawn, SpawnBadArguments, CreateFuture, Await
  <1> QED BY <1>1, <1>2, <1>3, <1>4, <1>5 DEF Next, Step

\* The elements of a sequence, and of one that grew.
LEMMA ElementsOf ==
  ASSUME NEW S, NEW s \in Seq(S), NEW e
  PROVE  /\ e \in ToSet(s) <=> \E i \in 1..Len(s) : s[i] = e
         /\ e \in S => ToSet(Append(s, e)) = ToSet(s) \cup {e}
  BY AppendSet DEF ToSet

\* What the sweep keeps stays in fibres_ when it is complete and when an error
\* is thrown out of it.
LEMMA SweepingKeeps ==
  ASSUME TypeOK, SweepInv, SweepKeep \/ SweepErase \/ SweepThrow \/ SweepDone,
         NEW f \in Fibers, f \in ToSet(fibres)
  PROVE  f \in ToSet(fibres') \/ Gone(f)
  <1>1. /\ fibres \in Seq(Fibers) /\ kept \in Seq(Fibers) /\ scan \in Nat /\ scan # 0
        /\ Len(kept) < scan
    BY DEF TypeOK, SweepInv
  <1>2. PICK i \in 1..Len(fibres) : fibres[i] = f
    BY <1>1, ElementsOf
  <1>3. i < scan => f \in ToSet(kept) \/ Gone(f)
    BY <1>1, <1>2 DEF SweepInv
  <1>4. CASE SweepKeep \/ SweepErase
    BY <1>4 DEF SweepKeep, SweepErase
  <1>5. CASE SweepThrow
    <2> DEFINE rest == SubSeq(fibres, Len(kept) + 1, Len(fibres))
    <2>1. fibres' = kept \o rest /\ rest \in Seq(Fibers)
      BY <1>1, <1>5, SubSeqType DEF SweepThrow
    <2>2. CASE i <= Len(kept)
      <3>1. CASE f \in ToSet(kept)
        <4>1. PICK j \in 1..Len(kept) : kept[j] = f
          BY <1>1, <3>1, ElementsOf
        <4>2. fibres'[j] = f /\ j \in 1..Len(fibres')
          BY <1>1, <2>1, <4>1, ConcatProperties
        <4> QED BY <2>1, <4>2 DEF ToSet
      <3> QED BY <1>1, <1>3, <2>2, <3>1
    <2>3. CASE i > Len(kept)
      <3> DEFINE k == i - Len(kept)
      <3>1. Len(rest) = Len(fibres) - Len(kept) /\ k \in 1..Len(rest) /\ rest[k] = f
        BY <1>1, <1>2, <2>3, SubSeqProperties
      <3>2. fibres'[Len(kept) + k] = f /\ Len(kept) + k \in 1..Len(fibres')
        BY <1>1, <2>1, <3>1, ConcatProperties
      <3> QED BY <2>1, <3>2 DEF ToSet
    <2> QED BY <1>1, <2>2, <2>3
  <1>6. CASE SweepDone
    BY <1>1, <1>2, <1>3, <1>6 DEF SweepDone
  <1> QED BY <1>4, <1>5, <1>6

\* The sweep keeps its invariant.
LEMMA SweepNext ==
  ASSUME SchedulingInv, KnownInv, KeptInv, [Next]_vars
  PROVE  SweepInv'
  <1>0. /\ fibres \in Seq(Fibers) /\ kept \in Seq(Fibers) /\ scan \in Nat \ {0}
        /\ phase \in {"host", "drain", "exec", "sweep"}
    BY DEF SchedulingInv, TypeOK
  <1>1. CASE phase # "sweep"
    <2>1. kept = <<>> /\ scan = 1 /\ kept' = <<>> /\ scan' = 1
      BY <1>1, NotSweeping DEF KeptInv, SweepInv
    <2>2. \A i \in DOMAIN fibres' : ~(i < scan')
      <3>1. DOMAIN fibres' = 1..Len(fibres')
        BY <1>0, <1>1, NotSweeping
      <3> QED BY <2>1, <3>1
    <2> QED BY <2>1, <2>2 DEF SweepInv
  <1>2. CASE phase = "sweep" /\ UNCHANGED vars
    BY <1>2 DEF vars, fiberVars, promiseVars, sweepVars, loopVars, KeptInv, SweepInv, Gone, HasResult
  <1>3. CASE phase = "sweep" /\ Next
    <2>0. SweepKeep \/ SweepErase \/ SweepThrow \/ SweepDone
      BY <1>3, OnlySweeping
    <2>1. Len(kept) < scan /\ \A i \in 1..Len(fibres) : i < scan => fibres[i] \in ToSet(kept) \/ Gone(fibres[i])
      BY <1>0 DEF KeptInv, SweepInv
    <2>2. ASSUME NEW f \in Fibers, Gone(f)
          PROVE  Gone(f)'
      BY <2>2, GoneStep
    <2>3. CASE SweepKeep
      <3>1. /\ fibres' = fibres /\ kept' = Append(kept, fibres[scan]) /\ scan' = scan + 1
            /\ phase' = "sweep" /\ scan \in 1..Len(fibres)
        BY <1>0, <1>3, <2>3 DEF SweepKeep, loopVars
      <3>2. fibres[scan] \in Fibers /\ ToSet(kept') = ToSet(kept) \cup {fibres[scan]}
        BY <1>0, <3>1, ElementsOf
      <3>3. Len(kept') < scan'
        BY <1>0, <2>1, <3>1, <3>2
      <3>4. ASSUME NEW i \in 1..Len(fibres), i < scan'
            PROVE  fibres[i] \in ToSet(kept') \/ Gone(fibres[i])'
        <4>1. i < scan \/ i = scan
          BY <1>0, <3>1, <3>4
        <4>2. fibres[i] \in Fibers
          BY <1>0
        <4>3. fibres'[i] = fibres[i]
          BY <3>1
        <4> QED BY <2>1, <2>2, <3>2, <4>1, <4>2, <4>3
      <3>5. DOMAIN fibres' = 1..Len(fibres) /\ \A i \in 1..Len(fibres) : fibres'[i] = fibres[i]
        BY <1>0, <3>1
      <3> QED BY <3>1, <3>3, <3>4, <3>5 DEF SweepInv
    <2>4. CASE SweepErase
      <3>1. /\ fibres' = fibres /\ kept' = kept /\ scan' = scan + 1
            /\ phase' = "sweep" /\ scan \in 1..Len(fibres)
        BY <1>0, <1>3, <2>4 DEF SweepErase, loopVars
      <3>2. Gone(fibres[scan])
        <4> DEFINE f == fibres[scan]
        <4>1. /\ f \in Fibers /\ fstate[f] = "Dead"
              /\ ~(Unobserved(f) /\ pstat[f] = "Rejected")
          BY <1>0, <2>4, <3>1 DEF SweepErase
        <4>2. agenda = <<>>
          BY <1>3 DEF SchedulingInv, AgendaShape
        <4>3. HasResult(f)
          BY <4>1, <4>2 DEF KeptInv, DeadIsSettled
        <4> QED BY <4>1, <4>3 DEF Gone, HasResult, Unobserved
      <3>3. ASSUME NEW i \in 1..Len(fibres), i < scan'
            PROVE  fibres[i] \in ToSet(kept') \/ Gone(fibres[i])'
        <4>1. i < scan \/ i = scan
          BY <1>0, <3>1, <3>3
        <4>2. fibres[i] \in Fibers
          BY <1>0
        <4>3. fibres'[i] = fibres[i]
          BY <3>1
        <4> QED BY <2>1, <2>2, <3>1, <3>2, <4>1, <4>2, <4>3
      <3>4. Len(kept') < scan'
        BY <1>0, <2>1, <3>1
      <3>5. DOMAIN fibres' = 1..Len(fibres) /\ \A i \in 1..Len(fibres) : fibres'[i] = fibres[i]
        BY <1>0, <3>1
      <3> QED BY <3>1, <3>3, <3>4, <3>5 DEF SweepInv
    <2>5. CASE SweepThrow \/ SweepDone
      <3>1. kept' = <<>> /\ scan' = 1
        BY <2>5 DEF SweepThrow, SweepDone
      <3>2. fibres' \in Seq(Fibers)
        BY <2>5, SchedulingNext DEF SchedulingInv, TypeOK
      <3>3. \A i \in DOMAIN fibres' : ~(i < scan')
        BY <3>1, <3>2
      <3> QED BY <3>1, <3>3 DEF SweepInv
    <2> QED BY <2>0, <2>3, <2>4, <2>5
  <1> QED BY <1>1, <1>2, <1>3

\* A fiber that appears, appears in fibres_.
LEMMA NewFiber ==
  ASSUME SchedulingInv, KnownInv, [Next]_vars, NEW f \in Fibers,
         fstate[f] = "Free", fstate'[f] # "Free"
  PROVE  f \in ToSet(fibres')
  <1> USE DEF fiberVars, promiseVars, schedVars, sweepVars, loopVars
  <1>a. /\ fstate \in [Fibers -> {"Free", "Running", "Suspended", "Dead"}]
        /\ fibres \in Seq(Fibers)
    BY DEF SchedulingInv, TypeOK
  <1>1. CASE fstate' = fstate
    BY <1>1
  <1>2. CASE MicroTask \/ ResumeAwaited \/ Kill \/ Detach
    <2>1. PICK op \in {"micro", "task", "kill", "detach"} : Running(op)
      BY <1>2 DEF MicroTask, ResumeAwaited, Kill, Detach
    <2>2. Top \in CallSet /\ Top.op = op /\ Top.who \in Known \cup {None}
      BY <2>1, KnownTop
    <2>3. fstate[Top.who] # "Free"
      BY <2>1, <2>2, ObjsAssumption DEF CallSet, FiberOps, Known, Allocated, Objs
    <2> QED BY <1>2, <1>a, <2>3 DEF MicroTask, ResumeAwaited, Kill, Detach
  <1>3. ASSUME NEW g \in Fibers, fibres' = Append(fibres, g),
               \E s : fstate' = [fstate EXCEPT ![g] = s]
        PROVE  f \in ToSet(fibres')
    BY <1>3, <1>a, ElementsOf
  <1>4. (\E g \in Fibers : Evaluate(g)) \/ (\E g, h \in Fibers : Spawn(g, h) \/ SpawnBadArguments(g, h))
          => \E g \in Fibers : /\ fibres' = Append(fibres, g)
                               /\ \E s : fstate' = [fstate EXCEPT ![g] = s]
    BY DEF Evaluate, Spawn, SpawnBadArguments
  <1>5. ASSUME NEW g \in Fibers, NEW x \in Objs \cup {None}, Await(g, x)
        PROVE  f \in ToSet(fibres')
    <2>1. fstate[g] = "Running"
      BY <1>5, ExecutingFiber DEF Await, Budgeted
    <2> QED BY <1>a, <1>5, <2>1 DEF Await
  <1>6. Calls => \/ fstate' = fstate \/ MicroTask \/ ResumeAwaited \/ Kill \/ Detach
    BY DEF Calls, AwaitCall, DeliverToFiber, DeliverToFuture, Arrived, Settle, Woken,
           Bump, RaiseError, KillDead, Bury, LoopTail, Leave
  <1>7. Loop \/ UNCHANGED vars => fstate' = fstate
    BY DEF Loop, FireTimer, NextTask, SweepKeep, SweepErase, SweepThrow, SweepDone, vars
  <1>8. Instructions =>
           \/ fstate' = fstate
           \/ \E g, h \in Fibers : Spawn(g, h) \/ SpawnBadArguments(g, h)
           \/ \E g \in Fibers, x \in Objs \cup {None} : Await(g, x)
    BY DEF Instructions, CallFunction, CallBadArguments, Throw, TryBegin, TryEnd,
           Return, Yield, CreateFuture
  <1> QED BY <1>1, <1>2, <1>3, <1>4, <1>5, <1>6, <1>7, <1>8 DEF Next, Step

\* No fiber leaves fibres_ before it may be forgotten.
LEMMA CompleteNext ==
  ASSUME SchedulingInv, KnownInv, KeptInv, [Next]_vars
  PROVE  FibresComplete'
  <1> SUFFICES ASSUME NEW f \in Fibers, fstate'[f] # "Free"
               PROVE  f \in ToSet(fibres') \/ Gone(f)'
    BY DEF FibresComplete
  <1>1. CASE fstate[f] = "Free"
    BY <1>1, NewFiber
  <1>2. CASE Gone(f)
    BY <1>2, GoneStep
  <1>3. CASE f \in ToSet(fibres)
    <2>1. f \in ToSet(fibres') \/ Gone(f)
      <3>0. fibres \in Seq(Fibers) /\ TypeOK
        BY DEF SchedulingInv, TypeOK
      <3>1. CASE phase # "sweep"
        <4>1. fibres' = fibres \/ \E g \in Fibers : fibres' = Append(fibres, g)
          BY <3>1, NotSweeping
        <4>2. ASSUME NEW g \in Fibers, fibres' = Append(fibres, g)
              PROVE  f \in ToSet(fibres')
          BY <1>3, <3>0, <4>2, ElementsOf
        <4> QED BY <1>3, <4>1, <4>2
      <3>2. CASE UNCHANGED vars
        BY <1>3, <3>2 DEF vars, sweepVars
      <3>3. CASE Next /\ phase = "sweep"
        BY <1>3, <3>0, <3>3, OnlySweeping, SweepingKeeps DEF KeptInv
      <3> QED BY <3>1, <3>2, <3>3
    <2> QED BY <2>1, GoneStep
  <1> QED BY <1>1, <1>2, <1>3 DEF KeptInv, FibresComplete

\* Kill settles the promise next.
LEMMA SettledNext ==
  ASSUME SchedulingInv, KnownInv, KeptInv, [Next]_vars
  PROVE  DeadIsSettled'
  <1> USE DEF fiberVars, promiseVars, schedVars, sweepVars, loopVars
  <1> SUFFICES ASSUME NEW f \in Fibers, fstate'[f] = "Dead", ~HasResult(f)'
               PROVE  agenda' # <<>> /\ Head(agenda').op = "settle" /\ Head(agenda').who = f
    BY DEF DeadIsSettled
  <1>a. /\ fstate \in [Fibers -> {"Free", "Running", "Suspended", "Dead"}]
        /\ pstat \in [Objs -> {"New", "Pending", "Resolved", "Rejected"}]
        /\ agenda \in Seq(CallSet) /\ f \in Objs
    BY DEF SchedulingInv, TypeOK, Objs
  <1>1. CASE UNCHANGED vars
    BY <1>1 DEF vars, KeptInv, DeadIsSettled, HasResult
  <1>2. CASE Next /\ fstate[f] = "Dead"
    <2>1. ~HasResult(f)
      BY <1>2, <1>a, ResultStep DEF HasResult
    <2>2. agenda # <<>> /\ Head(agenda).op = "settle" /\ Head(agenda).who = f
      BY <1>2, <2>1 DEF KeptInv, DeadIsSettled
    <2>3. ~Loop /\ ~Instructions /\ ~\E g \in Fibers : Evaluate(g)
      <3>1. phase \notin {"host", "sweep"}
        BY <2>2 DEF SchedulingInv, AgendaShape
      <3>2. ~Loop /\ ~\E g \in Fibers : Evaluate(g)
        BY <2>2, <3>1 DEF Loop, FireTimer, NextTask, SweepKeep, SweepErase, SweepThrow,
                          SweepDone, Evaluate
      <3>3. ~Instructions
        BY <2>2, InstructionsExecute
      <3> QED BY <3>2, <3>3
    <2>4. Settle
      BY <1>2, <2>2, <2>3 DEF Next, Step, Calls, AwaitCall, DeliverToFiber, DeliverToFuture,
             Arrived, Woken, Bump, MicroTask, ResumeAwaited, RaiseError, Kill, KillDead, Bury,
             Detach, LoopTail, Leave, Running
    <2>5. pstat' = [pstat EXCEPT ![f] = StatusOf(Top.res)]
      BY <2>1, <2>2, <2>4 DEF Settle, Top
    <2> QED BY <1>a, <2>5 DEF HasResult, StatusOf
  <1>3. CASE Next /\ fstate[f] # "Dead"
    <2>1. fstate' # fstate
      BY <1>3
    <2>2. CASE Kill
      <3>1. Top.who = f
        BY <1>a, <1>3, <2>2 DEF Kill
      <3>2. agenda' = <<Call("settle", f, None, Top.res), Do("bury", f)>> \o Rest
        BY <2>2, <3>1 DEF Kill
      <3>3. Rest \in Seq(CallSet)
        BY <2>2, TopType DEF Kill, SchedulingInv
      <3>4. agenda' # <<>> /\ Head(agenda') = Call("settle", f, None, Top.res)
        BY <3>2, <3>3
      <3> QED BY <3>4 DEF Call
    <2>3. ASSUME NEW g \in Fibers, NEW h \in Fibers, SpawnBadArguments(g, h)
          PROVE  FALSE
      <3>1. h = f
        BY <1>a, <1>3, <2>3 DEF SpawnBadArguments
      <3> QED BY <1>a, <2>3, <3>1 DEF SpawnBadArguments, HasResult
    <2>4. ASSUME NEW g, NEW s \in {"Running", "Suspended"}, fstate' = [fstate EXCEPT ![g] = s]
          PROVE  FALSE
      BY <1>a, <1>3, <2>4
    <2>5. Calls => \/ fstate' = fstate \/ Kill
                   \/ \E g, s : s \in {"Running", "Suspended"} /\ fstate' = [fstate EXCEPT ![g] = s]
      BY DEF Calls, AwaitCall, DeliverToFiber, DeliverToFuture, Arrived, Settle, Woken, MicroTask,
             ResumeAwaited, Detach, Bump, RaiseError, KillDead, Bury, LoopTail, Leave
    <2>6. Loop => fstate' = fstate
      BY DEF Loop, FireTimer, NextTask, SweepKeep, SweepErase, SweepThrow, SweepDone
    <2>7. Instructions \/ (\E g \in Fibers : Evaluate(g)) =>
             \/ fstate' = fstate
             \/ \E g, h \in Fibers : SpawnBadArguments(g, h)
             \/ \E g, s : s \in {"Running", "Suspended"} /\ fstate' = [fstate EXCEPT ![g] = s]
      BY DEF Instructions, CallFunction, CallBadArguments, Throw, TryBegin, TryEnd,
             Return, Yield, CreateFuture, Spawn, Await, Evaluate
    <2> QED BY <1>3, <2>1, <2>2, <2>3, <2>4, <2>5, <2>6, <2>7 DEF Next, Step
  <1> QED BY <1>1, <1>2, <1>3

\* An error is not lost: a fiber that died of one and has told nobody stays in
\* fibres_ until Run has thrown its error (VM::SweepDeadFibres).
THEOREM ErrorsAreKept == Spec => []ErrorsKept
  <1>1. SchedulingInv /\ KnownInv /\ KeptInv /\ [Next]_vars => KeptInv'
    BY CompleteNext, SettledNext, SweepNext DEF KeptInv
  <1>2. KeptInv => ErrorsKept
    BY DEF KeptInv, FibresComplete, ErrorsKept, Gone
  <1> QED BY ResultsInit, KnownNext, Scheduling, <1>1, <1>2, PTL DEF Spec

(***************************************************************************)
(* Answers.  Most calls put further calls in their place (Cascades): one   *)
(* lemma each for the calls that remain, the blocked fibers, the stored    *)
(* wakers and the order of the agenda shows what that preserves, and each  *)
(* call is then shown to be one of those.                                  *)
(***************************************************************************)

\* The calls behind the head of the agenda.
Behind == {agenda[i] : i \in 2..Len(agenda)}

\* What the agenda consists of before and after its head puts calls in its place.
LEMMA PushedCalls ==
  ASSUME TypeOK, agenda # <<>>, NEW X \in Seq(CallSet), agenda' = X \o Rest
  PROVE  /\ Entries = {Top} \cup Behind /\ Top = agenda[1] /\ 1 \in DOMAIN agenda
         /\ Entries' = ToSet(X) \cup Behind
         /\ Entries \subseteq CallSet
         /\ ToSet(X) = {X[i] : i \in 1..Len(X)}
  <1>1. agenda \in Seq(CallSet) /\ Len(agenda) \in Nat \ {0} /\ Top = agenda[1]
    BY EmptySeq DEF TypeOK, Top
  <1>2. DOMAIN agenda = 1..Len(agenda) /\ DOMAIN X = 1..Len(X)
    BY <1>1
  <1>3. \A i \in 1..Len(agenda) : i = 1 \/ i \in 2..Len(agenda)
    BY <1>1
  <1>4. Entries = {Top} \cup Behind
    <2>1. Entries = {agenda[i] : i \in 1..Len(agenda)}
      BY <1>2 DEF Entries, ToSet
    <2>2. 1 \in 1..Len(agenda) /\ \A i \in 2..Len(agenda) : i \in 1..Len(agenda)
      BY <1>1
    <2> QED BY <1>1, <1>3, <2>1, <2>2 DEF Behind
  <1>5. DOMAIN agenda' = 1..Len(X \o Tail(agenda))
    BY <1>1, HeadTailProperties, ConcatProperties DEF Rest
  <1>6. /\ Len(X \o Tail(agenda)) = Len(X) + Len(agenda) - 1
        /\ \A j \in 1..Len(X) : agenda'[j] = X[j]
        /\ \A i \in 2..Len(agenda) : agenda'[Len(X) + i - 1] = agenda[i]
        /\ \A j \in 1..Len(X \o Tail(agenda)) :
             \/ j \in 1..Len(X)
             \/ \E i \in 2..Len(agenda) : j = Len(X) + i - 1
    BY <1>1, PushIndices DEF Rest
  <1>7. ToSet(X) = {X[i] : i \in 1..Len(X)}
    BY <1>2 DEF ToSet
  <1>8. Entries' = ToSet(X) \cup Behind
    <2>1. Entries' = {agenda'[j] : j \in 1..Len(X \o Tail(agenda))}
      BY <1>5 DEF Entries, ToSet
    <2>2. \A j \in 1..Len(X) : j \in 1..Len(X \o Tail(agenda))
      BY <1>1, <1>6
    <2>3. \A i \in 2..Len(agenda) : Len(X) + i - 1 \in 1..Len(X \o Tail(agenda))
      BY <1>1, <1>6
    <2>4. ASSUME NEW c \in Entries' PROVE c \in ToSet(X) \cup Behind
      <3>1. PICK j \in 1..Len(X \o Tail(agenda)) : c = agenda'[j]
        BY <2>1, <2>4
      <3>2. CASE j \in 1..Len(X)
        BY <1>6, <1>7, <3>1, <3>2
      <3>3. CASE \E i \in 2..Len(agenda) : j = Len(X) + i - 1
        <4>1. PICK i \in 2..Len(agenda) : j = Len(X) + i - 1
          BY <3>3
        <4> QED BY <1>6, <3>1, <4>1 DEF Behind
      <3> QED BY <1>6, <3>1, <3>2, <3>3
    <2>5. ASSUME NEW c \in ToSet(X) PROVE c \in Entries'
      BY <1>6, <1>7, <2>1, <2>2, <2>5
    <2>6. ASSUME NEW c \in Behind PROVE c \in Entries'
      <3>1. PICK i \in 2..Len(agenda) : c = agenda[i]
        BY <2>6 DEF Behind
      <3> QED BY <1>6, <2>1, <2>3, <3>1
    <2> QED BY <2>4, <2>5, <2>6
  <1>9. Entries \subseteq CallSet
    BY <1>1, <1>2 DEF Entries, ToSet
  <1> QED BY <1>1, <1>2, <1>4, <1>7, <1>8, <1>9

\* A set that spares the blocked fibers goes on doing so: nobody is blocked and no
\* future becomes new while calls are in progress.
LEMMA HarmlessStays ==
  ASSUME NEW x, Harmless(x), UNCHANGED fut,
         \A p \in Futures : pstat'[p] = "New" => pstat[p] = "New",
         \A f \in Fibers : Blocked(f)' => Blocked(f)
  PROVE  Harmless(x)'
  <1>1. PICK S \in SUBSET (Objs \cup {None}) :
          /\ x \in S
          /\ \A p \in S \cap Futures :
               pstat[p] = "New" => \A i \in DOMAIN fut[p].of : fut[p].of[i] \in S
          /\ \A g \in S \cap Fibers : ~Blocked(g)
    BY DEF Harmless
  <1>2. /\ x \in S
        /\ \A p \in S \cap Futures :
             pstat'[p] = "New" => \A i \in DOMAIN fut'[p].of : fut'[p].of[i] \in S
        /\ \A g \in S \cap Fibers : ~Blocked(g)'
    BY <1>1
  <1> QED BY <1>2 DEF Harmless

\* The head of the agenda puts the calls X in its place.  Nobody becomes blocked,
\* no result is lost; a stored waker is gone only if it is called.
Cascades(X) ==
  /\ agenda # <<>> /\ X \in Seq(CallSet) /\ agenda' = X \o Rest /\ UNCHANGED fut
  /\ Top.op # "detach"
  /\ \A f \in Fibers :
       /\ waiting'[f] = IF Top.op = "deliver" /\ Top.who = f THEN None ELSE waiting[f]
       /\ Blocked(f) => fstate'[f] = fstate[f]
       /\ fstate[f] = "Dead" => fstate'[f] = "Dead"
       /\ fstate[f] # "Free" => fstate'[f] # "Free"
  /\ \A o \in Objs : HasResult(o) => HasResult(o)'
  /\ \A o \in Objs : HasResult(o)' => HasResult(o) \/ (Top.op = "settle" /\ Top.who = o)
  /\ \A o \in Objs : Top.op = "settle" /\ Top.who = o => HasResult(o)'
  /\ \A p \in Futures : pstat'[p] = "New" => pstat[p] = "New"
  /\ \A x \in Objs, f \in Fibers :
       f \in ToSet(wakers'[x]) => f \in ToSet(wakers[x]) /\ Top # Do("woken", x)
  /\ \A x \in Objs : \A i, j \in DOMAIN wakers'[x] :
       wakers'[x][i] = wakers'[x][j] /\ wakers'[x][i] \in Fibers => i = j
  /\ \A x \in Objs, f \in Fibers :
       pstat[x] = "Pending" /\ f \in ToSet(wakers[x]) =>
         \/ pstat'[x] = "Pending" /\ f \in ToSet(wakers'[x])
         \/ \E c \in ToSet(X) : c.op = "deliver" /\ c.who = f /\ c.by = x

\* The new calls: an error or a kill comes first; no fiber is delivered to twice.
FollowsUp(X) ==
  \A i \in 1..Len(X) :
    /\ CallOK(X[i])'
    /\ X[i].op \notin {"tail", "detach"}
    /\ X[i].op \in {"error", "kill"} => i = 1
    /\ X[i].op = "error" => fstate'[X[i].who] # "Dead"
    /\ X[i].op = "kill" /\ fstate'[X[i].who] = "Dead" =>
         Len(agenda) = 1 /\ Len(X) = 2 /\ X[2].op = "leave"
    /\ X[i].op = "deliver" /\ X[i].who \in Fibers =>
         /\ X[i].by # None
         /\ \A j \in 1..Len(X) : X[j].op = "deliver" /\ X[j].who = X[i].who => i = j
         /\ \A c \in Behind : ~(c.op = "deliver" /\ c.who = X[i].who)

\* The calls that remain can rely on what they could rely on.
LEMMA BehindOK ==
  ASSUME SchedulingInv, AnswersInv, NEW X, Cascades(X), NEW c \in Behind
  PROVE  CallOK(c)'
  <1>1. TypeOK /\ X \in Seq(CallSet) /\ agenda # <<>> /\ agenda' = X \o Rest
    BY DEF SchedulingInv, Cascades
  <1>2. /\ Entries = {Top} \cup Behind /\ Top = agenda[1] /\ 1 \in DOMAIN agenda
        /\ Entries' = ToSet(X) \cup Behind
        /\ Entries \subseteq CallSet
    BY <1>1, PushedCalls
  <1>3. CallOK(c) /\ c \in CallSet
    BY <1>2 DEF AnswersInv, CallsOK
  <1>4. PICK k \in 2..Len(agenda) : c = agenda[k]
    BY DEF Behind
  <1>5. k \in DOMAIN agenda /\ k # 1
    BY <1>1, <1>4 DEF TypeOK
  <1>6. c.op = "deliver" /\ c.who \in Fibers =>
          c.by # None /\ ~(Top.op = "deliver" /\ Top.who = c.who)
    BY <1>2, <1>4, <1>5 DEF AnswersInv, PlacesOK, PlaceOK
  <1>7. \A f \in Fibers : Blocked(f)' => Blocked(f)
    BY DEF Cascades, Blocked
  <1>8. c.op \in {"micro", "task", "error", "kill", "bury", "detach", "settle"} /\ c.who \in Fibers =>
          ~Blocked(c.who)'
    BY <1>3, <1>7 DEF CallOK
  <1>9. c.op = "settle" /\ c.who \in Fibers =>
          fstate'[c.who] = "Dead" \/ Do("detach", c.who) \in Entries'
    BY <1>2, <1>3 DEF CallOK, Cascades, Do, Call
  <1>10. c.op = "await" => c.by \in Futures /\ Harmless(c.who)'
    BY <1>3, <1>7, HarmlessStays DEF CallOK, Cascades
  <1>11. c.op = "deliver" /\ c.by # None => HasResult(c.by)'
    BY <1>3 DEF CallOK, Cascades, CallSet
  <1>12. c.op = "woken" => HasResult(c.who)'
    BY <1>3 DEF CallOK, Cascades, CallSet
  <1>13. c.op = "deliver" /\ c.who \in Fibers =>
           /\ waiting'[c.who] = c.by
           /\ c.who \in ToSet(wakers'[c.by]) => Do("woken", c.by) \in Entries'
    <2>1. ASSUME c.op = "deliver", c.who \in Fibers PROVE waiting'[c.who] = c.by /\ c.by \in Objs
      BY <1>3, <1>6, <2>1 DEF CallOK, Cascades, CallSet
    <2>2. ASSUME c.op = "deliver", c.who \in Fibers, c.who \in ToSet(wakers'[c.by])
          PROVE  Do("woken", c.by) \in Entries'
      BY <1>2, <1>3, <1>6, <2>1, <2>2 DEF CallOK, Cascades
    <2> QED BY <2>1, <2>2
  <1> QED BY <1>6, <1>8, <1>9, <1>10, <1>11, <1>12, <1>13 DEF CallOK

\* What is blocked after such a step was blocked before.
LEMMA BlockedStays ==
  ASSUME SchedulingInv, AnswersInv, NEW X, Cascades(X)
  PROVE  BlockedInv'
  <1>1. TypeOK /\ X \in Seq(CallSet) /\ agenda # <<>> /\ agenda' = X \o Rest
    BY DEF SchedulingInv, Cascades
  <1>2. /\ Entries = {Top} \cup Behind
        /\ Entries' = ToSet(X) \cup Behind
    BY <1>1, PushedCalls
  <1>3. CallOK(Top)
    BY <1>2 DEF AnswersInv, CallsOK
  <1>4. ASSUME NEW f \in Fibers, Blocked(f)'
        PROVE  /\ fstate'[f] = "Suspended" /\ ~HasResult(f)' /\ Allocated(waiting[f])'
               /\ \/ pstat'[waiting'[f]] = "Pending" /\ f \in ToSet(wakers'[waiting'[f]])
                  \/ \E c \in Delivers(f)' : c.by = waiting'[f]
    <2>1. Blocked(f) /\ waiting'[f] = waiting[f] /\ ~(Top.op = "deliver" /\ Top.who = f)
      BY <1>4 DEF Cascades, Blocked
    <2>2. fstate[f] = "Suspended" /\ ~HasResult(f) /\ Allocated(waiting[f])
      BY <2>1 DEF AnswersInv, BlockedInv
    <2>3. fstate'[f] = "Suspended"
      BY <2>1, <2>2 DEF Cascades
    <2>4. ~HasResult(f)'
      BY <1>3, <2>1, <2>2 DEF Cascades, CallOK, Objs
    <2>5. Allocated(waiting[f])'
      BY <2>1, <2>2 DEF Cascades, Allocated
    <2>6. waiting[f] \in Objs
      BY <2>2 DEF Allocated, Objs
    <2>7. CASE pstat[waiting[f]] = "Pending" /\ f \in ToSet(wakers[waiting[f]])
      <3>0. \A x \in Objs, g \in Fibers :
              pstat[x] = "Pending" /\ g \in ToSet(wakers[x]) =>
                \/ pstat'[x] = "Pending" /\ g \in ToSet(wakers'[x])
                \/ \E c \in ToSet(X) : c.op = "deliver" /\ c.who = g /\ c.by = x
        BY DEF Cascades
      <3>1. \/ pstat'[waiting[f]] = "Pending" /\ f \in ToSet(wakers'[waiting[f]])
            \/ \E c \in ToSet(X) : c.op = "deliver" /\ c.who = f /\ c.by = waiting[f]
        BY <2>6, <2>7, <3>0
      <3> QED BY <1>2, <2>1, <2>3, <2>4, <2>5, <3>1 DEF Delivers
    <2>8. CASE \E c \in Delivers(f) : c.by = waiting[f]
      BY <1>2, <2>1, <2>3, <2>4, <2>5, <2>8 DEF Delivers
    <2> QED BY <2>1, <2>7, <2>8 DEF AnswersInv, BlockedInv
  <1>5. ASSUME NEW f \in Fibers, HasResult(f)'
        PROVE  fstate'[f] = "Dead" \/ Do("detach", f) \in Entries'
    <2>1. fstate[f] = "Dead" \/ Do("detach", f) \in Entries
      BY <1>3, <1>5 DEF Cascades, CallOK, Objs, AnswersInv, BlockedInv
    <2>2. Do("detach", f) # Top
      BY DEF Cascades, Do, Call
    <2> QED BY <1>2, <2>1, <2>2 DEF Cascades
  <1> QED BY <1>4, <1>5 DEF BlockedInv

\* A stored waker goes on belonging to its await.
LEMMA WakersStay ==
  ASSUME SchedulingInv, AnswersInv, NEW X, Cascades(X)
  PROVE  WakersInv'
  <1>1. TypeOK /\ X \in Seq(CallSet) /\ agenda # <<>> /\ agenda' = X \o Rest
    BY DEF SchedulingInv, Cascades
  <1>2. /\ Entries = {Top} \cup Behind
        /\ Entries' = ToSet(X) \cup Behind
    BY <1>1, PushedCalls
  <1>3. CallOK(Top)
    BY <1>2 DEF AnswersInv, CallsOK
  <1>4. ASSUME NEW x \in Objs, NEW f \in Fibers, f \in ToSet(wakers'[x])
        PROVE  waiting'[f] = x \/ Do("woken", x) \in Entries'
    <2>1. f \in ToSet(wakers[x]) /\ Top # Do("woken", x)
      BY <1>4 DEF Cascades
    <2>2. waiting[f] = x \/ Do("woken", x) \in Entries
      BY <2>1 DEF AnswersInv, WakersInv
    <2>3. CASE Do("woken", x) \in Entries
      BY <1>2, <2>1, <2>3
    <2>4. CASE waiting[f] = x /\ Top.op = "deliver" /\ Top.who = f
      <3>1. x # None
        BY ObjsAssumption
      <3>2. Top.by = x
        BY <1>3, <2>4, <3>1 DEF CallOK, Blocked
      <3>3. Do("woken", x) \in Entries
        BY <1>3, <2>1, <2>4, <3>1, <3>2 DEF CallOK
      <3> QED BY <1>2, <2>1, <3>3
    <2>5. CASE waiting[f] = x /\ ~(Top.op = "deliver" /\ Top.who = f)
      BY <2>5 DEF Cascades
    <2> QED BY <2>2, <2>3, <2>4, <2>5
  <1> QED BY <1>4 DEF WakersInv, Cascades

\* The new calls are where they may be.
LEMMA PlacesStay ==
  ASSUME SchedulingInv, AnswersInv, NEW X, Cascades(X), FollowsUp(X)
  PROVE  PlacesOK'
  <1>1. TypeOK /\ X \in Seq(CallSet) /\ agenda # <<>> /\ agenda' = X \o Rest
    BY DEF SchedulingInv, Cascades
  <1>2. /\ Entries = {Top} \cup Behind /\ Top = agenda[1] /\ 1 \in DOMAIN agenda
        /\ Entries' = ToSet(X) \cup Behind
    BY <1>1, PushedCalls
  <1>3. /\ agenda \in Seq(CallSet) /\ Len(agenda) \in Nat \ {0} /\ Len(X) \in Nat
        /\ DOMAIN agenda = 1..Len(agenda)
    BY <1>1, EmptySeq DEF TypeOK
  <1>4. /\ Len(agenda') = Len(X) + Len(agenda) - 1
        /\ \A j \in 1..Len(X) : agenda'[j] = X[j]
        /\ \A i \in 2..Len(agenda) : agenda'[Len(X) + i - 1] = agenda[i]
        /\ \A j \in 1..Len(agenda') :
             \/ j \in 1..Len(X)
             \/ \E i \in 2..Len(agenda) : j = Len(X) + i - 1
    BY <1>1, <1>3, PushIndices DEF Rest
  <1>5. DOMAIN agenda' = 1..Len(agenda')
    BY <1>1, <1>3, HeadTailProperties, ConcatProperties DEF Rest
  <1>6. ASSUME NEW j \in 1..Len(X) PROVE PlaceOK(j)'
    <2>1. agenda'[j] = X[j]
      BY <1>4
    <2>2. ASSUME X[j].op = "deliver", X[j].who \in Fibers, NEW k \in 1..Len(agenda'),
                 agenda'[k].op = "deliver", agenda'[k].who = X[j].who
          PROVE  j = k
      <3>1. CASE k \in 1..Len(X)
        BY <1>4, <2>2, <3>1 DEF FollowsUp
      <3>2. ASSUME NEW i \in 2..Len(agenda), k = Len(X) + i - 1 PROVE FALSE
        <4>1. agenda'[k] = agenda[i] /\ agenda[i] \in Behind
          BY <1>4, <3>2 DEF Behind
        <4>2. \A c \in Behind : ~(c.op = "deliver" /\ c.who = X[j].who)
          BY <2>2 DEF FollowsUp
        <4> QED BY <2>2, <4>1, <4>2
      <3> QED BY <1>4, <3>1, <3>2
    <2>3. ASSUME X[j].op = "kill", fstate'[X[j].who] = "Dead"
          PROVE  Len(agenda') = 2 /\ agenda'[2].op = "leave"
      <3>1. Len(agenda) = 1 /\ Len(X) = 2 /\ X[2].op = "leave"
        BY <2>3 DEF FollowsUp
      <3> QED BY <1>4, <3>1
    <2> QED BY <1>5, <2>1, <2>2, <2>3 DEF FollowsUp, PlaceOK
  <1>7. ASSUME NEW i \in 2..Len(agenda), NEW j, j = Len(X) + i - 1, NEW c, c = agenda[i]
        PROVE  PlaceOK(j)'
    <2>1. agenda'[j] = c /\ i \in DOMAIN agenda /\ i # 1 /\ c \in Behind /\ c \in CallSet
      BY <1>3, <1>4, <1>7 DEF Behind
    <2>2. PlaceOK(i)
      BY <2>1 DEF AnswersInv, PlacesOK
    <2>3. c.op \notin {"error", "kill"}
      BY <1>7, <2>1, <2>2 DEF PlaceOK
    <2>4. ASSUME c.op = "deliver", c.who \in Fibers, NEW k \in 1..Len(agenda'),
                 agenda'[k].op = "deliver", agenda'[k].who = c.who
          PROVE  j = k
      <3>1. CASE k \in 1..Len(X)
        <4>1. X[k].op = "deliver" /\ X[k].who = c.who
          BY <1>4, <2>4, <3>1
        <4>2. \A d \in Behind : ~(d.op = "deliver" /\ d.who = X[k].who)
          BY <2>4, <3>1, <4>1 DEF FollowsUp
        <4> QED BY <2>1, <2>4, <4>1, <4>2
      <3>2. ASSUME NEW h \in 2..Len(agenda), k = Len(X) + h - 1 PROVE j = k
        <4>1. agenda[h].op = "deliver" /\ agenda[h].who = c.who /\ h \in DOMAIN agenda
          BY <1>3, <1>4, <2>4, <3>2
        <4>2. i = h
          BY <1>7, <2>2, <2>4, <4>1 DEF PlaceOK
        <4> QED BY <1>7, <3>2, <4>2
      <3> QED BY <1>4, <3>1, <3>2
    <2>5. c.op = "deliver" /\ c.who \in Fibers => c.by # None
      BY <1>7, <2>1, <2>2 DEF PlaceOK
    <2>6. ASSUME c.op = "detach"
          PROVE  j = Len(agenda') - 1 /\ HasResult(c.who)'
      <3>1. i = Len(agenda) - 1 /\ (HasResult(c.who) \/ Top = Do("settle", c.who))
        BY <1>2, <1>7, <2>2, <2>6 DEF PlaceOK
      <3>2. c.who \in Objs
        BY <2>1, <2>6 DEF CallSet, FiberOps, Objs
      <3>3. \A o \in Objs : HasResult(o) => HasResult(o)'
        BY DEF Cascades
      <3>4. \A o \in Objs : Top.op = "settle" /\ Top.who = o => HasResult(o)'
        BY DEF Cascades
      <3>5. CASE HasResult(c.who)
        BY <1>3, <1>4, <1>7, <3>1, <3>2, <3>3, <3>5
      <3>6. CASE Top = Do("settle", c.who)
        <4>1. Top.op = "settle" /\ Top.who = c.who
          BY <3>6 DEF Do, Call
        <4>2. HasResult(c.who)'
          BY <3>2, <3>4, <4>1
        <4> QED BY <1>3, <1>4, <1>7, <3>1, <4>2
      <3> QED BY <3>1, <3>5, <3>6
    <2>7. ASSUME c.op = "tail", Blocked(c.who)'
          PROVE  \E d \in Delivers(c.who)' : d.by = waiting'[c.who]
      <3>1. c.who \in Fibers
        BY <2>1, <2>7 DEF CallSet, FiberOps
      <3>2. waiting'[c.who] = IF Top.op = "deliver" /\ Top.who = c.who THEN None ELSE waiting[c.who]
        BY <3>1 DEF Cascades
      <3>3. Blocked(c.who) /\ waiting'[c.who] = waiting[c.who]
              /\ ~(Top.op = "deliver" /\ Top.who = c.who)
        BY <2>7, <3>2 DEF Blocked
      <3>4. PICK d \in Delivers(c.who) : d.by = waiting[c.who]
        BY <1>7, <2>2, <2>7, <3>3 DEF PlaceOK
      <3> QED BY <1>2, <3>3, <3>4 DEF Delivers
    <2>8. j \in DOMAIN agenda' /\ DOMAIN agenda' = 1..Len(agenda')
      BY <1>3, <1>4, <1>5, <1>7
    <2> QED BY <2>1, <2>3, <2>4, <2>5, <2>6, <2>7, <2>8 DEF PlaceOK
  <1>8. \A j \in DOMAIN agenda' : PlaceOK(j)'
    BY <1>4, <1>5, <1>6, <1>7
  <1> QED BY <1>8 DEF PlacesOK

\* A call that puts well-founded calls in its place keeps the invariant.
LEMMA CascadeAnswers ==
  ASSUME SchedulingInv, AnswersInv, NEW X, Cascades(X), FollowsUp(X)
  PROVE  AnswersInv'
  <1>1. TypeOK /\ X \in Seq(CallSet) /\ agenda # <<>> /\ agenda' = X \o Rest
    BY DEF SchedulingInv, Cascades
  <1>2. Entries' = ToSet(X) \cup Behind /\ ToSet(X) = {X[i] : i \in 1..Len(X)}
    BY <1>1, PushedCalls
  <1>3. CallsOK'
    BY <1>2, BehindOK DEF FollowsUp, CallsOK
  <1> QED BY <1>3, BlockedStays, WakersStay, PlacesStay DEF AnswersInv

(***************************************************************************)
(* The calls, one by one.                                                  *)
(***************************************************************************)

\* What the call at the head of the agenda may rely on.
LEMMA TopFacts ==
  ASSUME SchedulingInv, AnswersInv, NEW op, Running(op)
  PROVE  /\ TypeOK /\ agenda # <<>> /\ Rest \in Seq(CallSet)
         /\ Top \in CallSet /\ Top.op = op /\ CallOK(Top)
         /\ PlaceOK(1) /\ Top = agenda[1] /\ 1 \in DOMAIN agenda
         /\ <<>> \o Rest = Rest /\ <<>> \in Seq(CallSet)
  <1>1. TypeOK /\ agenda # <<>> /\ Top \in CallSet /\ Top.op = op /\ Rest \in Seq(CallSet)
    BY TopType DEF SchedulingInv, Running
  <1>2. Top = agenda[1] /\ 1 \in DOMAIN agenda /\ Len(agenda) \in Nat
    BY <1>1, EmptySeq DEF TypeOK, Top
  <1>3. Top \in Entries
    BY <1>2 DEF Entries, ToSet
  <1>4. <<>> \o Rest = Rest /\ <<>> \in Seq(CallSet)
    BY <1>1
  <1> QED BY <1>1, <1>2, <1>3, <1>4 DEF AnswersInv, CallsOK, PlacesOK

\* Concatenating two calls and a third.
LEMMA JoinTwo ==
  ASSUME NEW a, NEW b, NEW c
  PROVE  <<a, b>> \o <<c>> = <<a, b, c>>
  <1> DEFINE S == {a, b, c}
  <1>1. <<a, b>> \in Seq(S) /\ <<c>> \in Seq(S) /\ <<a, b, c>> \in Seq(S)
    OBVIOUS
  <1>2. Len(<<a, b>>) = 2 /\ Len(<<c>>) = 1 /\ Len(<<a, b, c>>) = 3
    OBVIOUS
  <1>3. /\ <<a, b>> \o <<c>> \in Seq(S) /\ Len(<<a, b>> \o <<c>>) = 3
        /\ \A i \in 1..3 : (<<a, b>> \o <<c>>)[i] = IF i <= 2 THEN <<a, b>>[i] ELSE <<c>>[i - 2]
    BY <1>1, <1>2, ConcatProperties
  <1>4. \A i \in 1..3 : (<<a, b>> \o <<c>>)[i] = <<a, b, c>>[i]
    <2>1. \A i \in 1..3 : i = 1 \/ i = 2 \/ i = 3
      OBVIOUS
    <2>2. /\ (<<a, b>> \o <<c>>)[1] = a /\ (<<a, b>> \o <<c>>)[2] = b
          /\ (<<a, b>> \o <<c>>)[3] = c
      BY <1>3
    <2> QED BY <2>1, <2>2
  <1> QED BY <1>1, <1>2, <1>3, <1>4, SeqEqual

\* A call that settles, wakes and detaches nobody.
LEMMA QuietCascade ==
  ASSUME SchedulingInv, AnswersInv, NEW X \in Seq(CallSet),
         agenda # <<>>, agenda' = X \o Rest, UNCHANGED <<waiting, pstat, wakers, fut>>,
         Top.op \notin {"settle", "woken", "detach"},
         Top.op = "deliver" => Top.who \notin Fibers,
         \A f \in Fibers :
           /\ Blocked(f) => fstate'[f] = fstate[f]
           /\ fstate[f] = "Dead" => fstate'[f] = "Dead"
           /\ fstate[f] # "Free" => fstate'[f] # "Free"
  PROVE  Cascades(X)
  <1>1. \A o : HasResult(o)' <=> HasResult(o)
    BY DEF HasResult
  <1>2. \A x : Top # Do("woken", x)
    BY DEF Do, Call
  <1> QED BY <1>1, <1>2 DEF Cascades, AnswersInv, WakersInv

\* Nothing, or a single call, follows.
LEMMA FollowedByNone ==
  ASSUME NEW X, X = <<>>
  PROVE  FollowsUp(X)
  BY DEF FollowsUp

\* What replaces a call by one call that relies on nothing later.
LEMMA FollowedByOne ==
  ASSUME NEW a, NEW X, X = <<a>>, CallOK(a)',
         a.op \notin {"tail", "detach", "deliver", "kill", "error"}
  PROVE  FollowsUp(X)
  <1>1. Len(X) = 1 /\ X[1] = a /\ \A i \in 1..1 : i = 1
    OBVIOUS
  <1> QED BY <1>1 DEF FollowsUp

\* The calls that only count, mark or queue.
LEMMA SmallCallsAnswer ==
  ASSUME SchedulingInv, AnswersInv, Bump \/ MicroTask \/ ResumeAwaited \/ Bury
  PROVE  AnswersInv'
  <1> USE DEF fiberVars, promiseVars, schedVars, sweepVars, loopVars
  <1>1. PICK op \in {"bump", "micro", "task", "bury"} : Running(op)
    BY DEF Bump, MicroTask, ResumeAwaited, Bury
  <1>2. /\ TypeOK /\ agenda # <<>> /\ Top.op = op /\ CallOK(Top) /\ Top \in CallSet
        /\ <<>> \o Rest = Rest /\ <<>> \in Seq(CallSet)
    BY <1>1, TopFacts
  <1>3. agenda' = <<>> \o Rest /\ UNCHANGED <<waiting, pstat, wakers, fut>>
    BY <1>2 DEF Bump, MicroTask, ResumeAwaited, Bury
  <1>4. fstate' = fstate \/ (fstate' = [fstate EXCEPT ![Top.who] = "Running"]
                               /\ fstate[Top.who] # "Dead" /\ op \in {"micro", "task"})
    BY <1>2 DEF Bump, MicroTask, ResumeAwaited, Bury, Running, Top
  <1>5. op \in {"micro", "task"} => Top.who \in Fibers /\ ~Blocked(Top.who)
    BY <1>2 DEF CallOK, CallSet, FiberOps
  <1>6. \A f \in Fibers :
          /\ Blocked(f) => fstate'[f] = fstate[f]
          /\ fstate[f] = "Dead" => fstate'[f] = "Dead"
          /\ fstate[f] # "Free" => fstate'[f] # "Free"
    BY <1>2, <1>4, <1>5 DEF TypeOK
  <1>7. Cascades(<<>>)
    BY <1>2, <1>3, <1>6, QuietCascade
  <1> QED BY <1>7, FollowedByNone, CascadeAnswers

\* A gather counts.
LEMMA ArrivedAnswers ==
  ASSUME SchedulingInv, AnswersInv, Arrived
  PROVE  AnswersInv'
  <1> USE DEF fiberVars, promiseVars, schedVars, sweepVars, loopVars
  <1>1. /\ TypeOK /\ agenda # <<>> /\ Top.op = "arrived" /\ Top \in CallSet
        /\ <<>> \o Rest = Rest /\ <<>> \in Seq(CallSet)
    BY TopFacts DEF Arrived
  <1>2. Top.who \in Futures
    BY <1>1 DEF CallSet
  <1>3. UNCHANGED <<waiting, pstat, wakers, fut, fstate>>
    BY DEF Arrived
  <1>4. CASE left[Top.who] # 1
    <2>1. agenda' = <<>> \o Rest
      BY <1>1, <1>4 DEF Arrived
    <2>2. Cascades(<<>>)
      BY <1>1, <1>3, <2>1, QuietCascade
    <2> QED BY <2>2, FollowedByNone, CascadeAnswers
  <1>5. CASE left[Top.who] = 1
    <2>1. PICK a : a = Do("settle", Top.who)
      OBVIOUS
    <2>2. a \in CallSet /\ a.op = "settle" /\ a.who \notin Fibers
      BY <1>2, <2>1, ObjsAssumption
         DEF CallSet, Call, Do, CallOps, FiberOps, Objs, Results
    <2>3. agenda' = <<a>> \o Rest
      BY <1>5, <2>1 DEF Arrived
    <2>4. PICK X : X = <<a>>
      OBVIOUS
    <2>5. X \in Seq(CallSet)
      BY <2>2, <2>4
    <2>6. CallOK(a)'
      BY <2>2 DEF CallOK
    <2>7. Cascades(X)
      BY <1>1, <1>3, <2>3, <2>4, <2>5, QuietCascade
    <2> QED BY <2>2, <2>4, <2>6, <2>7, FollowedByOne, CascadeAnswers
  <1> QED BY <1>4, <1>5

\* A future is told: it settles, or counts, or both.
LEMMA DeliverToFutureAnswers ==
  ASSUME SchedulingInv, AnswersInv, DeliverToFuture
  PROVE  AnswersInv'
  <1> USE DEF fiberVars, promiseVars, schedVars, sweepVars, loopVars
  <1>1. /\ TypeOK /\ agenda # <<>> /\ Top.op = "deliver" /\ Top \in CallSet
        /\ <<>> \o Rest = Rest /\ <<>> \in Seq(CallSet) /\ Rest \in Seq(CallSet)
    BY TopFacts DEF DeliverToFuture
  <1>2. Top.who \in Futures /\ Top.who \notin Fibers /\ Top.res \in Results
    BY <1>1, ObjsAssumption DEF DeliverToFuture, CallSet
  <1>3. UNCHANGED <<waiting, pstat, wakers, fut, fstate>>
    BY DEF DeliverToFuture
  <1>4. PICK a : a = Call("settle", Top.who, None, Top.res)
    OBVIOUS
  <1>5. PICK b : b = Do("arrived", Top.who)
    OBVIOUS
  <1>6. /\ a \in CallSet /\ a.op = "settle" /\ a.who \notin Fibers
        /\ b \in CallSet /\ b.op = "arrived"
    BY <1>2, <1>4, <1>5, ObjsAssumption
       DEF CallSet, Call, Do, CallOps, FiberOps, Objs, Results
  <1>7. CallOK(a)' /\ CallOK(b)'
    BY <1>6 DEF CallOK
  <1>8. PICK X : X = (IF fut[Top.who].kind # "gather" \/ Top.res = "err" THEN <<a>> ELSE <<>>)
                       \o (IF fut[Top.who].kind = "gather" THEN <<b>> ELSE <<>>)
    OBVIOUS
  <1>9. agenda' = X \o Rest
    BY <1>4, <1>5, <1>8 DEF DeliverToFuture
  <1>10. X = <<a>> \/ X = <<b>> \/ X = <<a, b>>
    <2>1. CASE fut[Top.who].kind # "gather"
      BY <1>8, <2>1
    <2>2. CASE fut[Top.who].kind = "gather" /\ Top.res = "err"
      <3>1. X = <<a>> \o <<b>>
        BY <1>8, <2>2
      <3> QED BY <3>1, JoinOne
    <2>3. CASE fut[Top.who].kind = "gather" /\ Top.res # "err"
      BY <1>8, <2>3
    <2> QED BY <2>1, <2>2, <2>3
  <1>11. X \in Seq(CallSet)
    <2>1. <<a>> \in Seq(CallSet) /\ <<b>> \in Seq(CallSet) /\ <<a, b>> \in Seq(CallSet)
      BY <1>6
    <2> QED BY <1>10, <2>1
  <1>12. Cascades(X)
    BY <1>1, <1>2, <1>3, <1>9, <1>11, QuietCascade
  <1>13. FollowsUp(X)
    <2>1. ASSUME NEW i \in 1..Len(X) PROVE X[i] = a \/ X[i] = b
      <3>1. CASE X = <<a, b>>
        <4>1. Len(X) = 2 /\ X[1] = a /\ X[2] = b /\ \A k \in 1..2 : k = 1 \/ k = 2
          BY <3>1
        <4> QED BY <2>1, <4>1
      <3>2. CASE X = <<a>> \/ X = <<b>>
        <4>1. Len(X) = 1 /\ (X[1] = a \/ X[1] = b) /\ \A k \in 1..1 : k = 1
          BY <3>2
        <4> QED BY <2>1, <4>1
      <3> QED BY <1>10, <3>1, <3>2
    <2> QED BY <1>6, <1>7, <2>1 DEF FollowsUp
  <1> QED BY <1>12, <1>13, CascadeAnswers

\* An error kills its fiber or is caught.
LEMMA RaiseErrorAnswers ==
  ASSUME SchedulingInv, AnswersInv, RaiseError
  PROVE  AnswersInv'
  <1> USE DEF fiberVars, promiseVars, schedVars, sweepVars, loopVars
  <1>1. /\ TypeOK /\ agenda # <<>> /\ Top.op = "error" /\ Top \in CallSet
        /\ CallOK(Top) /\ PlaceOK(1) /\ Top = agenda[1] /\ 1 \in DOMAIN agenda
        /\ <<>> \o Rest = Rest /\ <<>> \in Seq(CallSet) /\ Rest \in Seq(CallSet)
    BY TopFacts DEF RaiseError
  <1>2. Top.who \in Fibers /\ ~Blocked(Top.who) /\ fstate[Top.who] # "Dead"
    BY <1>1 DEF CallSet, FiberOps, CallOK, PlaceOK
  <1>3. UNCHANGED <<waiting, pstat, wakers, fut, fstate>>
    BY DEF RaiseError
  <1>4. PICK a : a = Call("kill", Top.who, None, "err")
    OBVIOUS
  <1>5. a \in CallSet /\ a.op = "kill" /\ a.who = Top.who
    BY <1>2, <1>4 DEF CallSet, Call, CallOps, FiberOps, Objs, Results
  <1>6. CallOK(a)'
    BY <1>2, <1>3, <1>5 DEF CallOK, Blocked
  <1>7. agenda' = <<a>> \o Rest \/ agenda' = Rest
    BY <1>4 DEF RaiseError
  <1>8. CASE agenda' = Rest
    <2>1. Cascades(<<>>)
      BY <1>1, <1>3, <1>8, QuietCascade
    <2> QED BY <2>1, FollowedByNone, CascadeAnswers
  <1>9. CASE agenda' = <<a>> \o Rest
    <2>1. PICK X : X = <<a>>
      OBVIOUS
    <2>2. X \in Seq(CallSet) /\ Len(X) = 1 /\ X[1] = a /\ \A i \in 1..1 : i = 1
      BY <1>5, <2>1
    <2>3. Cascades(X)
      BY <1>1, <1>3, <1>9, <2>1, <2>2, QuietCascade
    <2>4. fstate'[a.who] # "Dead"
      BY <1>2, <1>3, <1>5
    <2>5. FollowsUp(X)
      BY <1>5, <1>6, <2>2, <2>4 DEF FollowsUp
    <2> QED BY <2>3, <2>5, CascadeAnswers
  <1> QED BY <1>7, <1>8, <1>9

\* A killed fiber settles its promise.
LEMMA KillAnswers ==
  ASSUME SchedulingInv, AnswersInv, Kill
  PROVE  AnswersInv'
  <1> USE DEF fiberVars, promiseVars, schedVars, sweepVars, loopVars
  <1>1. /\ TypeOK /\ agenda # <<>> /\ Top.op = "kill" /\ Top \in CallSet
        /\ CallOK(Top) /\ Rest \in Seq(CallSet)
    BY TopFacts DEF Kill
  <1>2. Top.who \in Fibers /\ ~Blocked(Top.who) /\ Top.res \in Results
    BY <1>1 DEF CallSet, FiberOps, CallOK
  <1>3. /\ UNCHANGED <<waiting, pstat, wakers, fut>>
        /\ fstate' = [fstate EXCEPT ![Top.who] = "Dead"]
    BY DEF Kill
  <1>4. PICK a : a = Call("settle", Top.who, None, Top.res)
    OBVIOUS
  <1>5. PICK b : b = Do("bury", Top.who)
    OBVIOUS
  <1>6. /\ a \in CallSet /\ a.op = "settle" /\ a.who = Top.who
        /\ b \in CallSet /\ b.op = "bury" /\ b.who = Top.who
    BY <1>2, <1>4, <1>5 DEF CallSet, Call, Do, CallOps, FiberOps, Objs, Results
  <1>7. fstate'[a.who] = "Dead" /\ ~Blocked(a.who)' /\ ~Blocked(b.who)'
    BY <1>1, <1>2, <1>3, <1>6 DEF TypeOK, Blocked
  <1>8. PICK X : X = <<a, b>>
    OBVIOUS
  <1>9. /\ X \in Seq(CallSet) /\ Len(X) = 2 /\ X[1] = a /\ X[2] = b
        /\ \A i \in 1..2 : i = 1 \/ i = 2
    BY <1>6, <1>8
  <1>10. agenda' = X \o Rest
    BY <1>4, <1>5, <1>8 DEF Kill
  <1>11. Cascades(X)
    <2>1. \A f \in Fibers :
            /\ Blocked(f) => fstate'[f] = fstate[f]
            /\ fstate[f] = "Dead" => fstate'[f] = "Dead"
            /\ fstate[f] # "Free" => fstate'[f] # "Free"
      BY <1>1, <1>2, <1>3 DEF TypeOK
    <2> QED BY <1>1, <1>3, <1>9, <1>10, <2>1, QuietCascade
  <1>12. CallOK(a)' /\ CallOK(b)'
    BY <1>6, <1>7 DEF CallOK
  <1>13. FollowsUp(X)
    <2>1. ASSUME NEW i \in 1..Len(X) PROVE X[i] = a \/ X[i] = b
      BY <1>9
    <2> QED BY <1>6, <1>12, <2>1 DEF FollowsUp
  <1> QED BY <1>11, <1>13, CascadeAnswers

\* A fiber is told: it unwinds if need be and is queued; a fiber it awaited is too.
LEMMA DeliverToFiberAnswers ==
  ASSUME SchedulingInv, AnswersInv, DeliverToFiber
  PROVE  AnswersInv'
  <1> USE DEF fiberVars, promiseVars, schedVars, sweepVars, loopVars
  <1>1. /\ TypeOK /\ agenda # <<>> /\ Top.op = "deliver" /\ Top \in CallSet
        /\ CallOK(Top) /\ PlaceOK(1) /\ Top = agenda[1] /\ 1 \in DOMAIN agenda
        /\ Rest \in Seq(CallSet)
    BY TopFacts DEF DeliverToFiber
  <1>2. PICK f \in Fibers, o \in Objs \cup {None} : f = Top.who /\ o = Top.by
    BY <1>1 DEF DeliverToFiber, CallSet
  <1>3. UNCHANGED <<pstat, wakers, fut, fstate>> /\ waiting' = [waiting EXCEPT ![f] = None]
    BY <1>2 DEF DeliverToFiber
  <1>4. fstate[f] # "Dead"
    BY <1>1, <1>2 DEF CallOK, AnswersInv, BlockedInv, Blocked
  <1>5. ~Blocked(f)' /\ \A g \in Fibers : Blocked(g)' => Blocked(g)
    BY <1>1, <1>3 DEF Blocked, TypeOK
  <1>6. o \in Fibers => ~Blocked(o)'
    <2>1. o # None => HasResult(o)
      BY <1>1, <1>2 DEF CallOK
    <2>2. o \in Fibers => o # None
      BY ObjsAssumption DEF Objs
    <2> QED BY <1>5, <2>1, <2>2 DEF AnswersInv, BlockedInv
  <1>7. PICK a, b, c : a = Do("error", f) /\ b = Do("micro", f) /\ c = Do("task", o)
    OBVIOUS
  <1>8. /\ a.op = "error" /\ a.who = f /\ b.op = "micro" /\ b.who = f /\ c.op = "task" /\ c.who = o
        /\ a \in CallSet /\ b \in CallSet /\ (o \in Fibers => c \in CallSet)
    BY <1>7, DoType DEF Do, Call, FiberOps
  <1>9. CallOK(a)' /\ CallOK(b)' /\ (o \in Fibers => CallOK(c)')
    BY <1>5, <1>6, <1>8 DEF CallOK
  <1>10. PICK X : X = (IF Top.res = "err" THEN <<a>> ELSE <<>>) \o <<b>>
                        \o (IF o \in Fibers THEN <<c>> ELSE <<>>)
    OBVIOUS
  <1>11. agenda' = X \o Rest
    BY <1>2, <1>7, <1>10 DEF DeliverToFiber
  <1>12. /\ X \in Seq(CallSet)
         /\ \A i \in 1..Len(X) : (X[i] = a /\ i = 1) \/ X[i] = b \/ (X[i] = c /\ o \in Fibers)
    <2>1. PICK A : A = IF Top.res = "err" THEN <<a>> ELSE <<>>
      OBVIOUS
    <2>2. PICK B : B = IF o \in Fibers THEN <<c>> ELSE <<>>
      OBVIOUS
    <2>3. /\ A \in Seq(CallSet) /\ Len(A) \in {0, 1} /\ \A i \in 1..Len(A) : A[i] = a /\ i = 1
      <3>1. CASE A = <<a>>
        <4>1. Len(A) = 1 /\ A[1] = a /\ \A i \in 1..1 : i = 1
          BY <3>1
        <4> QED BY <1>8, <3>1, <4>1
      <3>2. CASE A = <<>>
        BY <3>2
      <3> QED BY <2>1, <3>1, <3>2
    <2>4. /\ B \in Seq(CallSet) /\ \A i \in 1..Len(B) : B[i] = c /\ o \in Fibers
      <3>1. CASE o \in Fibers
        <4>1. B = <<c>> /\ Len(B) = 1 /\ B[1] = c /\ \A i \in 1..1 : i = 1
          BY <2>2, <3>1
        <4> QED BY <1>8, <3>1, <4>1
      <3>2. CASE o \notin Fibers
        BY <2>2, <3>2
      <3> QED BY <3>1, <3>2
    <2>5. <<b>> \in Seq(CallSet) /\ Len(<<b>>) = 1 /\ \A i \in 1..1 : <<b>>[i] = b
      BY <1>8
    <2>6. X = (A \o <<b>>) \o B
      BY <1>10, <2>1, <2>2
    <2>7. PICK AB : AB = A \o <<b>>
      OBVIOUS
    <2>8. /\ AB \in Seq(CallSet) /\ \A i \in 1..Len(AB) : (AB[i] = a /\ i = 1) \/ AB[i] = b
      <3>1. /\ AB \in Seq(CallSet) /\ Len(AB) = Len(A) + 1
            /\ \A i \in 1..Len(AB) : AB[i] = IF i <= Len(A) THEN A[i] ELSE <<b>>[i - Len(A)]
        BY <2>3, <2>5, <2>7, ConcatProperties
      <3>2. ASSUME NEW i \in 1..Len(AB) PROVE (AB[i] = a /\ i = 1) \/ AB[i] = b
        <4>1. CASE i <= Len(A)
          BY <2>3, <3>1, <4>1
        <4>2. CASE ~(i <= Len(A))
          <5>1. i - Len(A) \in 1..1
            BY <2>3, <3>1, <4>2
          <5> QED BY <2>5, <3>1, <4>2, <5>1
        <4> QED BY <4>1, <4>2
      <3> QED BY <3>1, <3>2
    <2>9. /\ X \in Seq(CallSet) /\ Len(X) = Len(AB) + Len(B)
          /\ \A i \in 1..Len(X) : X[i] = IF i <= Len(AB) THEN AB[i] ELSE B[i - Len(AB)]
      BY <2>4, <2>6, <2>7, <2>8, ConcatProperties
    <2>10. ASSUME NEW i \in 1..Len(X)
           PROVE  (X[i] = a /\ i = 1) \/ X[i] = b \/ (X[i] = c /\ o \in Fibers)
      <3>1. CASE i <= Len(AB)
        <4>1. i \in 1..Len(AB)
          BY <2>8, <2>9, <3>1
        <4>2. X[i] = AB[i]
          BY <2>9, <3>1
        <4>3. (AB[i] = a /\ i = 1) \/ AB[i] = b
          BY <2>8, <4>1
        <4> QED BY <4>2, <4>3
      <3>2. CASE ~(i <= Len(AB))
        <4>1. i - Len(AB) \in 1..Len(B)
          BY <2>4, <2>8, <2>9, <3>2
        <4> QED BY <2>4, <2>9, <3>2, <4>1
      <3> QED BY <3>1, <3>2
    <2> QED BY <2>9, <2>10
  <1>13. Cascades(X)
    <2>1. \A g \in Fibers : waiting'[g] = IF Top.op = "deliver" /\ Top.who = g THEN None ELSE waiting[g]
      BY <1>1, <1>2, <1>3 DEF TypeOK
    <2>2. \A x : Top # Do("woken", x)
      BY <1>1 DEF Do, Call
    <2>3. \A x : HasResult(x)' <=> HasResult(x)
      BY <1>3 DEF HasResult
    <2> QED BY <1>1, <1>3, <1>11, <1>12, <2>1, <2>2, <2>3 DEF Cascades, AnswersInv, WakersInv
  <1>14. FollowsUp(X)
    <2>1. fstate'[a.who] # "Dead"
      BY <1>3, <1>4, <1>8
    <2> QED BY <1>8, <1>9, <1>12, <2>1 DEF FollowsUp
  <1> QED BY <1>13, <1>14, CascadeAnswers

\* A promise that has its result wakes everybody.
LEMMA SettleAnswers ==
  ASSUME SchedulingInv, AnswersInv, Settle
  PROVE  AnswersInv'
  <1> USE DEF fiberVars, promiseVars, schedVars, sweepVars, loopVars
  <1>1. /\ TypeOK /\ agenda # <<>> /\ Top.op = "settle" /\ Top \in CallSet
        /\ CallOK(Top) /\ <<>> \o Rest = Rest /\ <<>> \in Seq(CallSet)
    BY TopFacts DEF Settle
  <1>2. PICK o \in Objs, r \in Results : o = Top.who /\ r = Top.res
    BY <1>1 DEF CallSet
  <1>3. UNCHANGED <<waiting, wakers, fut, fstate>>
    BY DEF Settle
  <1>4. \A x : Top # Do("woken", x)
    BY <1>1 DEF Do, Call
  <1>5. CASE HasResult(o)
    <2>1. UNCHANGED pstat /\ agenda' = <<>> \o Rest
      BY <1>1, <1>2, <1>5 DEF Settle
    <2>2. \A x : HasResult(x)' <=> HasResult(x)
      BY <2>1 DEF HasResult
    <2>3. Cascades(<<>>)
      BY <1>1, <1>2, <1>3, <1>4, <1>5, <2>1, <2>2 DEF Cascades, AnswersInv, WakersInv
    <2> QED BY <2>3, FollowedByNone, CascadeAnswers
  <1>6. CASE ~HasResult(o)
    <2>1. PICK X : X = WakeAll(o, r)
      OBVIOUS
    <2>2. X \in Seq(CallSet)
      BY <1>1, <2>1, WakeAllType
    <2>3. pstat' = [pstat EXCEPT ![o] = StatusOf(r)] /\ agenda' = X \o Rest
      BY <1>2, <1>6, <2>1 DEF Settle
    <2>4. PICK n \in Nat : n = Len(wakers[o])
      BY <1>1 DEF TypeOK
    <2>5. /\ Len(X) = n + 1 /\ X[n + 1] = Do("woken", o)
          /\ \A i \in 1..n : X[i] = Call("deliver", wakers[o][i], o, r)
          /\ wakers[o] \in Seq(Objs) /\ DOMAIN wakers[o] = 1..n
      <3>1. PICK D : D = [i \in 1..n |-> Call("deliver", wakers[o][i], o, r)]
        OBVIOUS
      <3>2. wakers[o] \in Seq(Objs) /\ DOMAIN wakers[o] = 1..n
        BY <1>1, <2>4 DEF TypeOK
      <3>3. \A i \in 1..n : Call("deliver", wakers[o][i], o, r) \in CallSet
        BY <1>1, <3>2 DEF CallSet, Call, CallOps, FiberOps
      <3>4. D \in Seq(CallSet) /\ Len(D) = n
        BY <3>1, <3>3, IsASeq
      <3>5. X = D \o <<Do("woken", o)>>
        BY <2>1, <2>4, <3>1 DEF WakeAll
      <3>6. <<Do("woken", o)>> \in Seq({Do("woken", o)} \cup CallSet) /\ D \in Seq({Do("woken", o)} \cup CallSet)
            /\ Len(<<Do("woken", o)>>) = 1 /\ <<Do("woken", o)>>[1] = Do("woken", o)
        BY <3>4
      <3>7. /\ Len(X) = n + 1
            /\ \A i \in 1..Len(X) : X[i] = IF i <= Len(D) THEN D[i] ELSE <<Do("woken", o)>>[i - Len(D)]
        BY <3>4, <3>5, <3>6, ConcatProperties
      <3>8. X[n + 1] = Do("woken", o)
        BY <3>4, <3>6, <3>7
      <3>9. \A i \in 1..n : X[i] = Call("deliver", wakers[o][i], o, r)
        BY <3>1, <3>4, <3>7
      <3> QED BY <3>2, <3>7, <3>8, <3>9
    <2>0. ASSUME NEW i \in 1..n
          PROVE  X[i].op = "deliver" /\ X[i].who = wakers[o][i] /\ X[i].by = o
      <3>1. X[i] = Call("deliver", wakers[o][i], o, r)
        BY <2>5
      <3> QED BY <3>1 DEF Call
    <2>6. \A x \in Objs : HasResult(x)' <=> HasResult(x) \/ x = o
      BY <1>1, <2>3 DEF HasResult, StatusOf, TypeOK
    <2>7. Do("woken", o) \in ToSet(X)
      BY <2>2, <2>5 DEF ToSet
    <2>8. Cascades(X)
      <3>1. ASSUME NEW x \in Objs, NEW f \in Fibers, pstat[x] = "Pending", f \in ToSet(wakers[x])
            PROVE  \/ pstat'[x] = "Pending" /\ f \in ToSet(wakers'[x])
                   \/ \E c \in ToSet(X) : c.op = "deliver" /\ c.who = f /\ c.by = x
        <4>1. CASE x # o
          BY <1>1, <1>3, <2>3, <3>1, <4>1 DEF TypeOK
        <4>2. CASE x = o
          <5>1. PICK i \in 1..n : wakers[o][i] = f
            BY <2>5, <3>1, <4>2 DEF ToSet
          <5>2. X[i] \in ToSet(X)
            BY <2>2, <2>4, <2>5, <5>1 DEF ToSet
          <5> QED BY <2>0, <4>2, <5>1, <5>2
        <4> QED BY <4>1, <4>2
      <3>2. \A p \in Futures : pstat'[p] = "New" => pstat[p] = "New"
        BY <1>1, <2>3 DEF TypeOK, StatusOf
      <3> QED BY <1>1, <1>2, <1>3, <1>4, <2>2, <2>3, <2>6, <3>1, <3>2
              DEF Cascades, AnswersInv, WakersInv
    <2>9. Entries = {Top} \cup Behind /\ Entries' = ToSet(X) \cup Behind
      BY <1>1, <2>2, <2>3, PushedCalls
    <2>10. Do("woken", o) \notin Entries
      <3>1. Do("woken", o).op = "woken" /\ Do("woken", o).who = o
        BY DEF Do, Call
      <3> QED BY <1>6, <3>1 DEF AnswersInv, CallsOK, CallOK
    <2>11. ASSUME NEW i \in 1..n, wakers[o][i] \in Fibers
           PROVE  /\ waiting[wakers[o][i]] = o
                  /\ \A c \in Behind : ~(c.op = "deliver" /\ c.who = wakers[o][i])
      <3>1. PICK f \in Fibers : f = wakers[o][i]
        BY <2>11
      <3>2. f \in ToSet(wakers[o])
        BY <2>5, <3>1 DEF ToSet
      <3>3. waiting[f] = o
        BY <2>10, <3>2 DEF AnswersInv, WakersInv
      <3>4. ASSUME NEW c \in Behind, c.op = "deliver", c.who = f PROVE FALSE
        <4>1. CallOK(c)
          BY <2>9 DEF AnswersInv, CallsOK
        <4>2. PICK k \in 2..Len(agenda) : c = agenda[k]
          BY DEF Behind
        <4>3. k \in DOMAIN agenda /\ k # 1
          BY <1>1, <4>2 DEF TypeOK
        <4>4. c.by # None
          BY <3>4, <4>2, <4>3 DEF AnswersInv, PlacesOK, PlaceOK
        <4>5. waiting[f] = c.by /\ HasResult(c.by)
          BY <3>4, <4>1, <4>4 DEF CallOK
        <4> QED BY <1>6, <3>3, <4>5
      <3> QED BY <3>1, <3>3, <3>4
    <2>12. o # None
      BY ObjsAssumption
    <2>13. ASSUME NEW i \in 1..n PROVE CallOK(X[i])'
      <3>1. X[i].op = "deliver" /\ X[i].who = wakers[o][i] /\ X[i].by = o
        BY <2>0
      <3>2. HasResult(X[i].by)'
        BY <2>6, <3>1
      <3>3. X[i].who \in Fibers => waiting'[X[i].who] = X[i].by
        BY <1>3, <2>11, <3>1
      <3>4. Do("woken", X[i].by) \in Entries'
        BY <2>7, <2>9, <3>1
      <3> QED BY <2>12, <3>1, <3>2, <3>3, <3>4 DEF CallOK
    <2>14. CallOK(X[n + 1])'
      <3>1. X[n + 1].op = "woken" /\ X[n + 1].who = o
        BY <2>5 DEF Do, Call
      <3>2. HasResult(X[n + 1].who)'
        BY <2>6, <3>1
      <3> QED BY <3>1, <3>2 DEF CallOK
    <2>15. FollowsUp(X)
      <3>1. \A i \in 1..Len(X) : i \in 1..n \/ i = n + 1
        BY <2>4, <2>5
      <3>2. \A i \in 1..n : X[i].op = "deliver" /\ X[i].who = wakers[o][i] /\ X[i].by = o
        BY <2>0
      <3>3. X[n + 1].op = "woken"
        BY <2>5 DEF Do, Call
      <3>4. \A i, j \in 1..n : wakers[o][i] = wakers[o][j] /\ wakers[o][i] \in Fibers => i = j
        BY <2>5 DEF AnswersInv, WakersInv
      <3>5. \A i \in 1..Len(X) : X[i].op = "deliver" => i \in 1..n
        BY <3>1, <3>3
      <3>6. \A i \in 1..Len(X) : CallOK(X[i])'
        BY <2>13, <2>14, <3>1
      <3>7. ASSUME NEW i \in 1..Len(X), X[i].op = "deliver", X[i].who \in Fibers
            PROVE  /\ X[i].by # None
                   /\ \A j \in 1..Len(X) : X[j].op = "deliver" /\ X[j].who = X[i].who => i = j
                   /\ \A c \in Behind : ~(c.op = "deliver" /\ c.who = X[i].who)
        BY <2>11, <2>12, <3>2, <3>4, <3>5, <3>7
      <3>8. \A i \in 1..Len(X) : X[i].op \in {"deliver", "woken"}
        BY <3>1, <3>2, <3>3
      <3> QED BY <3>6, <3>7, <3>8 DEF FollowsUp
    <2> QED BY <2>8, <2>15, CascadeAnswers
  <1> QED BY <1>5, <1>6

\* The wakers that have been called are forgotten.
LEMMA WokenAnswers ==
  ASSUME SchedulingInv, AnswersInv, Woken
  PROVE  AnswersInv'
  <1> USE DEF fiberVars, promiseVars, schedVars, sweepVars, loopVars
  <1>1. /\ TypeOK /\ agenda # <<>> /\ Top.op = "woken" /\ Top \in CallSet
        /\ CallOK(Top) /\ <<>> \o Rest = Rest /\ <<>> \in Seq(CallSet)
    BY TopFacts DEF Woken
  <1>2. PICK o \in Objs : o = Top.who
    BY <1>1 DEF CallSet
  <1>3. UNCHANGED <<waiting, pstat, fut, fstate>> /\ agenda' = <<>> \o Rest
    BY <1>1 DEF Woken
  <1>4. HasResult(o) /\ pstat[o] # "Pending"
    BY <1>1, <1>2 DEF CallOK, HasResult
  <1>5. /\ \A x : HasResult(x)' <=> HasResult(x)
        /\ \A x : Top = Do("woken", x) => x = o
    BY <1>2, <1>3 DEF HasResult, Do, Call
  <1>6. wakers'[o] = <<>> /\ \A x \in Objs : x # o => wakers'[x] = wakers[x]
    BY <1>1, <1>2 DEF Woken, TypeOK
  <1>7. ToSet(wakers'[o]) = {}
    BY <1>6 DEF ToSet
  <1>8. Cascades(<<>>)
    BY <1>1, <1>3, <1>4, <1>5, <1>6, <1>7 DEF Cascades, AnswersInv, WakersInv
  <1> QED BY <1>8, FollowedByNone, CascadeAnswers

\* Killing a dead fiber throws; nobody loses an answer with the rest of the calls.
LEMMA KillDeadAnswers ==
  ASSUME SchedulingInv, AnswersInv, KillDead
  PROVE  AnswersInv'
  <1> USE DEF fiberVars, promiseVars, schedVars, sweepVars, loopVars
  <1>1. /\ TypeOK /\ agenda # <<>> /\ Top.op = "kill" /\ Top \in CallSet
        /\ PlaceOK(1) /\ Top = agenda[1] /\ 1 \in DOMAIN agenda
    BY TopFacts DEF KillDead
  <1>2. Len(agenda) = 2 /\ agenda[2].op = "leave"
    BY <1>1 DEF KillDead, PlaceOK
  <1>3. \A c \in Entries : c.op \in {"kill", "leave"}
    <2>1. DOMAIN agenda = 1..2 /\ \A i \in 1..2 : i = 1 \/ i = 2
      BY <1>1, <1>2 DEF TypeOK
    <2> QED BY <1>1, <1>2, <2>1 DEF Entries, ToSet
  <1>4. agenda' = <<>> /\ UNCHANGED <<fstate, waiting, pstat, wakers, fut>>
    BY DEF KillDead
  <1>5. Entries' = {} /\ DOMAIN agenda' = {}
    BY <1>4 DEF Entries, ToSet
  <1>6. \A f : Delivers(f) = {}
    BY <1>3 DEF Delivers
  <1>7. \A o : Do("detach", o) \notin Entries /\ Do("woken", o) \notin Entries
    BY <1>3 DEF Do, Call
  <1>8. BlockedInv'
    BY <1>4, <1>6, <1>7 DEF AnswersInv, BlockedInv, Blocked, HasResult, Allocated
  <1>9. WakersInv'
    BY <1>4, <1>7 DEF AnswersInv, WakersInv
  <1> QED BY <1>5, <1>8, <1>9 DEF AnswersInv, CallsOK, PlacesOK

\* The promise a Yield replaces has its result: nobody waits for it any more.
LEMMA DetachAnswers ==
  ASSUME SchedulingInv, AnswersInv, Detach
  PROVE  AnswersInv'
  <1> USE DEF fiberVars, promiseVars, schedVars, sweepVars, loopVars
  <1>1. /\ TypeOK /\ agenda # <<>> /\ Top.op = "detach" /\ Top \in CallSet
        /\ PlaceOK(1) /\ Top = agenda[1] /\ 1 \in DOMAIN agenda /\ Rest \in Seq(CallSet)
    BY TopFacts DEF Detach
  <1>2. PICK f \in Fibers : f = Top.who
    BY <1>1 DEF CallSet, FiberOps
  <1>3. HasResult(f) /\ Len(agenda) = 2
    <2>1. Top # Do("settle", Top.who)
      BY <1>1 DEF Do, Call
    <2> QED BY <1>1, <1>2, <2>1 DEF PlaceOK, TypeOK
  <1>4. agenda[2].op \in Control
    <2>1. phase = "exec"
      BY <1>1 DEF SchedulingInv, AgendaShape, TypeOK
    <2> QED BY <1>1, <1>3, <2>1 DEF SchedulingInv, AgendaShape, Control, Do, Call
  <1>5. PICK l : l = agenda[2]
    OBVIOUS
  <1>6. Entries = {Top, l} /\ Entries' = {l} /\ Len(agenda') = 1 /\ agenda'[1] = l
        /\ DOMAIN agenda' = {1}
    <2>1. DOMAIN agenda = 1..2 /\ \A i \in 1..2 : i = 1 \/ i = 2
      BY <1>1, <1>3 DEF TypeOK
    <2>2. Len(Rest) = 1 /\ Rest[1] = l /\ DOMAIN Rest = 1..1 /\ \A i \in 1..1 : i = 1
      <3>1. agenda \in Seq(CallSet) /\ agenda # <<>>
        BY <1>1 DEF TypeOK
      <3>2. Len(Tail(agenda)) = Len(agenda) - 1 /\ Tail(agenda)[1] = agenda[2]
        <4>1. /\ Len(Tail(agenda)) = Len(agenda) - 1
              /\ \A i \in 2..Len(agenda) : Tail(agenda)[i - 1] = agenda[i]
          BY <3>1, HeadTailProperties
        <4>2. 2 \in 2..Len(agenda) /\ 2 - 1 = 1
          BY <1>3
        <4> QED BY <4>1, <4>2
      <3>3. Len(Rest) = 1 /\ Rest[1] = l
        BY <1>3, <1>5, <3>2 DEF Rest
      <3> QED BY <1>1, <3>3
    <2>3. agenda' = Rest
      BY DEF Detach
    <2> QED BY <1>1, <1>5, <2>1, <2>2, <2>3 DEF Entries, ToSet
  <1>7. /\ UNCHANGED <<waiting, fut>>
        /\ pstat' = [pstat EXCEPT ![f] = "New"]
        /\ wakers' = [wakers EXCEPT ![f] = <<>>]
        /\ fstate' = [fstate EXCEPT ![f] = "Suspended"]
    BY <1>2 DEF Detach
  <1>8. f \in Objs
    BY DEF Objs
  <1>9. wakers'[f] = <<>> /\ ToSet(wakers'[f]) = {} /\ \A x \in Objs : x # f => wakers'[x] = wakers[x]
    BY <1>1, <1>7, <1>8 DEF TypeOK, ToSet
  <1>10. \A c \in Entries : c.op \in {"detach", "tail", "leave"}
    BY <1>1, <1>4, <1>5, <1>6 DEF Control
  <1>11. ~HasResult(f)' /\ \A x \in Objs : x # f => (HasResult(x)' <=> HasResult(x))
    BY <1>1, <1>7, <1>8 DEF TypeOK, HasResult
  <1>12. \A x : Allocated(x) => Allocated(x)'
    BY <1>1, <1>7 DEF Allocated, TypeOK
  <1>13. BlockedInv'
    <2>1. ASSUME NEW g \in Fibers, Blocked(g)'
          PROVE  /\ fstate'[g] = "Suspended" /\ ~HasResult(g)' /\ Allocated(waiting[g])'
                 /\ pstat'[waiting'[g]] = "Pending" /\ g \in ToSet(wakers'[waiting'[g]])
      <3>1. Blocked(g) /\ waiting'[g] = waiting[g]
        BY <1>7, <2>1 DEF Blocked
      <3>2. fstate[g] = "Suspended" /\ ~HasResult(g) /\ Allocated(waiting[g])
        BY <3>1 DEF AnswersInv, BlockedInv
      <3>3. pstat[waiting[g]] = "Pending" /\ g \in ToSet(wakers[waiting[g]])
        BY <1>10, <3>1 DEF AnswersInv, BlockedInv, Delivers
      <3>4. g # f /\ waiting[g] # f /\ waiting[g] \in Objs
        BY <1>3, <3>2, <3>3 DEF HasResult, Allocated, Objs
      <3>5. g \in Objs
        BY DEF Objs
      <3> QED BY <1>1, <1>7, <1>9, <1>11, <1>12, <3>1, <3>2, <3>3, <3>4, <3>5 DEF TypeOK
    <2>2. ASSUME NEW g \in Fibers, HasResult(g)' PROVE fstate'[g] = "Dead"
      <3>1. g # f /\ HasResult(g)
        BY <1>11, <2>2 DEF Objs
      <3>2. Do("detach", g) \notin Entries
        BY <1>2, <1>4, <1>5, <1>6, <3>1 DEF Do, Call, Control
      <3> QED BY <1>1, <1>7, <3>1, <3>2 DEF AnswersInv, BlockedInv, TypeOK
    <2> QED BY <1>7, <2>1, <2>2 DEF BlockedInv
  <1>14. WakersInv'
    <2>1. \A x : Do("woken", x) \notin Entries
      BY <1>10 DEF Do, Call
    <2>2. \A x \in Objs : \A g \in Fibers \cap ToSet(wakers'[x]) : waiting'[g] = x
      BY <1>7, <1>9, <2>1 DEF AnswersInv, WakersInv
    <2>3. \A x \in Objs : \A i, j \in DOMAIN wakers'[x] :
            wakers'[x][i] = wakers'[x][j] /\ wakers'[x][i] \in Fibers => i = j
      BY <1>9 DEF AnswersInv, WakersInv
    <2> QED BY <2>2, <2>3 DEF WakersInv
  <1>15. CallsOK'
    BY <1>4, <1>5, <1>6 DEF CallsOK, CallOK, Control
  <1>16. PlacesOK'
    <2>1. l.op = "tail" => ~Blocked(l.who)'
      <3>1. PlaceOK(2)
        BY <1>1, <1>3 DEF AnswersInv, PlacesOK, TypeOK
      <3>2. \A g : Delivers(g) = {}
        BY <1>10 DEF Delivers
      <3>3. l.op = "tail" => ~Blocked(l.who)
        BY <1>5, <3>1, <3>2 DEF PlaceOK
      <3> QED BY <1>7, <3>3 DEF Blocked
    <2> QED BY <1>4, <1>5, <1>6, <2>1 DEF PlacesOK, PlaceOK, Control
  <1> QED BY <1>13, <1>14, <1>15, <1>16 DEF AnswersInv

\* ExecuteFiber goes on, or is left, after the last call.
LEMMA LoopTailAnswers ==
  ASSUME SchedulingInv, AnswersInv, LoopTail
  PROVE  AnswersInv'
  <1> USE DEF fiberVars, promiseVars, schedVars, sweepVars, loopVars
  <1>1. /\ TypeOK /\ agenda # <<>> /\ Top.op = "tail" /\ Top \in CallSet
        /\ PlaceOK(1) /\ Top = agenda[1] /\ 1 \in DOMAIN agenda
    BY TopFacts DEF LoopTail
  <1>2. Len(agenda) = 1 /\ Rest = <<>>
    BY <1>1, ControlAlone DEF SchedulingInv, Control, Top, Rest
  <1>3. PICK f \in Fibers : f = Top.who
    BY <1>1 DEF CallSet, FiberOps
  <1>4. UNCHANGED <<waiting, pstat, wakers, fut, fstate>>
    BY DEF LoopTail
  <1>5. ~Blocked(f)'
    <2>1. DOMAIN agenda = 1..1 /\ \A i \in 1..1 : i = 1
      BY <1>1, <1>2 DEF TypeOK
    <2>2. \A c \in Entries : c.op = "tail"
      BY <1>1, <2>1 DEF Entries, ToSet
    <2>3. Delivers(f) = {}
      BY <2>2 DEF Delivers
    <2>4. ~Blocked(f)
      BY <1>1, <1>3, <2>3 DEF PlaceOK
    <2> QED BY <1>4, <2>4 DEF Blocked
  <1>6. PICK k, l : k = Do("kill", f) /\ l = Do("leave", f)
    OBVIOUS
  <1>7. /\ k \in CallSet /\ k.op = "kill" /\ k.who = f
        /\ l \in CallSet /\ l.op = "leave" /\ l.who = f
    BY <1>6, DoType DEF Do, Call, FiberOps
  <1>8. CallOK(k)' /\ CallOK(l)'
    BY <1>5, <1>7 DEF CallOK
  <1>9. PICK X : X = agenda'
    OBVIOUS
  <1>10. X = <<k, l>> \/ X = <<>> \/ X = <<l>>
    BY <1>3, <1>6, <1>9 DEF LoopTail
  <1>11. X \in Seq(CallSet) /\ agenda' = X \o Rest
    <2>1. X \in Seq(CallSet)
      <3>1. <<k, l>> \in Seq(CallSet) /\ <<>> \in Seq(CallSet) /\ <<l>> \in Seq(CallSet)
        BY <1>7
      <3> QED BY <1>10, <3>1
    <2> QED BY <1>2, <1>9, <2>1
  <1>12. Cascades(X)
    BY <1>1, <1>4, <1>11, QuietCascade
  <1>13. FollowsUp(X)
    <2>1. CASE X = <<k, l>>
      <3>1. Len(X) = 2 /\ X[1] = k /\ X[2] = l /\ \A i \in 1..2 : i = 1 \/ i = 2
        BY <2>1
      <3>2. ASSUME NEW i \in 1..Len(X)
            PROVE  (i = 1 /\ X[i] = k) \/ X[i] = l
        BY <3>1
      <3> QED BY <1>2, <1>7, <1>8, <3>1, <3>2 DEF FollowsUp
    <2>2. CASE X = <<>>
      BY <2>2, FollowedByNone
    <2>3. CASE X = <<l>>
      BY <1>7, <1>8, <2>3, FollowedByOne
    <2> QED BY <1>10, <2>1, <2>2, <2>3
  <1> QED BY <1>12, <1>13, CascadeAnswers

\* Run takes the fiber back.
LEMMA LeaveAnswers ==
  ASSUME SchedulingInv, AnswersInv, Leave
  PROVE  AnswersInv'
  <1> USE DEF fiberVars, promiseVars, schedVars, sweepVars, loopVars
  <1>1. /\ TypeOK /\ agenda # <<>> /\ Top.op = "leave"
        /\ <<>> \o Rest = Rest /\ <<>> \in Seq(CallSet)
    BY TopFacts DEF Leave
  <1>2. agenda' = <<>> \o Rest /\ UNCHANGED <<waiting, pstat, wakers, fut, fstate>>
    BY <1>1 DEF Leave
  <1>3. Cascades(<<>>)
    BY <1>1, <1>2, QuietCascade
  <1> QED BY <1>3, FollowedByNone, CascadeAnswers

\* A first await that spares the blocked fibers is made of awaits that do.
LEMMA HarmlessCalls ==
  ASSUME NEW x \in Objs, Harmless(x)
  PROVE  /\ x \in Fibers => ~Blocked(x)
         /\ x \in Futures /\ pstat[x] = "New" =>
              \A k \in DOMAIN fut[x].of : Harmless(fut[x].of[k])
  <1>1. PICK S \in SUBSET (Objs \cup {None}) :
          /\ x \in S
          /\ \A p \in S \cap Futures :
               pstat[p] = "New" => \A i \in DOMAIN fut[p].of : fut[p].of[i] \in S
          /\ \A g \in S \cap Fibers : ~Blocked(g)
    BY DEF Harmless
  <1>2. \A y \in S : Harmless(y)
    BY <1>1 DEF Harmless
  <1> QED BY <1>1, <1>2

\* The calls VM::Await makes when the awaited promise has no result.
AwaitCalls(x, X) ==
  \A i \in 1..Len(X) :
    \/ /\ x \in Futures /\ pstat[x] = "New"
       /\ X[i].op = "await" /\ X[i].by = x
       /\ \E k \in DOMAIN fut[x].of : X[i].who = fut[x].of[k]
    \/ x \in Fibers /\ X[i].op = "micro" /\ X[i].who = x

\* They are what it puts on the agenda.
LEMMA PendingAwait ==
  ASSUME TypeOK, NEW x \in Objs, NEW by \in Objs,
         NEW ready \in Seq(CallSet), NEW pending \in Seq(CallSet),
         AwaitOn(x, by, ready, pending), ~HasResult(x)
  PROVE  \E X \in Seq(CallSet) : agenda' = X \o pending /\ AwaitCalls(x, X)
  <1> DEFINE A == IF pstat[x] = "New" THEN InitialAwait(x) ELSE <<>>
             B == IF x \in Fibers THEN <<Do("micro", x)>> ELSE <<>>
  <1>1. agenda' = (A \o B) \o pending
    BY ObjsAssumption DEF AwaitOn
  <1>2. /\ A \in Seq(CallSet)
        /\ \A i \in 1..Len(A) :
             /\ x \in Futures /\ pstat[x] = "New"
             /\ A[i].op = "await" /\ A[i].by = x
             /\ \E k \in DOMAIN fut[x].of : A[i].who = fut[x].of[k]
    <2>1. CASE x \in Futures /\ pstat[x] = "New"
      <3>1. fut[x].of \in Seq(Objs \cup {None})
        BY <2>1 DEF TypeOK
      <3>2. A = [i \in 1..Len(fut[x].of) |-> Call("await", fut[x].of[i], x, "val")]
        BY <2>1 DEF InitialAwait
      <3>3. A \in Seq(CallSet)
        BY <2>1, InitialAwaitType
      <3>4. Len(A) = Len(fut[x].of) /\ DOMAIN fut[x].of = 1..Len(fut[x].of)
        <4> HIDE DEF A
        <4> QED BY <3>1, <3>2
      <3>5. ASSUME NEW i \in 1..Len(A)
            PROVE  A[i].op = "await" /\ A[i].by = x /\ A[i].who = fut[x].of[i]
        <4> HIDE DEF A
        <4>1. A[i] = Call("await", fut[x].of[i], x, "val")
          BY <3>2, <3>4
        <4> QED BY <4>1 DEF Call
      <3> HIDE DEF A
      <3> QED BY <2>1, <3>3, <3>4, <3>5
    <2>2. CASE ~(x \in Futures /\ pstat[x] = "New")
      <3>1. A = <<>>
        BY <2>2 DEF InitialAwait
      <3> HIDE DEF A
      <3> QED BY <3>1
    <2> QED BY <2>1, <2>2
  <1>3. /\ B \in Seq(CallSet)
        /\ \A i \in 1..Len(B) : x \in Fibers /\ B[i].op = "micro" /\ B[i].who = x
    <2>1. CASE x \in Fibers
      <3>1. PICK m : m = Do("micro", x)
        OBVIOUS
      <3>2. m \in CallSet /\ m.op = "micro" /\ m.who = x
        BY <2>1, <3>1, DoType DEF FiberOps, Do, Call
      <3>3. B = <<m>>
        BY <2>1, <3>1
      <3> HIDE DEF B
      <3>4. Len(B) = 1 /\ B[1] = m /\ \A i \in 1..1 : i = 1
        BY <3>3
      <3> QED BY <2>1, <3>2, <3>3, <3>4
    <2>2. CASE x \notin Fibers
      <3>1. B = <<>>
        BY <2>2
      <3> HIDE DEF B
      <3> QED BY <3>1
    <2> QED BY <2>1, <2>2
  <1> HIDE DEF A, B
  <1>4. /\ A \o B \in Seq(CallSet) /\ Len(A \o B) = Len(A) + Len(B)
        /\ \A i \in 1..Len(A \o B) : (A \o B)[i] = IF i <= Len(A) THEN A[i] ELSE B[i - Len(A)]
    BY <1>2, <1>3, ConcatProperties
  <1>5. PICK X : X = A \o B
    OBVIOUS
  <1>6. AwaitCalls(x, X)
    <2>1. ASSUME NEW i \in 1..Len(X)
          PROVE  (i \in 1..Len(A) /\ X[i] = A[i]) \/ (i - Len(A) \in 1..Len(B) /\ X[i] = B[i - Len(A)])
      BY <1>2, <1>3, <1>4, <1>5
    <2>2. ASSUME NEW i \in 1..Len(X)
          PROVE  \/ /\ x \in Futures /\ pstat[x] = "New"
                    /\ X[i].op = "await" /\ X[i].by = x
                    /\ \E k \in DOMAIN fut[x].of : X[i].who = fut[x].of[k]
                 \/ x \in Fibers /\ X[i].op = "micro" /\ X[i].who = x
      <3>1. CASE i \in 1..Len(A) /\ X[i] = A[i]
        BY <1>2, <3>1
      <3>2. CASE i - Len(A) \in 1..Len(B) /\ X[i] = B[i - Len(A)]
        <4>1. PICK j \in 1..Len(B) : X[i] = B[j]
          BY <3>2
        <4> QED BY <1>3, <4>1
      <3> QED BY <2>1, <3>1, <3>2
    <2> QED BY <2>2 DEF AwaitCalls
  <1> QED BY <1>1, <1>4, <1>5, <1>6

\* A future awaits: it is told at once, or its waker is stored.
LEMMA AwaitCallAnswers ==
  ASSUME SchedulingInv, AnswersInv, AwaitCall
  PROVE  AnswersInv'
  <1> USE DEF fiberVars, promiseVars, schedVars, sweepVars, loopVars
  <1>1. /\ TypeOK /\ agenda # <<>> /\ Top.op = "await" /\ Top \in CallSet
        /\ CallOK(Top) /\ Rest \in Seq(CallSet)
    BY TopFacts DEF AwaitCall
  <1>2. PICK x \in Objs \cup {None}, p \in Futures : x = Top.who /\ p = Top.by
    BY <1>1 DEF CallSet, CallOK
  <1>3. Harmless(x) /\ p \in Objs /\ p \notin Fibers
    BY <1>1, <1>2, ObjsAssumption DEF CallOK, Objs
  <1>4. AwaitOn(x, p, Rest, Rest) /\ UNCHANGED <<fut, waiting, fstate>>
    BY <1>2 DEF AwaitCall
  <1>5. CASE x = None
    <2>1. PICK a : a = Call("deliver", p, None, "err")
      OBVIOUS
    <2>2. a \in CallSet /\ a.op = "deliver" /\ a.who = p /\ a.by = None
      BY <1>3, <2>1 DEF CallSet, Call, CallOps, FiberOps, Results
    <2>3. agenda' = <<a>> \o Rest /\ UNCHANGED <<pstat, wakers>>
      BY <1>4, <1>5, <2>1, ObjsAssumption DEF AwaitOn
    <2>4. PICK X : X = <<a>>
      OBVIOUS
    <2>5. X \in Seq(CallSet) /\ Len(X) = 1 /\ X[1] = a /\ \A i \in 1..1 : i = 1
      BY <2>2, <2>4
    <2>6. Cascades(X)
      BY <1>1, <1>4, <2>3, <2>4, <2>5, QuietCascade
    <2>7. CallOK(a)'
      BY <1>3, <2>2 DEF CallOK
    <2>8. FollowsUp(X)
      BY <1>3, <2>2, <2>5, <2>7 DEF FollowsUp
    <2> QED BY <2>6, <2>8, CascadeAnswers
  <1>6. CASE x \in Objs /\ HasResult(x)
    <2>1. PICK a, b : a = Call("deliver", p, x, ResultOf(x)) /\ b = Do("bump", x)
      OBVIOUS
    <2>2. /\ a \in CallSet /\ a.op = "deliver" /\ a.who = p /\ a.by = x
          /\ b \in CallSet /\ b.op = "bump"
      BY <1>3, <1>6, <2>1 DEF CallSet, Call, Do, CallOps, FiberOps, Results, ResultOf
    <2>3. agenda' = <<a, b>> \o Rest /\ UNCHANGED <<pstat, wakers>>
      BY <1>4, <1>6, <2>1, ObjsAssumption DEF AwaitOn
    <2>4. PICK X : X = <<a, b>>
      OBVIOUS
    <2>5. /\ X \in Seq(CallSet) /\ Len(X) = 2 /\ X[1] = a /\ X[2] = b
          /\ \A i \in 1..2 : i = 1 \/ i = 2
      BY <2>2, <2>4
    <2>6. Cascades(X)
      BY <1>1, <1>4, <2>3, <2>4, <2>5, QuietCascade
    <2>7. CallOK(a)' /\ CallOK(b)'
      <3>1. HasResult(x)'
        BY <1>6, <2>3 DEF HasResult
      <3> QED BY <1>3, <2>2, <3>1 DEF CallOK
    <2>8. FollowsUp(X)
      <3>1. ASSUME NEW i \in 1..Len(X) PROVE X[i] = a \/ X[i] = b
        BY <2>5
      <3> QED BY <1>3, <2>2, <2>7, <3>1 DEF FollowsUp
    <2> QED BY <2>6, <2>8, CascadeAnswers
  <1>7. CASE x \in Objs /\ ~HasResult(x)
    <2>1. PICK X \in Seq(CallSet) : agenda' = X \o Rest /\ AwaitCalls(x, X)
      BY <1>1, <1>3, <1>4, <1>7, PendingAwait
    <2>2. /\ wakers' = [wakers EXCEPT ![x] = Append(@, p)]
          /\ pstat' = [pstat EXCEPT ![x] = "Pending"]
      BY <1>4, <1>7, ObjsAssumption DEF AwaitOn
    <2>3. /\ wakers[x] \in Seq(Objs) /\ wakers'[x] = Append(wakers[x], p)
          /\ \A y \in Objs : y # x => wakers'[y] = wakers[y]
      BY <1>1, <1>7, <2>2 DEF TypeOK
    <2>4. ToSet(wakers'[x]) = ToSet(wakers[x]) \cup {p}
      BY <1>3, <2>3, AppendSet
    <2>5. \A y \in Objs : HasResult(y)' <=> HasResult(y)
      BY <1>1, <1>7, <2>2 DEF HasResult, TypeOK
    <2>6. \A q \in Futures : pstat'[q] = "New" => pstat[q] = "New"
      BY <1>1, <2>2 DEF TypeOK
    <2>7. \A f \in Fibers : Blocked(f)' => Blocked(f)
      BY <1>4 DEF Blocked
    <2>8. Cascades(X)
      <3>1. \A y \in Objs : \A i, j \in DOMAIN wakers'[y] :
              wakers'[y][i] = wakers'[y][j] /\ wakers'[y][i] \in Fibers => i = j
        <4>1. ASSUME NEW i \in DOMAIN wakers'[x], NEW j \in DOMAIN wakers'[x],
                     wakers'[x][i] = wakers'[x][j], wakers'[x][i] \in Fibers
              PROVE  i = j
          <5>1. /\ \A k \in DOMAIN wakers'[x] : k \in DOMAIN wakers[x] \/ wakers'[x][k] = p
                /\ \A k \in DOMAIN wakers[x] : wakers'[x][k] = wakers[x][k]
            BY <2>3
          <5>2. i \in DOMAIN wakers[x] /\ j \in DOMAIN wakers[x]
            BY <1>3, <4>1, <5>1
          <5> QED BY <1>7, <4>1, <5>1, <5>2 DEF AnswersInv, WakersInv
        <4> QED BY <2>3, <4>1 DEF AnswersInv, WakersInv
      <3>2. \A y \in Objs, f \in Fibers : f \in ToSet(wakers'[y]) <=> f \in ToSet(wakers[y])
        <4>1. \A f \in Fibers : f \in ToSet(wakers'[x]) <=> f \in ToSet(wakers[x])
          BY <1>3, <2>4
        <4> QED BY <2>3, <4>1
      <3>3. \A y \in Objs : pstat[y] = "Pending" => pstat'[y] = "Pending"
        BY <1>1, <2>2 DEF TypeOK
      <3>4. \A y : Top # Do("woken", y)
        BY <1>1 DEF Do, Call
      <3> QED BY <1>1, <1>4, <2>1, <2>5, <2>6, <3>1, <3>2, <3>3, <3>4 DEF Cascades
    <2>9. FollowsUp(X)
      <3>1. ASSUME NEW i \in 1..Len(X)
            PROVE  CallOK(X[i])' /\ X[i].op \in {"await", "micro"}
        <4>1. CASE /\ x \in Futures /\ pstat[x] = "New"
                   /\ X[i].op = "await" /\ X[i].by = x
                   /\ \E k \in DOMAIN fut[x].of : X[i].who = fut[x].of[k]
          <5>1. Harmless(X[i].who)
            BY <1>3, <1>7, <4>1, HarmlessCalls
          <5>2. PICK y : y = X[i].who
            OBVIOUS
          <5>3. Harmless(y)'
            BY <1>4, <2>6, <2>7, <5>1, <5>2, HarmlessStays
          <5> QED BY <4>1, <5>2, <5>3 DEF CallOK
        <4>2. CASE x \in Fibers /\ X[i].op = "micro" /\ X[i].who = x
          <5>1. ~Blocked(x)'
            BY <1>3, <1>7, <2>7, <4>2, HarmlessCalls
          <5> QED BY <4>2, <5>1 DEF CallOK
        <4> QED BY <2>1, <4>1, <4>2 DEF AwaitCalls
      <3> QED BY <3>1 DEF FollowsUp
    <2> QED BY <2>8, <2>9, CascadeAnswers
  <1> QED BY <1>5, <1>6, <1>7

\* The calls in progress never make a blocked fiber lose its answer.
LEMMA CallsAnswer ==
  ASSUME SchedulingInv, AnswersInv, Calls
  PROVE  AnswersInv'
  BY SmallCallsAnswer, ArrivedAnswers, DeliverToFutureAnswers, RaiseErrorAnswers, KillAnswers,
     DeliverToFiberAnswers, SettleAnswers, WokenAnswers, KillDeadAnswers, DetachAnswers,
     LoopTailAnswers, LeaveAnswers, AwaitCallAnswers DEF Calls

(***************************************************************************)
(* The loop, the host and the instructions.                                *)
(***************************************************************************)

\* A step between calls that leaves the blocked fibers, what they wait for and
\* the stored wakers alone.
LEMMA IdleAnswers ==
  ASSUME TypeOK, AnswersInv, agenda = <<>>, UNCHANGED <<waiting, wakers>>,
         \A x \in Objs : Allocated(x) =>
           Allocated(x)' /\ (pstat[x] = "Pending" => pstat'[x] = "Pending"),
         \A f \in Fibers :
           /\ Blocked(f) => fstate'[f] = fstate[f]
           /\ HasResult(f)' => fstate'[f] = "Dead" \/ HasResult(f)
           /\ fstate[f] = "Dead" => fstate'[f] = "Dead"
  PROVE  BlockedInv' /\ WakersInv'
  <1>1. Entries = {} /\ \A f : Delivers(f) = {}
    BY DEF Entries, ToSet, Delivers
  <1>2. ASSUME NEW f \in Fibers, Blocked(f)'
        PROVE  /\ fstate'[f] = "Suspended" /\ ~HasResult(f)' /\ Allocated(waiting[f])'
               /\ pstat'[waiting'[f]] = "Pending" /\ f \in ToSet(wakers'[waiting'[f]])
    <2>1. Blocked(f) /\ waiting'[f] = waiting[f]
      BY <1>2 DEF Blocked
    <2>2. /\ fstate[f] = "Suspended" /\ ~HasResult(f) /\ Allocated(waiting[f])
          /\ pstat[waiting[f]] = "Pending" /\ f \in ToSet(wakers[waiting[f]])
      BY <1>1, <2>1 DEF AnswersInv, BlockedInv
    <2>3. waiting[f] \in Objs
      BY <2>2 DEF Allocated, Objs
    <2>4. fstate'[f] = "Suspended"
      BY <2>1, <2>2
    <2> QED BY <2>1, <2>2, <2>3, <2>4
  <1>3. \A f \in Fibers : HasResult(f)' => fstate'[f] = "Dead"
    BY <1>1 DEF AnswersInv, BlockedInv
  <1>4. BlockedInv'
    BY <1>2, <1>3 DEF BlockedInv
  <1>5. WakersInv'
    BY <1>1 DEF AnswersInv, WakersInv
  <1> QED BY <1>4, <1>5

\* No calls, one call, and the calls that end an execution.
LEMMA NoCalls ==
  ASSUME agenda' = <<>>
  PROVE  CallsOK' /\ PlacesOK'
  BY DEF CallsOK, PlacesOK, Entries, ToSet

\* A new agenda of one call that answers nobody.
LEMMA OneCall ==
  ASSUME NEW c, agenda' = <<c>>, CallOK(c)',
         c.op \notin {"error", "kill", "deliver", "detach", "tail"}
  PROVE  CallsOK' /\ PlacesOK'
  <1>1. DOMAIN agenda' = 1..1 /\ agenda'[1] = c /\ \A i \in 1..1 : i = 1
    OBVIOUS
  <1>2. Entries' = {c}
    BY <1>1 DEF Entries, ToSet
  <1>3. CallsOK'
    BY <1>2 DEF CallsOK
  <1>4. PlacesOK'
    BY <1>1 DEF PlacesOK, PlaceOK
  <1> QED BY <1>3, <1>4

\* A new agenda that ends a fiber in error or kills it, as a host does.
LEMMA LastCalls ==
  ASSUME NEW f \in Fibers, NEW op \in {"error", "kill"}, NEW e \in Control,
         agenda' = <<Do(op, f), Do(e, f)>>, ~Blocked(f)', fstate'[f] # "Dead"
  PROVE  CallsOK' /\ PlacesOK'
  <1>1. PICK a, b : a = Do(op, f) /\ b = Do(e, f)
    OBVIOUS
  <1>2. a.op = op /\ a.who = f /\ b.op = e /\ b.who = f
    BY <1>1 DEF Do, Call
  <1>3. /\ DOMAIN agenda' = 1..2 /\ agenda'[1] = a /\ agenda'[2] = b
        /\ \A i \in 1..2 : i = 1 \/ i = 2
    BY <1>1
  <1>4. Entries' = {a, b}
    BY <1>3 DEF Entries, ToSet
  <1>5. CallsOK'
    BY <1>2, <1>4 DEF CallsOK, CallOK, Control
  <1>6. PlacesOK'
    BY <1>2, <1>3 DEF PlacesOK, PlaceOK, Control
  <1> QED BY <1>5, <1>6

\* A fiber that is not suspended is not blocked.
LEMMA RunnableIsFree ==
  ASSUME AnswersInv, NEW f \in Fibers, fstate[f] # "Suspended"
  PROVE  ~Blocked(f)
  BY DEF AnswersInv, BlockedInv

\* A step of the event loop: a due timer, the next task, or the sweep of fibres_.
LEMMA LoopAnswers ==
  ASSUME SchedulingInv, AnswersInv, Loop
  PROVE  AnswersInv'
  <1> USE DEF fiberVars, promiseVars, schedVars, sweepVars, loopVars
  <1>1. TypeOK /\ agenda = <<>>
    BY DEF SchedulingInv, AgendaShape, Loop, FireTimer, NextTask, SweepKeep, SweepErase,
           SweepThrow, SweepDone
  <1>2. UNCHANGED <<waiting, wakers, fstate, pstat, fut>>
    BY DEF Loop, FireTimer, NextTask, SweepKeep, SweepErase, SweepThrow, SweepDone
  <1>3. BlockedInv' /\ WakersInv'
    <2>1. \A x : (Allocated(x)' <=> Allocated(x)) /\ (HasResult(x)' <=> HasResult(x))
      BY <1>2 DEF Allocated, HasResult
    <2> QED BY <1>1, <1>2, <2>1, IdleAnswers
  <1>4. CASE FireTimer
    <2>1. PICK p \in Futures : p = Head(timers)
      BY <1>1, <1>4 DEF FireTimer, TypeOK
    <2>2. PICK c : c = Call("settle", p, None, IF fut[p].kind = "sleep" THEN "val" ELSE "err")
      OBVIOUS
    <2>3. agenda' = <<c>>
      BY <1>4, <2>1, <2>2 DEF FireTimer
    <2>4. c.op = "settle" /\ c.who \notin Fibers
      BY <2>1, <2>2, ObjsAssumption DEF Call
    <2>5. CallOK(c)'
      BY <2>4 DEF CallOK
    <2> QED BY <1>3, <2>3, <2>4, <2>5, OneCall DEF AnswersInv
  <1>5. CASE NextTask
    <2>1. \/ agenda' = <<>>
          \/ \E f \in Fibers : fstate[f] = "Running" /\ agenda' = <<Do("kill", f), Do("leave", f)>>
      <3>1. ASSUME NEW f \in Fibers, RunOrSkip(f)
            PROVE  \/ agenda' = <<>>
                   \/ fstate[f] = "Running" /\ agenda' = <<Do("kill", f), Do("leave", f)>>
        BY <1>1, <3>1 DEF RunOrSkip, Execute, Skip
      <3>2. CASE microq # <<>> /\ RunOrSkip(Last(microq))
        <4>1. Last(microq) \in Fibers
          <5>1. microq \in Seq(Fibers)
            BY <1>1 DEF TypeOK
          <5> QED BY <3>2, <5>1 DEF Last
        <4> QED BY <3>1, <3>2, <4>1
      <3>3. CASE runq # <<>> /\ RunOrSkip(Head(runq))
        <4>1. Head(runq) \in Fibers
          BY <1>1, <3>3 DEF TypeOK
        <4> QED BY <3>1, <3>3, <4>1
      <3>4. CASE Skip
        BY <1>1, <3>4 DEF Skip
      <3> QED BY <1>5, <3>2, <3>3, <3>4 DEF NextTask
    <2>2. CASE agenda' = <<>>
      BY <1>3, <2>2, NoCalls DEF AnswersInv
    <2>3. ASSUME NEW f \in Fibers, fstate[f] = "Running", agenda' = <<Do("kill", f), Do("leave", f)>>
          PROVE  AnswersInv'
      <3>1. ~Blocked(f)' /\ fstate'[f] # "Dead"
        BY <1>2, <2>3, RunnableIsFree DEF Blocked
      <3> QED BY <1>3, <2>3, <3>1, LastCalls DEF AnswersInv, Control
    <2> QED BY <2>1, <2>2, <2>3
  <1>6. CASE SweepKeep \/ SweepErase \/ SweepThrow \/ SweepDone
    <2>1. agenda' = <<>>
      BY <1>1, <1>6 DEF SweepKeep, SweepErase, SweepThrow, SweepDone
    <2> QED BY <1>3, <2>1, NoCalls DEF AnswersInv
  <1> QED BY <1>4, <1>5, <1>6 DEF Loop

\* One instruction of the running fiber.
LEMMA EvaluateAnswers ==
  ASSUME SchedulingInv, AnswersInv, NEW f \in Fibers, Evaluate(f)
  PROVE  AnswersInv'
  <1> USE DEF fiberVars, promiseVars, schedVars, sweepVars, loopVars
  <1>1. TypeOK /\ agenda = <<>> /\ agenda' = <<>>
    BY DEF SchedulingInv, AgendaShape, Evaluate
  <1>2. /\ UNCHANGED <<waiting, wakers, pstat, fut>> /\ fstate[f] = "Free"
        /\ fstate' = [fstate EXCEPT ![f] = "Running"]
    BY DEF Evaluate
  <1>3. ~Blocked(f)
    BY <1>2, RunnableIsFree
  <1>4. BlockedInv' /\ WakersInv'
    <2>1. \A x : (Allocated(x) => Allocated(x)') /\ (HasResult(x)' <=> HasResult(x))
      BY <1>1, <1>2 DEF Allocated, HasResult, TypeOK
    <2>2. \A g \in Fibers :
            /\ Blocked(g) => fstate'[g] = fstate[g]
            /\ fstate[g] = "Dead" => fstate'[g] = "Dead"
      BY <1>1, <1>2, <1>3 DEF TypeOK
    <2> QED BY <1>1, <1>2, <2>1, <2>2, IdleAnswers
  <1> QED BY <1>1, <1>4, NoCalls DEF AnswersInv

\* Spawning, creating a future, yielding, returning, throwing: no await among them.
LEMMA PlainInstructions ==
  ASSUME SchedulingInv, AnswersInv, NEW f \in Fibers,
         \/ CallFunction(f) \/ CallBadArguments(f) \/ Throw(f)
         \/ TryBegin(f) \/ TryEnd(f) \/ Return(f) \/ Yield(f)
         \/ \E g \in Fibers : Spawn(f, g) \/ SpawnBadArguments(f, g)
         \/ \E p \in Futures, kind \in FutureKinds :
              \E items \in Items(kind) : CreateFuture(f, p, kind, items)
  PROVE  BlockedInv' /\ WakersInv' /\ ~Blocked(f)' /\ fstate'[f] = "Running"
  <1> USE DEF fiberVars, promiseVars, schedVars, sweepVars, loopVars
  <1>1. TypeOK /\ agenda = <<>> /\ fstate[f] = "Running"
    <2>1. Executing(f)
      BY DEF CallFunction, CallBadArguments, Throw, TryBegin, TryEnd, Return, Yield,
             Spawn, SpawnBadArguments, CreateFuture, Budgeted
    <2> QED BY <2>1, ExecutingFiber DEF SchedulingInv
  <1>2. UNCHANGED <<waiting, wakers>>
    BY DEF CallFunction, CallBadArguments, Throw, TryBegin, TryEnd, Return, Yield,
           Spawn, SpawnBadArguments, CreateFuture
  <1>3. \A x \in Objs : Allocated(x) =>
          Allocated(x)' /\ (pstat[x] = "Pending" => pstat'[x] = "Pending")
    <2>1. CASE UNCHANGED <<fstate, fut, pstat>>
      BY <2>1 DEF Allocated
    <2>2. ASSUME NEW g \in Fibers, Spawn(f, g) \/ SpawnBadArguments(f, g)
          PROVE  \A x \in Objs : Allocated(x) =>
                   Allocated(x)' /\ (pstat[x] = "Pending" => pstat'[x] = "Pending")
      BY <1>1, <2>2, ObjsAssumption DEF Spawn, SpawnBadArguments, Allocated, TypeOK, Objs
    <2>3. ASSUME NEW p \in Futures, NEW kind \in FutureKinds, NEW items \in Items(kind),
                 CreateFuture(f, p, kind, items)
          PROVE  \A x \in Objs : Allocated(x) =>
                   Allocated(x)' /\ (pstat[x] = "Pending" => pstat'[x] = "Pending")
      <3>1. /\ fut[p].kind = "none" /\ fut' = [fut EXCEPT ![p] = [kind |-> kind, of |-> items]]
            /\ pstat' = pstat \/ pstat' = [pstat EXCEPT ![p] = "Resolved"]
            /\ fstate' = fstate
        BY <2>3 DEF CreateFuture
      <3>2. \A x \in Objs : x # p => pstat'[x] = pstat[x]
        BY <1>1, <3>1 DEF TypeOK
      <3>3. \A q \in Futures : q # p => fut'[q] = fut[q]
        BY <1>1, <3>1 DEF TypeOK
      <3>4. \A x \in Objs : Allocated(x) => x # p
        BY <3>1, ObjsAssumption DEF Allocated
      <3>5. \A x \in Objs : Allocated(x) => Allocated(x)'
        BY <3>1, <3>3, <3>4 DEF Allocated
      <3> QED BY <3>2, <3>4, <3>5
    <2> QED BY <2>1, <2>2, <2>3
            DEF CallFunction, CallBadArguments, Throw, TryBegin, TryEnd, Return, Yield
  <1>4. \A h \in Fibers :
          /\ Blocked(h) => fstate'[h] = fstate[h]
          /\ HasResult(h)' => fstate'[h] = "Dead" \/ HasResult(h)
          /\ fstate[h] = "Dead" => fstate'[h] = "Dead"
          /\ h = f => fstate'[h] = "Running"
    <2>1. CASE UNCHANGED <<fstate, pstat>>
      BY <1>1, <2>1 DEF HasResult
    <2>2. ASSUME NEW g \in Fibers, Spawn(f, g) \/ SpawnBadArguments(f, g)
          PROVE  \A h \in Fibers :
                   /\ Blocked(h) => fstate'[h] = fstate[h]
                   /\ HasResult(h)' => fstate'[h] = "Dead" \/ HasResult(h)
                   /\ fstate[h] = "Dead" => fstate'[h] = "Dead"
                   /\ h = f => fstate'[h] = "Running"
      <3>1. fstate[g] = "Free" /\ g # f
        BY <1>1, <2>2 DEF Spawn, SpawnBadArguments
      <3>2. ~Blocked(g)
        BY <3>1, RunnableIsFree
      <3>3. \/ fstate' = [fstate EXCEPT ![g] = "Running"] /\ pstat' = pstat
            \/ fstate' = [fstate EXCEPT ![g] = "Dead"] /\ pstat' = [pstat EXCEPT ![g] = "Rejected"]
        BY <2>2 DEF Spawn, SpawnBadArguments
      <3>4. fstate'[g] \in {"Running", "Dead"} /\ \A h \in Fibers : h # g => fstate'[h] = fstate[h]
        BY <1>1, <3>3 DEF TypeOK
      <3>5. \A h \in Fibers : h # g => (HasResult(h)' <=> HasResult(h))
        BY <1>1, <3>3 DEF HasResult, TypeOK, Objs
      <3>6. HasResult(g)' => fstate'[g] = "Dead" \/ HasResult(g)
        <4>1. CASE pstat' = pstat
          BY <4>1 DEF HasResult
        <4>2. CASE fstate' = [fstate EXCEPT ![g] = "Dead"]
          BY <1>1, <4>2 DEF TypeOK
        <4> QED BY <3>3, <4>1, <4>2
      <3> QED BY <1>1, <3>1, <3>2, <3>4, <3>5, <3>6
    <2>3. ASSUME NEW p \in Futures, NEW kind \in FutureKinds, NEW items \in Items(kind),
                 CreateFuture(f, p, kind, items)
          PROVE  fstate' = fstate /\ \A h \in Fibers : HasResult(h)' => HasResult(h)
      BY <1>1, <2>3, ObjsAssumption DEF CreateFuture, HasResult, TypeOK, Objs
    <2> QED BY <1>1, <2>1, <2>2, <2>3
            DEF CallFunction, CallBadArguments, Throw, TryBegin, TryEnd, Return, Yield
  <1>5. ~Blocked(f)'
    BY <1>1, <1>2, RunnableIsFree DEF Blocked
  <1> QED BY <1>1, <1>2, <1>3, <1>4, <1>5, IdleAnswers

\* The first awaits of what an Await reaches leave the awaiting fiber alone too.
LEMMA SparedHarmless ==
  ASSUME NEW f \in Fibers, NEW x, Spares(f, x), UNCHANGED fut,
         \A p \in Futures : pstat'[p] = "New" => pstat[p] = "New",
         \A g \in Fibers : Blocked(g)' => Blocked(g) \/ g = f
  PROVE  /\ Harmless(x)'
         /\ x \in Futures /\ pstat[x] = "New" =>
              \A k \in DOMAIN fut[x].of : \A y : y = fut[x].of[k] => Harmless(y)'
         /\ x \in Fibers => ~Blocked(x)'
  <1>1. PICK S \in SUBSET (Objs \cup {None}) :
          /\ x \in S
          /\ \A p \in S \cap Futures :
               pstat[p] = "New" => \A i \in DOMAIN fut[p].of : fut[p].of[i] \in S
          /\ \A g \in S \cap Fibers : g # f /\ waiting[g] = None
    BY DEF Spares
  <1>2. /\ \A p \in S \cap Futures :
             pstat'[p] = "New" => \A i \in DOMAIN fut'[p].of : fut'[p].of[i] \in S
        /\ \A g \in S \cap Fibers : ~Blocked(g)'
    BY <1>1 DEF Blocked
  <1>3. \A y \in S : Harmless(y)'
    BY <1>2 DEF Harmless
  <1> QED BY <1>1, <1>2, <1>3

\* An Await blocks its fiber, whose answer is then on its way or whose waker is
\* stored.
LEMMA AwaitAnswers ==
  ASSUME SchedulingInv, AnswersInv,
         NEW f \in Fibers, NEW x \in Objs \cup {None}, Await(f, x), Spares(f, x)
  PROVE  AnswersInv'
  <1> USE DEF fiberVars, promiseVars, schedVars, sweepVars, loopVars
  <1>1. TypeOK /\ agenda = <<>> /\ fstate[f] = "Running"
    BY ExecutingFiber DEF SchedulingInv, Await, Budgeted
  <1>2. /\ x = None \/ Allocated(x)
        /\ Spares(f, x)
        /\ fstate' = [fstate EXCEPT ![f] = "Suspended"]
        /\ waiting' = [waiting EXCEPT ![f] = x]
        /\ AwaitOn(x, f, <<Do("tail", f)>>, <<Do("leave", f)>>)
        /\ UNCHANGED fut
    BY DEF Await
  <1>3. /\ fstate'[f] = "Suspended" /\ waiting'[f] = x
        /\ \A g \in Fibers : g # f => fstate'[g] = fstate[g] /\ waiting'[g] = waiting[g]
    BY <1>1, <1>2 DEF TypeOK
  <1>4. ~Blocked(f) /\ ~HasResult(f)
    <2>1. Entries = {}
      BY <1>1 DEF Entries, ToSet
    <2> QED BY <1>1, <2>1, RunnableIsFree DEF AnswersInv, BlockedInv
  <1>5. f \in Objs /\ f # None /\ (x \in Objs <=> x # None)
    BY ObjsAssumption DEF Objs
  <1>6. \A y : Allocated(y) => Allocated(y)'
    BY <1>1, <1>2 DEF Allocated, TypeOK
  <1>7. Entries = {} /\ \A g : Delivers(g) = {}
    BY <1>1 DEF Entries, ToSet, Delivers
  <1>8. ASSUME NEW g \in Fibers, g # f, Blocked(g)',
               \A o \in Objs : HasResult(o)' <=> HasResult(o),
               \A o \in Objs : pstat[o] = "Pending" => pstat'[o] = "Pending",
               \A o \in Objs : ToSet(wakers[o]) \subseteq ToSet(wakers'[o])
        PROVE  /\ fstate'[g] = "Suspended" /\ ~HasResult(g)' /\ Allocated(waiting[g])'
               /\ pstat'[waiting'[g]] = "Pending" /\ g \in ToSet(wakers'[waiting'[g]])
    <2>1. Blocked(g) /\ waiting'[g] = waiting[g] /\ fstate'[g] = fstate[g]
      BY <1>3, <1>8 DEF Blocked
    <2>2. /\ fstate[g] = "Suspended" /\ ~HasResult(g) /\ Allocated(waiting[g])
          /\ pstat[waiting[g]] = "Pending" /\ g \in ToSet(wakers[waiting[g]])
      BY <1>7, <2>1 DEF AnswersInv, BlockedInv
    <2>3. waiting[g] \in Objs /\ g \in Objs
      BY <2>2 DEF Allocated, Objs
    <2>4. Allocated(waiting[g])'
      BY <1>6, <2>1, <2>2
    <2> QED BY <1>8, <2>1, <2>2, <2>3, <2>4
  <1>9. ASSUME \A o \in Objs : HasResult(o)' <=> HasResult(o)
        PROVE  \A g \in Fibers : HasResult(g)' => fstate'[g] = "Dead"
    <2>1. \A g \in Fibers : HasResult(g) => fstate[g] = "Dead"
      BY <1>7 DEF AnswersInv, BlockedInv
    <2>2. \A g \in Fibers : g \in Objs
      BY DEF Objs
    <2> QED BY <1>3, <1>4, <1>9, <2>1, <2>2
  <1>10. PICK t, l : t = Do("tail", f) /\ l = Do("leave", f)
    OBVIOUS
  <1>11. /\ t \in CallSet /\ t.op = "tail" /\ t.who = f
         /\ l \in CallSet /\ l.op = "leave" /\ l.who = f
    BY <1>10, DoType DEF Do, Call, FiberOps
  <1>12. CASE UNCHANGED <<pstat, wakers>>
    <2>1. \A o : HasResult(o)' <=> HasResult(o)
      BY <1>12 DEF HasResult
    <2>2. PICK a : a = Call("deliver", f, x, IF x = None THEN "err" ELSE ResultOf(x))
      OBVIOUS
    <2>3. a.op = "deliver" /\ a.who = f /\ a.by = x
      BY <2>2 DEF Call
    <2>4. PICK b : b = Do("bump", x)
      OBVIOUS
    <2>5. b.op = "bump"
      BY <2>4 DEF Do, Call
    <2>6. x # None => HasResult(x)
      <3>1. ASSUME x # None, ~HasResult(x) PROVE FALSE
        <4>1. wakers' = [wakers EXCEPT ![x] = Append(@, f)]
          BY <1>2, <1>5, <3>1 DEF AwaitOn
        <4>2. wakers[x] \in Seq(Objs) /\ wakers'[x] = Append(wakers[x], f)
          BY <1>1, <1>5, <3>1, <4>1 DEF TypeOK
        <4>3. Len(Append(wakers[x], f)) = Len(wakers[x]) + 1
          BY <1>5, <4>2
        <4> QED BY <1>12, <4>2, <4>3
      <3> QED BY <3>1
    <2>7. \/ x = None /\ agenda' = <<a>> \o <<t>>
          \/ x # None /\ agenda' = <<a, b>> \o <<t>>
      BY <1>2, <1>5, <1>10, <2>2, <2>4, <2>6 DEF AwaitOn
    <2>8. \/ x = None /\ agenda' = <<a, t>>
          \/ x # None /\ agenda' = <<a, b, t>>
      <3> QED BY <2>7, JoinOne, JoinTwo
    <2>9. /\ agenda'[1] = a /\ 1 \in DOMAIN agenda' /\ a \in Entries'
          /\ \A i \in DOMAIN agenda' : (i = 1 /\ agenda'[i] = a)
                                         \/ (x # None /\ agenda'[i] = b) \/ agenda'[i] = t
      <3>1. CASE x = None /\ agenda' = <<a, t>>
        <4>1. /\ DOMAIN agenda' = 1..2 /\ agenda'[1] = a /\ agenda'[2] = t
              /\ \A i \in 1..2 : i = 1 \/ i = 2
          BY <3>1
        <4> QED BY <4>1 DEF Entries, ToSet
      <3>2. CASE x # None /\ agenda' = <<a, b, t>>
        <4>1. /\ DOMAIN agenda' = 1..3 /\ agenda'[1] = a /\ agenda'[2] = b /\ agenda'[3] = t
              /\ \A i \in 1..3 : i = 1 \/ i = 2 \/ i = 3
          BY <3>2
        <4> QED BY <3>2, <4>1 DEF Entries, ToSet
      <3> QED BY <2>8, <3>1, <3>2
    <2>10. a \in Delivers(f)'
      BY <2>3, <2>9 DEF Delivers
    <2>11. BlockedInv'
      <3>1. Blocked(f)' =>
              /\ fstate'[f] = "Suspended" /\ ~HasResult(f)' /\ Allocated(waiting[f])'
              /\ a.by = waiting'[f]
        <4>1. ASSUME Blocked(f)' PROVE Allocated(waiting[f])'
          <5>1. Allocated(x)
            BY <1>2, <1>3, <4>1 DEF Blocked
          <5>2. PICK y : y = waiting'[f]
            OBVIOUS
          <5>3. Allocated(y)'
            BY <1>3, <1>6, <5>1, <5>2
          <5> QED BY <5>2, <5>3 DEF Allocated
        <4> QED BY <1>3, <1>4, <2>1, <2>3, <4>1
      <3>2. ASSUME NEW g \in Fibers, g # f, Blocked(g)'
            PROVE  /\ fstate'[g] = "Suspended" /\ ~HasResult(g)' /\ Allocated(waiting[g])'
                   /\ pstat'[waiting'[g]] = "Pending" /\ g \in ToSet(wakers'[waiting'[g]])
        BY <1>8, <1>12, <2>1, <3>2
      <3>3. \A g \in Fibers : HasResult(g)' => fstate'[g] = "Dead"
        BY <1>9, <2>1
      <3> QED BY <2>10, <3>1, <3>2, <3>3 DEF BlockedInv
    <2>12. ASSUME NEW y \in Objs, f \in ToSet(wakers[y]) PROVE FALSE
      BY <1>4, <1>7, <2>12, ObjsAssumption DEF AnswersInv, WakersInv, Blocked
    <2>13. WakersInv'
      BY <1>3, <1>7, <1>12, <2>12 DEF AnswersInv, WakersInv
    <2>14. CallsOK'
      <3>1. \A c \in Entries' : c = a \/ (x # None /\ c = b) \/ c = t
        BY <2>9 DEF Entries, ToSet
      <3>2. CallOK(a)'
        <4>1. x = None => ~Blocked(f)'
          BY <1>3 DEF Blocked
        <4>2. x # None => HasResult(x)' /\ f \notin ToSet(wakers'[x])
          BY <1>5, <1>12, <2>1, <2>6, <2>12
        <4> QED BY <1>3, <2>3, <4>1, <4>2 DEF CallOK
      <3>3. CallOK(b)' /\ CallOK(t)'
        BY <1>11, <2>5 DEF CallOK
      <3> QED BY <3>1, <3>2, <3>3 DEF CallsOK
    <2>15. PlacesOK'
      <3>1. Blocked(f)' => \E d \in Delivers(f)' : d.by = waiting'[f]
        BY <1>3, <2>3, <2>10
      <3>2. \A i \in DOMAIN agenda' : agenda'[i].op = "deliver" => i = 1
        BY <1>11, <2>5, <2>9
      <3> QED BY <1>11, <2>3, <2>5, <2>9, <3>1, <3>2 DEF PlacesOK, PlaceOK
    <2> QED BY <2>11, <2>13, <2>14, <2>15 DEF AnswersInv
  <1>13. CASE x \in Objs /\ ~HasResult(x)
    <2>1. <<t>> \in Seq(CallSet) /\ <<l>> \in Seq(CallSet)
      BY <1>11
    <2>2. PICK X \in Seq(CallSet) : agenda' = X \o <<l>> /\ AwaitCalls(x, X)
      BY <1>1, <1>2, <1>5, <1>10, <1>13, <2>1, PendingAwait
    <2>3. /\ wakers' = [wakers EXCEPT ![x] = Append(@, f)]
          /\ pstat' = [pstat EXCEPT ![x] = "Pending"]
      BY <1>2, <1>5, <1>13 DEF AwaitOn
    <2>4. /\ wakers[x] \in Seq(Objs) /\ wakers'[x] = Append(wakers[x], f)
          /\ \A y \in Objs : y # x => wakers'[y] = wakers[y]
          /\ pstat'[x] = "Pending" /\ \A y \in Objs : y # x => pstat'[y] = pstat[y]
      BY <1>1, <1>13, <2>3 DEF TypeOK
    <2>5. ToSet(wakers'[x]) = ToSet(wakers[x]) \cup {f}
      BY <1>5, <2>4, AppendSet
    <2>6. \A o \in Objs : HasResult(o)' <=> HasResult(o)
      BY <1>13, <2>4 DEF HasResult
    <2>7. \A q \in Futures : pstat'[q] = "New" => pstat[q] = "New"
      BY <1>1, <2>3 DEF TypeOK
    <2>8. ASSUME NEW y \in Objs, f \in ToSet(wakers[y]) PROVE FALSE
      BY <1>4, <1>7, <2>8, ObjsAssumption DEF AnswersInv, WakersInv, Blocked
    <2>9. BlockedInv'
      <3>1. /\ fstate'[f] = "Suspended" /\ ~HasResult(f)' /\ Allocated(waiting[f])'
            /\ pstat'[waiting'[f]] = "Pending" /\ f \in ToSet(wakers'[waiting'[f]])
        <4>1. Allocated(x)'
          BY <1>2, <1>5, <1>6, <1>13
        <4>2. Allocated(waiting[f])'
          BY <1>3, <4>1 DEF Allocated
        <4> QED BY <1>3, <1>4, <1>5, <2>4, <2>5, <2>6, <4>2
      <3>2. \A o \in Objs : pstat[o] = "Pending" => pstat'[o] = "Pending"
        BY <2>4
      <3>3. \A o \in Objs : ToSet(wakers[o]) \subseteq ToSet(wakers'[o])
        BY <2>4, <2>5
      <3>4. ASSUME NEW g \in Fibers, g # f, Blocked(g)'
            PROVE  /\ fstate'[g] = "Suspended" /\ ~HasResult(g)' /\ Allocated(waiting[g])'
                   /\ pstat'[waiting'[g]] = "Pending" /\ g \in ToSet(wakers'[waiting'[g]])
        BY <1>8, <2>6, <3>2, <3>3, <3>4
      <3>5. \A g \in Fibers : HasResult(g)' => fstate'[g] = "Dead"
        BY <1>9, <2>6
      <3> QED BY <3>1, <3>4, <3>5 DEF BlockedInv
    <2>10. WakersInv'
      <3>1. ASSUME NEW y \in Objs, NEW g \in Fibers, g \in ToSet(wakers'[y])
            PROVE  waiting'[g] = y
        <4>1. CASE g = f
          BY <1>3, <2>4, <2>8, <3>1, <4>1
        <4>2. CASE g # f
          <5>1. g \in ToSet(wakers[y])
            BY <2>4, <2>5, <3>1, <4>2
          <5> QED BY <1>3, <1>7, <4>2, <5>1 DEF AnswersInv, WakersInv
        <4> QED BY <4>1, <4>2
      <3>2. ASSUME NEW i \in DOMAIN wakers'[x], NEW j \in DOMAIN wakers'[x],
                   wakers'[x][i] = wakers'[x][j], wakers'[x][i] \in Fibers
            PROVE  i = j
        <4>1. /\ \A k \in DOMAIN wakers'[x] :
                   k \in DOMAIN wakers[x] \/ (k = Len(wakers[x]) + 1 /\ wakers'[x][k] = f)
              /\ \A k \in DOMAIN wakers[x] : wakers'[x][k] = wakers[x][k]
          BY <2>4
        <4>2. \A k \in DOMAIN wakers[x] : wakers[x][k] # f
          <5>1. \A k \in DOMAIN wakers[x] : wakers[x][k] \in ToSet(wakers[x])
            BY DEF ToSet
          <5> QED BY <1>13, <2>8, <5>1
        <4>3. CASE i \in DOMAIN wakers[x] /\ j \in DOMAIN wakers[x]
          BY <1>13, <3>2, <4>1, <4>3 DEF AnswersInv, WakersInv
        <4>4. CASE ~(i \in DOMAIN wakers[x] /\ j \in DOMAIN wakers[x])
          BY <3>2, <4>1, <4>2, <4>4
        <4> QED BY <4>3, <4>4
      <3>3. \A y \in Objs : \A i, j \in DOMAIN wakers'[y] :
              wakers'[y][i] = wakers'[y][j] /\ wakers'[y][i] \in Fibers => i = j
        BY <2>4, <3>2 DEF AnswersInv, WakersInv
      <3> QED BY <3>1, <3>3 DEF WakersInv
    <2>11. /\ \A c \in Entries' : c = l \/ \E i \in 1..Len(X) : c = X[i]
           /\ \A i \in DOMAIN agenda' : agenda'[i] \in Entries'
      <3>1. /\ DOMAIN agenda' = 1..Len(X) + 1
            /\ \A i \in 1..Len(X) + 1 : agenda'[i] = IF i <= Len(X) THEN X[i] ELSE <<l>>[i - Len(X)]
        <4>1. Len(<<l>>) = 1 /\ Len(X) \in Nat
          BY <1>11
        <4> QED BY <2>1, <2>2, <4>1, ConcatProperties
      <3>2. ASSUME NEW i \in 1..Len(X) + 1
            PROVE  agenda'[i] = l \/ \E k \in 1..Len(X) : agenda'[i] = X[k]
        <4>1. CASE i <= Len(X)
          <5>1. i \in 1..Len(X) /\ agenda'[i] = X[i]
            BY <3>1, <4>1
          <5> QED BY <5>1
        <4>2. CASE ~(i <= Len(X))
          <5>1. i - Len(X) = 1
            BY <3>2, <4>2
          <5> QED BY <3>1, <4>2, <5>1
        <4> QED BY <4>1, <4>2
      <3> QED BY <3>1, <3>2 DEF Entries, ToSet
    <2>12. ASSUME NEW c \in Entries'
           PROVE  CallOK(c)' /\ c.op \in {"await", "micro", "leave"}
      <3>1. CASE c = l
        BY <1>11, <3>1 DEF CallOK
      <3>2. ASSUME NEW i \in 1..Len(X), c = X[i]
            PROVE  CallOK(c)' /\ c.op \in {"await", "micro"}
        <4>1. /\ x \in Futures /\ pstat[x] = "New" =>
                   \A k \in DOMAIN fut[x].of : \A y : y = fut[x].of[k] => Harmless(y)'
              /\ x \in Fibers => ~Blocked(x)'
          <5>1. \A g \in Fibers : Blocked(g)' => Blocked(g) \/ g = f
            BY <1>3 DEF Blocked
          <5> QED BY <1>2, <2>7, <5>1, SparedHarmless
        <4>2. CASE /\ x \in Futures /\ pstat[x] = "New"
                   /\ X[i].op = "await" /\ X[i].by = x
                   /\ \E k \in DOMAIN fut[x].of : X[i].who = fut[x].of[k]
          <5>1. Harmless(c.who)'
            BY <3>2, <4>1, <4>2
          <5> QED BY <3>2, <4>2, <5>1 DEF CallOK
        <4>3. CASE x \in Fibers /\ X[i].op = "micro" /\ X[i].who = x
          BY <3>2, <4>1, <4>3 DEF CallOK
        <4> QED BY <2>2, <4>2, <4>3 DEF AwaitCalls
      <3> QED BY <2>11, <3>1, <3>2
    <2>13. CallsOK'
      BY <2>12 DEF CallsOK
    <2>14. PlacesOK'
      <3>1. \A i \in DOMAIN agenda' : agenda'[i].op \in {"await", "micro", "leave"}
        BY <2>11, <2>12
      <3> QED BY <3>1 DEF PlacesOK, PlaceOK
    <2> QED BY <2>9, <2>10, <2>13, <2>14 DEF AnswersInv
  <1>14. x = None \/ (x \in Objs /\ HasResult(x)) => UNCHANGED <<pstat, wakers>>
    BY <1>2, <1>5 DEF AwaitOn
  <1> QED BY <1>5, <1>12, <1>13, <1>14

\* The instructions but Await.
OtherInstruction(f) ==
  \/ CallFunction(f) \/ CallBadArguments(f) \/ Throw(f)
  \/ TryBegin(f) \/ TryEnd(f) \/ Return(f) \/ Yield(f)
  \/ \E g \in Fibers : Spawn(f, g) \/ SpawnBadArguments(f, g)
  \/ \E p \in Futures, kind \in FutureKinds :
       \E items \in Items(kind) : CreateFuture(f, p, kind, items)

\* Every other instruction keeps the blocked fibers' answers.
LEMMA InstructionsAnswer ==
  ASSUME SchedulingInv, AnswersInv, NEW f \in Fibers, OtherInstruction(f)
  PROVE  AnswersInv'
  <1> USE DEF fiberVars, promiseVars, schedVars, sweepVars, loopVars
  <1>1. \/ CallFunction(f) \/ CallBadArguments(f) \/ Throw(f)
        \/ TryBegin(f) \/ TryEnd(f) \/ Return(f) \/ Yield(f)
        \/ \E g \in Fibers : Spawn(f, g) \/ SpawnBadArguments(f, g)
        \/ \E p \in Futures, kind \in FutureKinds :
             \E items \in Items(kind) : CreateFuture(f, p, kind, items)
    BY DEF OtherInstruction
  <1>a. Budgeted(f) => agenda = <<>>
    BY DEF Budgeted, Executing
  <1>2. CASE \/ CallFunction(f) \/ TryBegin(f) \/ TryEnd(f)
             \/ \E g \in Fibers : Spawn(f, g) \/ SpawnBadArguments(f, g)
             \/ \E p \in Futures, kind \in FutureKinds :
                  \E items \in Items(kind) : CreateFuture(f, p, kind, items)
    <2>1. BlockedInv' /\ WakersInv'
      BY <1>2, PlainInstructions
    <2>2. agenda' = <<>>
      BY <1>2, <1>a DEF CallFunction, TryBegin, TryEnd, Spawn, SpawnBadArguments, CreateFuture
    <2> QED BY <2>1, <2>2, NoCalls DEF AnswersInv
  <1>3. CASE CallBadArguments(f) \/ Throw(f)
    <2>1. BlockedInv' /\ WakersInv' /\ ~Blocked(f)' /\ fstate'[f] = "Running"
      BY <1>3, PlainInstructions
    <2>2. PICK e \in Control : agenda' = <<Do("error", f), Do(e, f)>>
      BY <1>3 DEF CallBadArguments, Throw, Control
    <2> QED BY <2>1, <2>2, LastCalls DEF AnswersInv
  <1>4. CASE Return(f)
    <2>1. BlockedInv' /\ WakersInv' /\ ~Blocked(f)' /\ fstate'[f] = "Running"
      BY <1>4, PlainInstructions
    <2>2. PICK k, l : k = Do("kill", f) /\ l = Do("leave", f)
      OBVIOUS
    <2>3. agenda' = (IF Len(frames[f]) = 1 THEN <<k>> ELSE <<>>) \o <<l>>
      BY <1>4, <2>2 DEF Return
    <2>4. CASE Len(frames[f]) = 1
      <3>1. agenda' = <<k>> \o <<l>>
        BY <2>3, <2>4
      <3>2. agenda' = <<Do("kill", f), Do("leave", f)>>
        BY <2>2, <3>1, JoinOne
      <3> QED BY <2>1, <3>2, LastCalls DEF AnswersInv, Control
    <2>5. CASE Len(frames[f]) # 1
      <3>1. agenda' = <<l>>
        BY <2>3, <2>5
      <3>2. l.op = "leave"
        BY <2>2 DEF Do, Call
      <3>3. CallOK(l)'
        BY <3>2 DEF CallOK
      <3> QED BY <2>1, <3>1, <3>2, <3>3, OneCall DEF AnswersInv
    <2> QED BY <2>4, <2>5
  <1>5. CASE Yield(f)
    <2>1. BlockedInv' /\ WakersInv' /\ ~Blocked(f)'
      BY <1>5, PlainInstructions
    <2>2. PICK a, b, c : a = Do("settle", f) /\ b = Do("detach", f) /\ c = Do("leave", f)
      OBVIOUS
    <2>3. /\ a.op = "settle" /\ a.who = f /\ b.op = "detach" /\ b.who = f /\ c.op = "leave"
      BY <2>2 DEF Do, Call
    <2>4. agenda' = <<a, b, c>>
      BY <1>5, <2>2 DEF Yield
    <2>5. /\ DOMAIN agenda' = 1..3 /\ Len(agenda') = 3
          /\ agenda'[1] = a /\ agenda'[2] = b /\ agenda'[3] = c
          /\ \A i \in 1..3 : i = 1 \/ i = 2 \/ i = 3
      BY <2>4
    <2>6. Entries' = {a, b, c}
      BY <2>5 DEF Entries, ToSet
    <2>7. CallsOK'
      BY <2>1, <2>2, <2>3, <2>6 DEF CallsOK, CallOK
    <2>8. PlacesOK'
      BY <2>2, <2>3, <2>5 DEF PlacesOK, PlaceOK
    <2> QED BY <2>1, <2>7, <2>8 DEF AnswersInv
  <1> QED BY <1>1, <1>2, <1>3, <1>4, <1>5

\* In the initial state nobody is blocked.
LEMMA AnswersInit == Init => AnswersInv
  <1> SUFFICES ASSUME Init PROVE AnswersInv
    OBVIOUS
  <1>1. /\ agenda = <<>> /\ waiting = [f \in Fibers |-> None]
        /\ wakers = [o \in Objs |-> <<>>] /\ pstat = [o \in Objs |-> "New"]
    BY DEF Init
  <1>2. Entries = {} /\ DOMAIN agenda = {}
    BY <1>1 DEF Entries, ToSet
  <1>3. BlockedInv
    BY <1>1 DEF BlockedInv, Blocked, HasResult, Objs
  <1>4. WakersInv
    BY <1>1 DEF WakersInv, ToSet
  <1> QED BY <1>2, <1>3, <1>4 DEF AnswersInv, CallsOK, PlacesOK

\* Every step keeps the invariant, if its Await spares the blocked fibers.
LEMMA SparingStep ==
  ASSUME SchedulingInv, AnswersInv,
         \/ UNCHANGED vars \/ Calls \/ Loop
         \/ \E f \in Fibers : Evaluate(f) \/ OtherInstruction(f)
         \/ \E f \in Fibers : \E x \in Objs \cup {None} : Await(f, x) /\ Spares(f, x)
  PROVE  AnswersInv'
  <1>1. CASE UNCHANGED vars
    <2>1. UNCHANGED <<fstate, waiting, pstat, wakers, fut, agenda>>
      BY <1>1 DEF vars, fiberVars, promiseVars
    <2>2. BlockedInv' /\ WakersInv'
      BY <2>1 DEF AnswersInv, BlockedInv, WakersInv, Blocked, HasResult, Allocated, Entries, Delivers
    <2>3. \A x : Harmless(x)' <=> Harmless(x)
      BY <2>1 DEF Harmless, Blocked
    <2>4. CallsOK'
      BY <2>1, <2>3 DEF AnswersInv, CallsOK, CallOK, Entries, Blocked, HasResult
    <2>5. PlacesOK'
      BY <2>1 DEF AnswersInv, PlacesOK, PlaceOK, Entries, Delivers, Blocked, HasResult
    <2> QED BY <2>2, <2>4, <2>5 DEF AnswersInv
  <1>2. CASE \E f \in Fibers : \E x \in Objs \cup {None} : Await(f, x) /\ Spares(f, x)
    BY <1>2, AwaitAnswers
  <1> QED BY <1>1, <1>2, CallsAnswer, LoopAnswers, InstructionsAnswer, EvaluateAnswers

\* So every step does as long as scripts do not await blocked fibers.
LEMMA AnswersNext ==
  ASSUME AwaitsBlocked = FALSE
  PROVE  SchedulingInv /\ AnswersInv /\ [Next]_vars => AnswersInv'
  <1> SUFFICES ASSUME SchedulingInv, AnswersInv, [Next]_vars PROVE AnswersInv'
    OBVIOUS
  <1>1. CASE UNCHANGED vars
    BY <1>1, SparingStep
  <1>2. CASE Instructions
    <2>1. PICK f \in Fibers : OtherInstruction(f) \/ \E x \in Objs \cup {None} : Await(f, x)
      BY <1>2 DEF Instructions, OtherInstruction
    <2>2. \A x : Await(f, x) => Spares(f, x)
      BY DEF Await
    <2> QED BY <2>1, <2>2, SparingStep
  <1>3. CASE Calls \/ Loop \/ \E f \in Fibers : Evaluate(f)
    BY <1>3, SparingStep
  <1> QED BY <1>1, <1>2, <1>3 DEF Next, Step

\* No lost wake-up: whatever resolves, rejects, times out, dies or throws, a fiber
\* that is blocked in an await is suspended, and its waker is stored with the
\* pending promise or its call is on its way.
THEOREM NoLostWakeUp ==
  ASSUME AwaitsBlocked = FALSE
  PROVE  Spec => []BlockedIsOwedAnswer
  <1>1. AnswersInv => BlockedIsOwedAnswer
    BY DEF AnswersInv, BlockedInv, BlockedIsOwedAnswer, Blocked, Delivers, Entries, ToSet
  <1> QED BY <1>1, Scheduling, AnswersInit, AnswersNext, PTL DEF Spec

\* What the stored wakers are between two calls.
LEMMA WakersCounted == AnswersInv => OneWakerPerAwait
  <1> SUFFICES ASSUME AnswersInv, agenda = <<>>, NEW f \in Fibers
               PROVE  Registrations(f) = IF waiting[f] = None THEN 0 ELSE 1
    BY DEF OneWakerPerAwait
  <1>1. Entries = {} /\ Delivers(f) = {}
    BY DEF Entries, ToSet, Delivers
  <1>2. PICK R : R = UNION {{<<x, i>> : i \in {j \in DOMAIN wakers[x] : wakers[x][j] = f}} : x \in Objs}
    OBVIOUS
  <1>3. \A e : e \in R <=> \E x \in Objs : \E i \in DOMAIN wakers[x] : wakers[x][i] = f /\ e = <<x, i>>
    BY <1>2
  <1>4. \A x \in Objs : \A i \in DOMAIN wakers[x] : wakers[x][i] = f => waiting[f] = x
    <2>1. \A x \in Objs : \A i \in DOMAIN wakers[x] : wakers[x][i] \in ToSet(wakers[x])
      BY DEF ToSet
    <2> QED BY <1>1, <2>1 DEF AnswersInv, WakersInv
  <1>5. CASE waiting[f] = None
    <2>1. R = {}
      BY <1>3, <1>4, <1>5, ObjsAssumption
    <2> QED BY <1>2, <1>5, <2>1, FS_EmptySet DEF Registrations
  <1>6. CASE waiting[f] # None
    <2>1. waiting[f] \in Objs /\ f \in ToSet(wakers[waiting[f]])
      BY <1>1, <1>6 DEF AnswersInv, BlockedInv, Blocked, Allocated, Objs
    <2>2. PICK i \in DOMAIN wakers[waiting[f]] : wakers[waiting[f]][i] = f
      BY <2>1 DEF ToSet
    <2>3. \A j \in DOMAIN wakers[waiting[f]] : wakers[waiting[f]][j] = f => i = j
      BY <2>1, <2>2 DEF AnswersInv, WakersInv
    <2>4. R = {<<waiting[f], i>>}
      BY <1>3, <1>4, <2>1, <2>2, <2>3
    <2> QED BY <1>2, <1>6, <2>4, FS_Singleton DEF Registrations
  <1> QED BY <1>5, <1>6

\* No stale waker: between two instructions or turns of the loop a blocked fiber
\* has one waker, with the promise it awaits, and any other fiber has none.
THEOREM NoStaleWaker ==
  ASSUME AwaitsBlocked = FALSE
  PROVE  Spec => []OneWakerPerAwait
  BY WakersCounted, Scheduling, AnswersInit, AnswersNext, PTL DEF Spec

(***************************************************************************)
(* A normal return.                                                        *)
(***************************************************************************)

\* Run returns normally only from the end of a sweep.
LEMMA CleanNext ==
  SchedulingInv /\ KeptInv /\ AnswersInv /\ CleanInv /\ [Next]_vars => CleanInv'
  <1> SUFFICES ASSUME SchedulingInv, KeptInv, AnswersInv, CleanInv, [Next]_vars PROVE CleanInv'
    OBVIOUS
  <1> USE DEF fiberVars, promiseVars, schedVars, sweepVars, loopVars
  <1>0. /\ TypeOK /\ RunnableQueued /\ fibres \in Seq(Fibers) /\ kept \in Seq(Fibers)
        /\ scan \in Nat \ {0} /\ ToSet(kept) \subseteq Fibers
    BY DEF SchedulingInv, TypeOK, ToSet
  <1>1. CASE UNCHANGED vars
    BY <1>1 DEF vars, CleanInv, NormalReturnIsClean
  <1>2. CASE phase = "host" /\ Next
    <2>1. agenda = <<>>
      BY <1>2 DEF SchedulingInv, AgendaShape
    <2>2. PICK f \in Fibers : Evaluate(f)
      <3>1. ~Calls /\ ~Loop
        BY <1>2, <2>1 DEF Calls, AwaitCall, DeliverToFiber, DeliverToFuture, Arrived, Settle,
           Woken, Bump, MicroTask, ResumeAwaited, RaiseError, Kill, KillDead, Bury, Detach,
           LoopTail, Leave, Running, Loop, FireTimer, NextTask, SweepKeep, SweepErase,
           SweepThrow, SweepDone
      <3> QED BY <1>2, <3>1, InstructionsExecute DEF Next, Step
    <2>3. phase' = "drain" /\ kept' = <<>>
      BY <1>2, <2>2 DEF Evaluate, KeptInv, SweepInv
    <2> QED BY <2>3 DEF CleanInv, NormalReturnIsClean, ToSet
  <1>3. CASE phase \in {"drain", "exec"} /\ Next
    <2>1. kept' = <<>>
      BY <1>3, NotSweeping DEF KeptInv, SweepInv
    <2>2. phase' = "host" => outcome' = "LogicError"
      BY <1>3 DEF Next, Step, Calls, AwaitCall, DeliverToFiber, DeliverToFuture, Arrived, Settle,
         Woken, Bump, MicroTask, ResumeAwaited, RaiseError, Kill, KillDead, Bury, Detach,
         LoopTail, Leave, Loop, FireTimer, NextTask, RunOrSkip, Execute, Skip, SweepKeep,
         SweepErase, SweepThrow, SweepDone, Instructions, CallFunction, CallBadArguments, Throw,
         TryBegin, TryEnd, Return, Yield, Spawn, SpawnBadArguments, CreateFuture, Await, Evaluate
    <2> QED BY <2>1, <2>2 DEF CleanInv, NormalReturnIsClean, ToSet
  <1>4. CASE phase = "sweep" /\ Next
    <2>0. SweepKeep \/ SweepErase \/ SweepThrow \/ SweepDone
      BY <1>4, OnlySweeping
    <2>1. CASE SweepKeep
      <3>1. scan \in 1..Len(fibres) /\ fibres[scan] \in Fibers
        BY <1>0, <2>1 DEF SweepKeep
      <3>2. ToSet(kept') = ToSet(kept) \cup {fibres[scan]}
        BY <1>0, <2>1, <3>1, ElementsOf DEF SweepKeep
      <3> QED BY <1>4, <2>1, <3>2 DEF SweepKeep, CleanInv, NormalReturnIsClean
    <2>2. CASE SweepErase
      BY <1>4, <2>2 DEF SweepErase, CleanInv, NormalReturnIsClean
    <2>3. CASE SweepThrow
      BY <2>3 DEF SweepThrow, CleanInv, NormalReturnIsClean, ToSet
    <2>4. CASE SweepDone
      <3>1. kept' = <<>> /\ fibres' = kept /\ UNCHANGED <<fstate, waiting>>
        BY <2>4 DEF SweepDone
      <3>2. ASSUME phase' = "host", NEW f \in Fibers
            PROVE  /\ waiting[f] = None /\ fstate[f] # "Running"
                   /\ fstate[f] = "Dead" => f \notin ToSet(kept)
        <4>1. microq = <<>> /\ runq = <<>> /\ ~SomePending
          BY <2>4, <3>2 DEF SweepDone
        <4>2. agenda = <<>> /\ cur = None
          BY <1>4 DEF SchedulingInv, AgendaShape
        <4>3. waiting[f] = None
          <5>1. Delivers(f) = {}
            BY <4>2 DEF Delivers, Entries, ToSet
          <5>2. ASSUME Blocked(f) PROVE FALSE
            BY <4>1, <5>1, <5>2 DEF AnswersInv, BlockedInv, SomePending, Allocated, Objs
          <5> QED BY <5>2 DEF Blocked
        <4>4. fstate[f] # "Running"
          BY <1>0, <4>1, <4>2, ObjsAssumption DEF RunnableQueued, Queued, ToSet, Objs
        <4> QED BY <4>3, <4>4 DEF CleanInv
      <3> QED BY <3>1, <3>2 DEF CleanInv, NormalReturnIsClean, ToSet
    <2> QED BY <2>0, <2>1, <2>2, <2>3, <2>4
  <1> QED BY <1>0, <1>1, <1>2, <1>3, <1>4 DEF SchedulingInv, TypeOK

\* When Run returns normally nothing is left behind: no fiber is blocked or
\* runnable, and every dead one has been swept (the condition of the loop in VM::Run).
THEOREM NothingLeftBehind ==
  ASSUME AwaitsBlocked = FALSE
  PROVE  Spec => []NormalReturnIsClean
  <1>1. Init => CleanInv
    BY DEF Init, CleanInv, NormalReturnIsClean, ToSet
  <1>2. CleanInv => NormalReturnIsClean
    BY DEF CleanInv
  <1>3. KeptInv /\ KnownInv /\ SchedulingInv /\ [Next]_vars => KeptInv'
    BY CompleteNext, SettledNext, SweepNext DEF KeptInv
  <1> QED BY <1>1, <1>2, <1>3, ResultsInit, KnownNext, Scheduling, AnswersInit, AnswersNext,
             CleanNext, PTL DEF Spec

(***************************************************************************)
(* Futures.  What is counted is the calls in progress and the wakers that  *)
(* are stored; most calls move some of the former (Moves, QuietFed), and   *)
(* only four move between the two: an await that stores a waker            *)
(* (StoreFed), a promise that gets its result (FirstResultFed), an item    *)
(* that reaches its gather (ArrivedFed) and the creation of a future.      *)
(***************************************************************************)

\* The calls for a future in two sequences, one behind the other.
LEMMA ComingSplit ==
  ASSUME NEW S, NEW s \in Seq(S), NEW t \in Seq(S), NEW p
  PROVE  /\ Due(s, p) \in Nat /\ Due(t, p) \in Nat
         /\ Due(s \o t, p) = Due(s, p) + Due(t, p)
         /\ Due(s, p) = 0 <=> Coming(s, p) = {}
         /\ Due(t, p) = 0 <=> Coming(t, p) = {}
         /\ Due(s \o t, p) = 0 <=> Coming(s \o t, p) = {}
  <1>1. ASSUME NEW q \in Seq(S)
        PROVE  /\ IsFiniteSet(Coming(q, p)) /\ Due(q, p) \in Nat
               /\ Due(q, p) = 0 <=> Coming(q, p) = {}
    <2>1. PICK k \in Nat : k = Len(q) /\ DOMAIN q = 1..k
      BY LenProperties
    <2>3. Coming(q, p) \in SUBSET (1..k) /\ IsFiniteSet(1..k)
      BY <2>1, FS_Interval DEF Coming
    <2>2. IsFiniteSet(Coming(q, p))
      BY <2>3, FS_Subset
    <2> QED BY <2>2, FS_CardinalityType, FS_EmptySet DEF Due
  <1>2. PICK n \in Nat, m \in Nat, st \in Seq(S) : n = Len(s) /\ m = Len(t) /\ st = s \o t
    BY ConcatProperties, LenProperties
  <1>3. /\ DOMAIN st = 1..n + m /\ DOMAIN s = 1..n /\ DOMAIN t = 1..m
        /\ \A i \in 1..n : st[i] = s[i]
        /\ \A i \in 1..m : st[i + n] = t[i]
    <2>1. \A i \in 1..n + m : st[i] = IF i <= n THEN s[i] ELSE t[i - n]
      BY <1>2, ConcatProperties
    <2>2. \A i \in 1..m : i + n \in 1..n + m /\ ~(i + n <= n) /\ i + n - n = i
      OBVIOUS
    <2>3. \A i \in 1..n : i \in 1..n + m /\ i <= n
      OBVIOUS
    <2>4. Len(st) = n + m
      BY <1>2, ConcatProperties
    <2> QED BY <1>2, <2>1, <2>2, <2>3, <2>4, LenProperties
  <1> DEFINE A == Coming(s, p)
             B == Coming(t, p)
             B2 == {j \in n + 1..n + m : Feeds(st[j], p)}
             shift == [i \in B |-> i + n]
  <1>4. Coming(st, p) = A \cup B2 /\ A \cap B2 = {}
    <2>1. 1..n + m = 1..n \cup (n + 1)..(n + m) /\ 1..n \cap (n + 1)..(n + m) = {}
      OBVIOUS
    <2>2. A = {i \in 1..n : Feeds(st[i], p)}
      BY <1>3 DEF Coming
    <2>3. Coming(st, p) = {i \in 1..n + m : Feeds(st[i], p)}
      BY <1>3 DEF Coming
    <2> QED BY <2>1, <2>2, <2>3
  <1>5. shift \in Bijection(B, B2)
    <2>1. B \subseteq 1..m
      BY <1>3 DEF Coming
    <2>2. \A i \in B : i + n \in B2
      BY <1>3, <2>1 DEF Coming
    <2>3. \A j \in B2 : j - n \in B /\ j - n + n = j
      <3>1. \A j \in B2 : j - n \in 1..m /\ j - n + n = j
        OBVIOUS
      <3> QED BY <1>3, <3>1 DEF Coming
    <2>4. shift \in [B -> B2]
      BY <2>2
    <2>5. \A i, k \in B : i + n = k + n => i = k
      BY <2>1
    <2>6. IsInjective(shift)
      BY <2>5 DEF IsInjective
    <2>7. \A j \in B2 : \E i \in B : shift[i] = j
      BY <2>3
    <2> QED BY <2>4, <2>6, <2>7 DEF Bijection, Injection, Surjection
  <1>6. IsFiniteSet(A) /\ IsFiniteSet(B)
    BY <1>1
  <1>7. IsFiniteSet(B2) /\ Cardinality(B2) = Cardinality(B)
    BY <1>5, <1>6, FS_Bijection DEF ExistsBijection
  <1>8. Cardinality(A \cup B2) = Cardinality(A) + Cardinality(B)
    <2>1. /\ Cardinality(A) \in Nat /\ Cardinality(B) \in Nat
          /\ Cardinality(A \cap B2) = 0
      BY <1>1, <1>4, FS_EmptySet DEF Due
    <2>2. Cardinality(A \cup B2) = Cardinality(A) + Cardinality(B2) - Cardinality(A \cap B2)
      BY <1>6, <1>7, FS_Union
    <2> QED BY <1>7, <2>1, <2>2
  <1> QED BY <1>1, <1>2, <1>4, <1>8 DEF Due

\* The calls for a future among those of a sequence.
LEMMA DueOf ==
  ASSUME NEW s \in Seq(CallSet), NEW p
  PROVE  (\A c \in ToSet(s) : ~Feeds(c, p)) => Due(s, p) = 0
  BY FS_EmptySet DEF Due, Coming, ToSet

\* Whether a single call is one of them.
LEMMA DueOfOne ==
  ASSUME NEW c, NEW p
  PROVE  Due(<<c>>, p) = IF Feeds(c, p) THEN 1 ELSE 0
  <1>1. DOMAIN <<c>> = {1} /\ <<c>>[1] = c
    OBVIOUS
  <1>2. Coming(<<c>>, p) = IF Feeds(c, p) THEN {1} ELSE {}
    BY <1>1 DEF Coming
  <1> QED BY <1>2, FS_EmptySet, FS_Singleton DEF Due

\* The calls T at the head of the agenda are replaced by X.
Moves(T, X, R) ==
  /\ T \in Seq(CallSet) /\ X \in Seq(CallSet) /\ R \in Seq(CallSet)
  /\ agenda = T \o R /\ agenda' = X \o R

\* The elements of two sequences, one behind the other.
LEMMA ConcatSet ==
  ASSUME NEW S, NEW s \in Seq(S), NEW t \in Seq(S)
  PROVE  ToSet(s \o t) = ToSet(s) \cup ToSet(t)
  <1>1. PICK n \in Nat, m \in Nat, st \in Seq(S) : n = Len(s) /\ m = Len(t) /\ st = s \o t
    BY ConcatProperties, LenProperties
  <1>2. DOMAIN st = 1..n + m /\ DOMAIN s = 1..n /\ DOMAIN t = 1..m
    BY <1>1, ConcatProperties, LenProperties
  <1>3. \A i \in 1..n + m : st[i] = IF i <= n THEN s[i] ELSE t[i - n]
    BY <1>1, ConcatProperties
  <1>4. ASSUME NEW e \in ToSet(st) PROVE e \in ToSet(s) \cup ToSet(t)
    <2>1. PICK i \in 1..n + m : e = st[i]
      BY <1>2, <1>4 DEF ToSet
    <2>2. CASE i <= n
      <3>1. i \in 1..n
        BY <2>2
      <3> QED BY <1>2, <1>3, <2>1, <2>2, <3>1 DEF ToSet
    <2>3. CASE ~(i <= n)
      <3>1. i - n \in 1..m
        BY <2>3
      <3> QED BY <1>2, <1>3, <2>1, <2>3, <3>1 DEF ToSet
    <2> QED BY <2>2, <2>3
  <1>5. ASSUME NEW e \in ToSet(s) PROVE e \in ToSet(st)
    <2>1. PICK i \in 1..n : e = s[i]
      BY <1>2, <1>5 DEF ToSet
    <2>2. i \in 1..n + m /\ i <= n
      OBVIOUS
    <2> QED BY <1>2, <1>3, <2>1, <2>2 DEF ToSet
  <1>6. ASSUME NEW e \in ToSet(t) PROVE e \in ToSet(st)
    <2>1. PICK i \in 1..m : e = t[i]
      BY <1>2, <1>6 DEF ToSet
    <2>2. PICK k \in 1..n + m : k = i + n /\ ~(k <= n) /\ k - n = i
      OBVIOUS
    <2>3. st[k] = e
      BY <1>3, <2>1, <2>2
    <2> QED BY <1>2, <2>3 DEF ToSet
  <1> QED BY <1>1, <1>4, <1>5, <1>6

\* A sequence that is not empty is its head and its tail.
LEMMA HeadTailConcat ==
  ASSUME NEW S, NEW s \in Seq(S), s # <<>>
  PROVE  s = <<Head(s)>> \o Tail(s)
  OBVIOUS

\* What such a step changes in the agenda.
LEMMA MovedCalls ==
  ASSUME NEW T, NEW X, NEW R, Moves(T, X, R)
  PROVE  /\ Entries = ToSet(T) \cup ToSet(R) /\ Entries' = ToSet(X) \cup ToSet(R)
         /\ \A p : /\ Due(agenda, p) = Due(T, p) + Due(R, p)
                   /\ Due(agenda, p)' = Due(X, p) + Due(R, p)
                   /\ Due(T, p) \in Nat /\ Due(X, p) \in Nat /\ Due(R, p) \in Nat
                   /\ Due(agenda, p) = 0 <=> Coming(agenda, p) = {}
                   /\ Due(agenda, p)' = 0 <=> Coming(agenda, p)' = {}
  <1>1. Entries = ToSet(T) \cup ToSet(R) /\ Entries' = ToSet(X) \cup ToSet(R)
    BY ConcatSet DEF Moves, Entries
  <1>2. ASSUME NEW p
        PROVE  /\ Due(agenda, p) = Due(T, p) + Due(R, p)
               /\ Due(agenda, p)' = Due(X, p) + Due(R, p)
               /\ Due(T, p) \in Nat /\ Due(X, p) \in Nat /\ Due(R, p) \in Nat
               /\ Due(agenda, p) = 0 <=> Coming(agenda, p) = {}
               /\ Due(agenda, p)' = 0 <=> Coming(agenda, p)' = {}
    <2>1. /\ Due(T, p) \in Nat /\ Due(X, p) \in Nat /\ Due(R, p) \in Nat
          /\ Due(T \o R, p) = Due(T, p) + Due(R, p)
          /\ Due(X \o R, p) = Due(X, p) + Due(R, p)
          /\ Due(T \o R, p) = 0 <=> Coming(T \o R, p) = {}
          /\ Due(X \o R, p) = 0 <=> Coming(X \o R, p) = {}
      BY ComingSplit DEF Moves
    <2>2. Due(agenda, p) = Due(T \o R, p) /\ Coming(agenda, p) = Coming(T \o R, p)
      BY DEF Moves
    <2>3. Due(agenda, p)' = Due(X \o R, p) /\ Coming(agenda, p)' = Coming(X \o R, p)
      BY DEF Moves, Due, Coming
    <2> QED BY <2>1, <2>2, <2>3
  <1> QED BY <1>1, <1>2

\* What keeps the wakers where they belong.
LEMMA StoresStay ==
  ASSUME StoresInv, NEW T, NEW X, NEW R, Moves(T, X, R),
         \A x \in Objs :
           /\ pstat'[x] = "New" => wakers'[x] = <<>>
           /\ HasResult(x)' => \/ wakers'[x] = <<>>
                               \/ Do("woken", x) \in ToSet(X)
                               \/ HasResult(x) /\ wakers'[x] = wakers[x]
           /\ Do("woken", x) \in ToSet(T) => wakers'[x] = <<>>,
         \A f \in Fibers : fstate'[f] = "Free" => fstate[f] = "Free" /\ pstat'[f] = pstat[f]
  PROVE  StoresInv'
  <1>1. Entries = ToSet(T) \cup ToSet(R) /\ Entries' = ToSet(X) \cup ToSet(R)
    BY MovedCalls
  <1>2. ASSUME NEW x \in Objs, HasResult(x)'
        PROVE  wakers'[x] = <<>> \/ Do("woken", x) \in Entries'
    <2>1. CASE HasResult(x) /\ wakers'[x] = wakers[x]
      BY <1>1, <2>1 DEF StoresInv
    <2> QED BY <1>1, <1>2, <2>1
  <1> QED BY <1>2 DEF StoresInv

\* What keeps the timers of pending futures.
LEMMA TimersStay ==
  ASSUME TimersInv, NEW T, NEW X, NEW R, Moves(T, X, R),
         \A p \in Futures :
           /\ pstat'[p] = "Pending" =>
                /\ fut'[p] = fut[p]
                /\ pstat[p] = "Pending" \/ (Timed(p) => p \in ToSet(timers'))
                /\ \A c \in ToSet(T) : ~(c.op = "settle" /\ c.who = p)
           /\ p \in ToSet(timers) =>
                p \in ToSet(timers') \/ \E c \in ToSet(X) : c.op = "settle" /\ c.who = p
  PROVE  TimersInv'
  <1>1. Entries = ToSet(T) \cup ToSet(R) /\ Entries' = ToSet(X) \cup ToSet(R)
    BY MovedCalls
  <1>2. ASSUME NEW p \in Futures, pstat'[p] = "Pending", fut'[p].kind \in {"sleep", "timeout"}
        PROVE  p \in ToSet(timers') \/ Settles(p)'
    <2>1. fut[p].kind \in {"sleep", "timeout"} /\ Timed(p)
      BY <1>2 DEF Timed
    <2>2. CASE Settles(p)
      BY <1>1, <1>2, <2>2 DEF Settles
    <2>3. CASE p \in ToSet(timers)
      BY <1>1, <2>3 DEF Settles
    <2> QED BY <1>2, <2>1, <2>2, <2>3 DEF TimersInv
  <1> QED BY <1>2 DEF TimersInv

\* What keeps every item of a race or a timeout on its way.
LEMMA ItemsStay ==
  ASSUME TypeOK, ItemsInv, NEW T, NEW X, NEW R, Moves(T, X, R),
         \A p \in Futures : pstat'[p] = "Pending" =>
           /\ fut'[p] = fut[p]
           /\ pstat[p] # "Pending" =>
                \A i \in DOMAIN fut[p].of :
                  \E c \in ToSet(X) : c.op = "await" /\ c.who = fut[p].of[i] /\ c.by = p
           /\ \A c \in ToSet(T) : ~(c.op = "settle" /\ c.who = p)
           /\ \A c \in ToSet(T) : fut[p].kind # "gather" /\ c.op = "deliver" /\ c.who = p =>
                \E d \in ToSet(X) : d.op = "settle" /\ d.who = p
           /\ \A c \in ToSet(T) : c.op = "await" /\ c.by = p =>
                \/ c.who \in Objs /\ pstat'[c.who] = "Pending" /\ p \in ToSet(wakers'[c.who])
                \/ \E d \in ToSet(X) : d.op = "deliver" /\ d.who = p
           /\ \A x \in Objs : pstat[x] = "Pending" /\ p \in ToSet(wakers[x]) =>
                \/ pstat'[x] = "Pending" /\ p \in ToSet(wakers'[x])
                \/ \E d \in ToSet(X) : d.op = "deliver" /\ d.who = p
  PROVE  ItemsInv'
  <1>1. Entries = ToSet(T) \cup ToSet(R) /\ Entries' = ToSet(X) \cup ToSet(R)
    BY MovedCalls
  <1>2. ASSUME NEW p \in Futures, pstat'[p] = "Pending", fut'[p].kind # "gather",
               NEW i \in DOMAIN fut'[p].of, NEW x, x = fut[p].of[i]
        PROVE  Fed(p, x)'
    <2>1. /\ fut'[p] = fut[p] /\ i \in DOMAIN fut[p].of /\ fut[p].kind # "gather"
          /\ x \in Objs \cup {None}
      BY <1>2 DEF TypeOK
    <2>2. CASE pstat[p] # "Pending"
      BY <1>1, <1>2, <2>1, <2>2 DEF Fed
    <2>3. CASE pstat[p] = "Pending"
      <3>1. Fed(p, x)
        BY <1>2, <2>1, <2>3 DEF ItemsInv
      <3>2. CASE x # None /\ pstat[x] = "Pending" /\ p \in ToSet(wakers[x])
        BY <1>1, <1>2, <2>1, <3>2 DEF Fed
      <3>3. ASSUME NEW c \in Entries, c.op = "await", c.who = x, c.by = p PROVE Fed(p, x)'
        <4>1. CASE c \in ToSet(R)
          BY <1>1, <3>3, <4>1 DEF Fed
        <4>2. CASE c \in ToSet(T)
          <5>1. x \in Objs => x # None
            BY ObjsAssumption
          <5> QED BY <1>1, <1>2, <3>3, <4>2, <5>1 DEF Fed
        <4> QED BY <1>1, <4>1, <4>2
      <3>4. ASSUME NEW c \in Entries, c.op = "deliver", c.who = p PROVE Fed(p, x)'
        <4>1. CASE c \in ToSet(R)
          BY <1>1, <3>4, <4>1 DEF Fed
        <4>2. CASE c \in ToSet(T)
          BY <1>1, <1>2, <2>1, <3>4, <4>2 DEF Fed, Settles
        <4> QED BY <1>1, <4>1, <4>2
      <3>5. CASE Settles(p)
        BY <1>1, <1>2, <3>5 DEF Fed, Settles
      <3> QED BY <3>1, <3>2, <3>3, <3>4, <3>5 DEF Fed
    <2> QED BY <2>2, <2>3
  <1> QED BY <1>2 DEF ItemsInv

\* The stored wakers of a future.
LEMMA StoredWakers ==
  ASSUME NEW p
  PROVE  \A e : e \in Stored(p) <=>
           \E x \in Objs : \E i \in DOMAIN wakers[x] :
             ~HasResult(x) /\ wakers[x][i] = p /\ e = <<x, i>>
  BY DEF Stored, StoredAt

\* They are the same after a step that only clears or settles what has no wakers.
LEMMA StoredSame ==
  ASSUME \A x \in Objs :
           \/ (HasResult(x)' <=> HasResult(x)) /\ wakers'[x] = wakers[x]
           \/ /\ HasResult(x)' \/ wakers'[x] = <<>>
              /\ HasResult(x) \/ wakers[x] = <<>>,
         NEW p
  PROVE  Stored(p)' = Stored(p)
  <1>1. \A x \in Objs : ~HasResult(x) => StoredAt(x, p)' = StoredAt(x, p) \/ StoredAt(x, p) = {}
    BY DEF StoredAt
  <1>2. ASSUME NEW x \in Objs
        PROVE  (~HasResult(x) /\ StoredAt(x, p) # {} <=> ~HasResult(x)' /\ StoredAt(x, p)' # {})
               /\ (~HasResult(x) /\ StoredAt(x, p) # {} => StoredAt(x, p)' = StoredAt(x, p))
    BY <1>2 DEF StoredAt
  <1>3. Stored(p)' \subseteq Stored(p)
    BY <1>2 DEF Stored
  <1>4. Stored(p) \subseteq Stored(p)'
    BY <1>2 DEF Stored
  <1> QED BY <1>3, <1>4

\* The count of a gather is right as long as no more and no less is coming.
LEMMA CountStays ==
  ASSUME NEW p \in Futures, CountOK(p), NEW T, NEW X, NEW R, Moves(T, X, R),
         left'[p] = left[p], fut'[p] = fut[p], pstat'[p] = pstat[p], Stored(p)' = Stored(p),
         Due(X, p) = Due(T, p),
         pstat[p] = "Pending" => \A c \in ToSet(T) : ~(c.op = "settle" /\ c.who = p)
  PROVE  CountOK(p)'
  <1>1. /\ Entries = ToSet(T) \cup ToSet(R) /\ Entries' = ToSet(X) \cup ToSet(R)
        /\ Due(agenda, p)' = Due(agenda, p)
        /\ Due(agenda, p) = 0 <=> Coming(agenda, p) = {}
        /\ Due(agenda, p)' = 0 <=> Coming(agenda, p)' = {}
    BY MovedCalls
  <1>2. pstat[p] = "Pending" /\ Settles(p) => Settles(p)'
    BY <1>1 DEF Settles
  <1> QED BY <1>1, <1>2 DEF CountOK

\* A step that stores no waker with a pending promise, settles none, and replaces
\* the calls for a future by as many.
LEMMA QuietFed ==
  ASSUME TypeOK, FedInv, NEW T, NEW X, NEW R, Moves(T, X, R), UNCHANGED <<fut, left>>,
         \A p \in Futures : pstat'[p] = pstat[p],
         \A x \in Objs :
           \/ pstat'[x] = pstat[x] /\ wakers'[x] = wakers[x]
           \/ /\ pstat[x] # "Pending" /\ pstat'[x] # "Pending"
              /\ HasResult(x) \/ wakers[x] = <<>>
              /\ wakers'[x] = <<>>,
         \A x \in Objs : Do("woken", x) \in ToSet(T) => wakers'[x] = <<>>,
         \A f \in Fibers : fstate'[f] = "Free" => fstate[f] = "Free" /\ pstat'[f] = pstat[f],
         \A p \in ToSet(timers) :
           p \in ToSet(timers') \/ \E c \in ToSet(X) : c.op = "settle" /\ c.who = p,
         \A c \in ToSet(T) : c.op = "settle" => HasResult(c.who),
         \A p \in Futures : fut[p].kind = "gather" => Due(X, p) = Due(T, p),
         \A p \in Futures, c \in ToSet(T) :
           /\ fut[p].kind # "gather" /\ c.op = "deliver" /\ c.who = p =>
                \E d \in ToSet(X) : d.op = "settle" /\ d.who = p
           /\ c.op = "await" /\ c.by = p => \E d \in ToSet(X) : d.op = "deliver" /\ d.who = p
  PROVE  FedInv'
  <1>1. \A p \in Futures, c \in ToSet(T) :
          pstat'[p] = "Pending" => ~(c.op = "settle" /\ c.who = p)
    BY DEF HasResult
  <1>2. StoresInv'
    <2>1. \A x \in Objs : pstat'[x] = "New" => wakers'[x] = <<>>
      BY DEF FedInv, StoresInv
    <2>2. \A x \in Objs : HasResult(x)' =>
            wakers'[x] = <<>> \/ (HasResult(x) /\ wakers'[x] = wakers[x])
      BY DEF HasResult
    <2> QED BY <2>1, <2>2, StoresStay DEF FedInv
  <1>3. TimersInv'
    BY <1>1, TimersStay DEF FedInv
  <1>4. \A x \in Objs : pstat[x] = "Pending" => pstat'[x] = "Pending" /\ wakers'[x] = wakers[x]
    OBVIOUS
  <1>5. ItemsInv'
    BY <1>1, <1>4, ItemsStay DEF FedInv
  <1>6. ASSUME NEW p \in Futures, fut'[p].kind = "gather", ~HasResult(p)'
        PROVE  CountOK(p)'
    <2>1. fut[p].kind = "gather" /\ ~HasResult(p)
      BY <1>6 DEF HasResult
    <2>2. CountOK(p)
      BY <2>1 DEF FedInv, CountsInv
    <2>3. Stored(p)' = Stored(p)
      <3>1. \A x \in Objs :
              \/ (HasResult(x)' <=> HasResult(x)) /\ wakers'[x] = wakers[x]
              \/ /\ HasResult(x)' \/ wakers'[x] = <<>>
                 /\ HasResult(x) \/ wakers[x] = <<>>
        BY DEF HasResult
      <3> QED BY <3>1, StoredSame
    <2> QED BY <1>1, <2>1, <2>2, <2>3, CountStays
  <1> QED BY <1>2, <1>3, <1>5, <1>6 DEF FedInv, CountsInv

\* Calls that bring no item to anybody.
QuietCalls == {c \in CallSet : c.op \notin {"await", "deliver", "arrived"}}

\* So none of them is due to a future.
LEMMA QuietDue ==
  ASSUME NEW X \in Seq(QuietCalls)
  PROVE  X \in Seq(CallSet) /\ \A p : Due(X, p) = 0
  <1>1. X \in Seq(CallSet)
    BY SeqMonotonic DEF QuietCalls
  <1>2. \A c \in ToSet(X) : c \in QuietCalls
    BY DEF ToSet
  <1>3. \A p : \A c \in ToSet(X) : ~Feeds(c, p)
    BY <1>2 DEF QuietCalls, Feeds
  <1> QED BY <1>1, <1>3, DueOf

\* Nor do such calls and such steps change what feeds the futures.
LEMMA QuietCallsFed ==
  ASSUME TypeOK, FedInv, NEW T \in Seq(CallSet), NEW X \in Seq(QuietCalls), NEW R, Moves(T, X, R),
         UNCHANGED <<fut, left, pstat, wakers>>,
         \A f \in Fibers : fstate'[f] = "Free" => fstate[f] = "Free",
         \A p \in ToSet(timers) :
           p \in ToSet(timers') \/ \E c \in ToSet(X) : c.op = "settle" /\ c.who = p,
         \A c \in ToSet(T) :
           /\ c.op \notin {"await", "arrived", "woken"}
           /\ c.op = "deliver" => c.who \notin Futures
           /\ c.op = "settle" => HasResult(c.who)
  PROVE  FedInv'
  <1>1. \A p : Due(X, p) = 0
    BY QuietDue
  <1>2. \A p \in Futures : Due(T, p) = 0
    <2>1. \A p \in Futures : \A c \in ToSet(T) : ~Feeds(c, p)
      BY DEF Feeds
    <2> QED BY <2>1, DueOf
  <1>3. \A x : Do("woken", x) \notin ToSet(T)
    BY DEF Do, Call
  <1> QED BY <1>1, <1>2, <1>3, QuietFed

\* A call is replaced by the calls X.
LEMMA HeadMoves ==
  ASSUME TypeOK, agenda # <<>>, NEW X \in Seq(CallSet), agenda' = X \o Rest
  PROVE  /\ Moves(<<Top>>, X, Rest) /\ ToSet(<<Top>>) = {Top}
         /\ <<Top>> \in Seq(CallSet) /\ Top \in CallSet
  <1>1. agenda \in Seq(CallSet)
    BY DEF TypeOK
  <1>2. agenda = <<Top>> \o Rest /\ Top \in CallSet /\ Rest \in Seq(CallSet)
    BY <1>1, HeadTailProperties, HeadTailConcat DEF Top, Rest
  <1>3. <<Top>> \in Seq(CallSet) /\ ToSet(<<Top>>) = {Top}
    BY <1>2 DEF ToSet
  <1> QED BY <1>2, <1>3 DEF Moves

\* The same for a call that brings no item to a future.
LEMMA HeadFed ==
  ASSUME TypeOK, FedInv, agenda # <<>>, NEW X \in Seq(QuietCalls), agenda' = X \o Rest,
         UNCHANGED <<fut, left, pstat, wakers, timers>>,
         \A f \in Fibers : fstate'[f] = "Free" => fstate[f] = "Free",
         Top.op \notin {"await", "arrived", "woken"},
         Top.op = "deliver" => Top.who \notin Futures,
         Top.op = "settle" => HasResult(Top.who)
  PROVE  FedInv'
  <1>1. X \in Seq(CallSet)
    BY QuietDue
  <1>2. PICK T, R : T = <<Top>> /\ R = Rest
    OBVIOUS
  <1>3. Moves(T, X, R) /\ T \in Seq(CallSet) /\ ToSet(T) = {Top}
    BY <1>1, <1>2, HeadMoves
  <1> QED BY <1>3, QuietCallsFed

\* The calls that concern one fiber are of that kind.
LEMMA QuietDo ==
  ASSUME NEW op \in FiberOps, NEW f \in Fibers
  PROVE  Do(op, f) \in QuietCalls
  <1>1. Do(op, f) \in CallSet
    BY DoType
  <1> QED BY <1>1 DEF QuietCalls, Do, Call, FiberOps

\* The calls that only count, mark, queue, raise an error or end.
LEMMA SmallCallsFed ==
  ASSUME SchedulingInv, FedInv, Bump \/ MicroTask \/ ResumeAwaited \/ Bury \/ Leave
  PROVE  FedInv'
  <1> USE DEF fiberVars, promiseVars, schedVars, sweepVars, loopVars
  <1>1. PICK op \in {"bump", "micro", "task", "bury", "leave"} : Running(op)
    BY DEF Bump, MicroTask, ResumeAwaited, Bury, Leave
  <1>2. TypeOK /\ agenda # <<>> /\ Top.op = op /\ Top \in CallSet /\ Rest \in Seq(CallSet)
    BY <1>1, TopType DEF SchedulingInv, Running
  <1>3. agenda' = <<>> \o Rest /\ <<>> \in Seq(QuietCalls)
    BY <1>2 DEF Bump, MicroTask, ResumeAwaited, Bury, Leave
  <1>4. UNCHANGED <<fut, left, pstat, wakers, timers>>
    BY DEF Bump, MicroTask, ResumeAwaited, Bury, Leave
  <1>5. \A f \in Fibers : fstate'[f] = "Free" => fstate[f] = "Free"
    BY <1>2 DEF Bump, MicroTask, ResumeAwaited, Bury, Leave, TypeOK
  <1> QED BY <1>2, <1>3, <1>4, <1>5, HeadFed

\* An error is raised in a fiber.
LEMMA RaiseErrorFed ==
  ASSUME SchedulingInv, FedInv, RaiseError
  PROVE  FedInv'
  <1> USE DEF fiberVars, promiseVars, schedVars, sweepVars, loopVars
  <1>1. TypeOK /\ agenda # <<>> /\ Top.op = "error" /\ Top \in CallSet /\ Rest \in Seq(CallSet)
    BY TopType DEF SchedulingInv, RaiseError, Running
  <1>2. PICK f \in Fibers : f = Top.who
    BY <1>1 DEF CallSet, FiberOps
  <1>3. PICK k \in QuietCalls : k = Call("kill", f, None, "err")
    BY DEF QuietCalls, CallSet, Call, CallOps, FiberOps, Results, Objs
  <1>4. PICK X \in Seq(QuietCalls) : agenda' = X \o Rest
    <2>1. agenda' = <<k>> \o Rest \/ agenda' = Rest
      BY <1>1, <1>2, <1>3 DEF RaiseError
    <2>2. <<k>> \in Seq(QuietCalls) /\ <<>> \in Seq(QuietCalls) /\ <<>> \o Rest = Rest
      BY <1>1, ConcatEmptySeq
    <2> QED BY <2>1, <2>2
  <1>5. UNCHANGED <<fut, left, pstat, wakers, timers, fstate>>
    BY DEF RaiseError
  <1> QED BY <1>1, <1>4, <1>5, HeadFed

\* A fiber is killed.
LEMMA KillFed ==
  ASSUME SchedulingInv, FedInv, Kill
  PROVE  FedInv'
  <1> USE DEF fiberVars, promiseVars, schedVars, sweepVars, loopVars
  <1>1. TypeOK /\ agenda # <<>> /\ Top.op = "kill" /\ Top \in CallSet /\ Rest \in Seq(CallSet)
    BY TopType DEF SchedulingInv, Kill, Running
  <1>2. PICK f \in Fibers, r \in Results : f = Top.who /\ r = Top.res
    BY <1>1 DEF CallSet, FiberOps
  <1>3. Call("settle", f, None, r) \in QuietCalls /\ Do("bury", f) \in QuietCalls
    BY QuietDo DEF QuietCalls, CallSet, Call, CallOps, FiberOps, Objs
  <1>4. /\ agenda' = <<Call("settle", f, None, r), Do("bury", f)>> \o Rest
        /\ <<Call("settle", f, None, r), Do("bury", f)>> \in Seq(QuietCalls)
    BY <1>2, <1>3 DEF Kill
  <1>5. UNCHANGED <<fut, left, pstat, wakers, timers>> /\ fstate' = [fstate EXCEPT ![f] = "Dead"]
    BY <1>2 DEF Kill
  <1>6. \A g \in Fibers : fstate'[g] = "Free" => fstate[g] = "Free"
    BY <1>1, <1>5 DEF TypeOK
  <1> QED BY <1>1, <1>4, <1>5, <1>6, HeadFed

\* The error in a timer's callback that stops the loop drops no other call.
LEMMA KillDeadFed ==
  ASSUME SchedulingInv, AnswersInv, FedInv, KillDead
  PROVE  FedInv'
  <1> USE DEF fiberVars, promiseVars, schedVars, sweepVars, loopVars
  <1>1. /\ TypeOK /\ agenda # <<>> /\ Top.op = "kill"
        /\ PlaceOK(1) /\ Top = agenda[1] /\ 1 \in DOMAIN agenda
    BY TopFacts DEF KillDead
  <1>2. Len(agenda) = 2 /\ agenda[2].op = "leave"
    BY <1>1 DEF KillDead, PlaceOK
  <1>3. PICK T, X, R : T = agenda /\ X = <<>> /\ R = <<>>
    OBVIOUS
  <1>4. \A c \in ToSet(T) : c.op \in {"kill", "leave"}
    <2>1. DOMAIN agenda = 1..2 /\ \A i \in 1..2 : i = 1 \/ i = 2
      BY <1>1, <1>2 DEF TypeOK
    <2> QED BY <1>1, <1>2, <1>3, <2>1 DEF ToSet
  <1>5. T \in Seq(CallSet) /\ X \in Seq(QuietCalls) /\ Moves(T, X, R)
    BY <1>1, <1>3, ConcatEmptySeq DEF TypeOK, Moves, KillDead
  <1>6. UNCHANGED <<fut, left, pstat, wakers, timers, fstate>>
    BY DEF KillDead
  <1> QED BY <1>1, <1>4, <1>5, <1>6, QuietCallsFed

\* The bottom of ExecuteFiber's loop.
LEMMA LoopTailFed ==
  ASSUME SchedulingInv, FedInv, LoopTail
  PROVE  FedInv'
  <1> USE DEF fiberVars, promiseVars, schedVars, sweepVars, loopVars
  <1>1. TypeOK /\ agenda # <<>> /\ Top.op = "tail" /\ Top \in CallSet
    BY TopType DEF SchedulingInv, LoopTail, Running
  <1>2. Rest = <<>>
    BY <1>1, ControlAlone DEF SchedulingInv, Control, Top, Rest
  <1>3. PICK f \in Fibers : f = Top.who
    BY <1>1 DEF CallSet, FiberOps
  <1>4. PICK k \in QuietCalls, l \in QuietCalls : k = Do("kill", f) /\ l = Do("leave", f)
    BY QuietDo DEF FiberOps
  <1>5. PICK X \in Seq(QuietCalls) : agenda' = X
    <2>1. agenda' = <<k, l>> \/ agenda' = <<>> \/ agenda' = <<l>>
      BY <1>3, <1>4 DEF LoopTail
    <2>2. <<k, l>> \in Seq(QuietCalls) /\ <<>> \in Seq(QuietCalls) /\ <<l>> \in Seq(QuietCalls)
      OBVIOUS
    <2> QED BY <2>1, <2>2
  <1>6. agenda' = X \o Rest
    BY <1>2, <1>5, ConcatEmptySeq
  <1>7. UNCHANGED <<fut, left, pstat, wakers, timers, fstate>>
    BY DEF LoopTail
  <1> QED BY <1>1, <1>6, <1>7, HeadFed

\* A fiber gets its answer.
LEMMA DeliverToFiberFed ==
  ASSUME SchedulingInv, FedInv, DeliverToFiber
  PROVE  FedInv'
  <1> USE DEF fiberVars, promiseVars, schedVars, sweepVars, loopVars
  <1>1. TypeOK /\ agenda # <<>> /\ Top.op = "deliver" /\ Top \in CallSet
    BY TopType DEF SchedulingInv, DeliverToFiber, Running
  <1>2. PICK f, o : f \in Fibers /\ f = Top.who /\ o = Top.by
    BY DEF DeliverToFiber
  <1>3. PICK A, B, C : /\ A = IF Top.res = "err" THEN <<Do("error", f)>> ELSE <<>>
                       /\ B = <<Do("micro", f)>>
                       /\ C = IF o \in Fibers THEN <<Do("task", o)>> ELSE <<>>
    OBVIOUS
  <1>4. A \in Seq(QuietCalls) /\ B \in Seq(QuietCalls) /\ C \in Seq(QuietCalls)
    <2>1. \A e : e \in QuietCalls => <<e>> \in Seq(QuietCalls)
      OBVIOUS
    <2>2. Do("error", f) \in QuietCalls /\ Do("micro", f) \in QuietCalls
      BY <1>2, QuietDo DEF FiberOps
    <2>3. o \in Fibers => Do("task", o) \in QuietCalls
      BY QuietDo DEF FiberOps
    <2>4. <<>> \in Seq(QuietCalls)
      OBVIOUS
    <2> QED BY <1>3, <2>1, <2>2, <2>3, <2>4
  <1>5. agenda' = ((A \o B) \o C) \o Rest
    BY <1>2, <1>3 DEF DeliverToFiber
  <1>6. PICK X \in Seq(QuietCalls) : agenda' = X \o Rest
    BY <1>4, <1>5, ConcatProperties
  <1>7. UNCHANGED <<fut, left, pstat, wakers, timers, fstate>>
    BY DEF DeliverToFiber
  <1>8. Top.who \notin Futures
    BY <1>2, ObjsAssumption
  <1> QED BY <1>1, <1>6, <1>7, <1>8, HeadFed

\* A future gets an answer: a gather counts it next, the others are settled next.
LEMMA DeliverToFutureFed ==
  ASSUME SchedulingInv, FedInv, DeliverToFuture
  PROVE  FedInv'
  <1> USE DEF fiberVars, promiseVars, schedVars, sweepVars, loopVars
  <1>1. TypeOK /\ agenda # <<>> /\ Top.op = "deliver" /\ Top \in CallSet
    BY TopType DEF SchedulingInv, DeliverToFuture, Running
  <1>2. PICK p \in Futures, r \in Results : p = Top.who /\ r = Top.res
    BY <1>1 DEF DeliverToFuture, CallSet
  <1>3. PICK s, a : s = Call("settle", p, None, r) /\ a = Do("arrived", p)
    OBVIOUS
  <1>4. /\ s \in QuietCalls /\ s.op = "settle" /\ s.who = p
        /\ a \in CallSet /\ a.op = "arrived" /\ a.who = p
    BY <1>3 DEF QuietCalls, CallSet, Call, Do, CallOps, FiberOps, Results, Objs
  <1>5. PICK A, B : /\ A = IF fut[p].kind # "gather" \/ r = "err" THEN <<s>> ELSE <<>>
                    /\ B = IF fut[p].kind = "gather" THEN <<a>> ELSE <<>>
    OBVIOUS
  <1>6. A \in Seq(QuietCalls) /\ A \in Seq(CallSet) /\ B \in Seq(CallSet)
    <2>1. <<s>> \in Seq(QuietCalls) /\ <<>> \in Seq(QuietCalls)
          /\ <<a>> \in Seq(CallSet) /\ <<>> \in Seq(CallSet)
      BY <1>4
    <2>2. A \in Seq(QuietCalls) /\ B \in Seq(CallSet)
      BY <1>5, <2>1
    <2> QED BY <2>2, QuietDue
  <1>7. PICK X \in Seq(CallSet) : X = A \o B /\ agenda' = X \o Rest
    <2>1. agenda' = (A \o B) \o Rest
      BY <1>2, <1>3, <1>5 DEF DeliverToFuture
    <2> QED BY <1>6, <2>1, ConcatProperties
  <1>8. PICK T, R : T = <<Top>> /\ R = Rest
    OBVIOUS
  <1>9. Moves(T, X, R) /\ ToSet(T) = {Top}
    BY <1>1, <1>7, <1>8, HeadMoves
  <1>10. UNCHANGED <<fut, left, pstat, wakers, timers, fstate>>
    BY DEF DeliverToFuture
  <1>11. ASSUME NEW q \in Futures, fut[q].kind = "gather" PROVE Due(X, q) = Due(T, q)
    <2>1. Due(X, q) = Due(A, q) + Due(B, q) /\ Due(A, q) = 0 /\ Due(B, q) \in Nat
      BY <1>6, <1>7, ComingSplit, QuietDue
    <2>2. Due(T, q) = IF q = p THEN 1 ELSE 0
      BY <1>1, <1>2, <1>8, DueOfOne DEF Feeds
    <2>3. CASE fut[p].kind = "gather"
      <3>1. Due(B, q) = IF q = p THEN 1 ELSE 0
        BY <1>4, <1>5, <2>3, DueOfOne DEF Feeds
      <3> QED BY <2>1, <2>2, <3>1
    <2>4. CASE fut[p].kind # "gather"
      <3>1. B = <<>> /\ <<>> \in Seq(QuietCalls)
        BY <1>5, <2>4
      <3>2. Due(B, q) = 0
        BY <3>1, QuietDue
      <3> QED BY <1>11, <2>1, <2>2, <2>4, <3>2
    <2> QED BY <2>3, <2>4
  <1>12. ASSUME fut[p].kind # "gather" PROVE s \in ToSet(X)
    <2>1. ToSet(X) = ToSet(A) \cup ToSet(B) /\ A = <<s>>
      BY <1>5, <1>6, <1>7, <1>12, ConcatSet
    <2> QED BY <2>1 DEF ToSet
  <1>13. \A x : Do("woken", x) \notin ToSet(T)
    BY <1>1, <1>9 DEF Do, Call
  <1> QED BY <1>1, <1>2, <1>4, <1>9, <1>10, <1>11, <1>12, <1>13, QuietFed

\* The end of a wake: no waker of a promise with a result is counted.
LEMMA WokenFed ==
  ASSUME SchedulingInv, AnswersInv, FedInv, Woken
  PROVE  FedInv'
  <1> USE DEF fiberVars, promiseVars, schedVars, sweepVars, loopVars
  <1>1. TypeOK /\ agenda # <<>> /\ Top.op = "woken" /\ Top \in CallSet /\ CallOK(Top)
    BY TopFacts DEF Woken
  <1>2. PICK o \in Objs : o = Top.who
    BY <1>1 DEF CallSet
  <1>3. HasResult(o)
    BY <1>1, <1>2 DEF CallOK
  <1>4. PICK T, X, R : T = <<Top>> /\ X = <<>> /\ R = Rest
    OBVIOUS
  <1>5. X \in Seq(QuietCalls) /\ X \in Seq(CallSet) /\ X \o Rest = Rest
    BY <1>1, <1>4, TopType, ConcatEmptySeq DEF Woken
  <1>6. Moves(T, X, R) /\ T \in Seq(CallSet) /\ ToSet(T) = {Top}
    BY <1>1, <1>4, <1>5, HeadMoves DEF Woken
  <1>7. /\ UNCHANGED <<fut, left, pstat, timers, fstate>>
        /\ wakers' = [wakers EXCEPT ![o] = <<>>] /\ wakers'[o] = <<>>
        /\ \A x \in Objs : x # o => wakers'[x] = wakers[x]
    BY <1>1, <1>2 DEF Woken, TypeOK
  <1>8. \A x : Do("woken", x) \in ToSet(T) => x = o
    BY <1>2, <1>6 DEF Do, Call
  <1>9. \A p : Due(X, p) = Due(T, p)
    <2>1. \A p : ~Feeds(Top, p)
      BY <1>1 DEF Feeds
    <2> QED BY <1>4, <1>5, <2>1, DueOfOne, QuietDue
  <1>10. pstat[o] # "Pending"
    BY <1>3 DEF HasResult
  <1> QED BY <1>1, <1>3, <1>6, <1>7, <1>8, <1>9, <1>10, QuietFed

\* A yield replaces a promise that has a result, after its wakers were called.
LEMMA DetachFed ==
  ASSUME SchedulingInv, AnswersInv, FedInv, Detach
  PROVE  FedInv'
  <1> USE DEF fiberVars, promiseVars, schedVars, sweepVars, loopVars
  <1>1. /\ TypeOK /\ agenda # <<>> /\ Top.op = "detach" /\ Top \in CallSet
        /\ PlaceOK(1) /\ Top = agenda[1]
    BY TopFacts DEF Detach
  <1>2. PICK o \in Fibers : o = Top.who
    BY <1>1 DEF CallSet, FiberOps
  <1>3. HasResult(o) /\ o \in Objs
    <2>1. agenda[1] # Do("settle", o)
      BY <1>1 DEF Do, Call
    <2> QED BY <1>1, <1>2, <2>1 DEF PlaceOK, Objs
  <1>4. PICK T, X, R : T = <<Top>> /\ X = <<>> /\ R = Rest
    OBVIOUS
  <1>5. X \in Seq(QuietCalls) /\ X \in Seq(CallSet) /\ X \o Rest = Rest
    BY <1>1, <1>4, TopType, ConcatEmptySeq DEF Detach
  <1>6. Moves(T, X, R) /\ T \in Seq(CallSet) /\ ToSet(T) = {Top}
    BY <1>1, <1>4, <1>5, HeadMoves DEF Detach
  <1>7. /\ UNCHANGED <<fut, left, timers>>
        /\ wakers'[o] = <<>> /\ pstat'[o] = "New" /\ fstate'[o] = "Suspended"
        /\ \A x \in Objs : x # o => wakers'[x] = wakers[x] /\ pstat'[x] = pstat[x]
        /\ \A x \in Fibers : x # o => fstate'[x] = fstate[x]
    BY <1>1, <1>2, <1>3 DEF Detach, TypeOK
  <1>8. \A x : Do("woken", x) \notin ToSet(T)
    BY <1>1, <1>6 DEF Do, Call
  <1>9. \A p : Due(X, p) = Due(T, p)
    <2>1. \A p : ~Feeds(Top, p)
      BY <1>1 DEF Feeds
    <2> QED BY <1>4, <1>5, <2>1, DueOfOne, QuietDue
  <1>10. pstat[o] # "Pending"
    BY <1>3 DEF HasResult
  <1>11. \A p \in Futures : p \in Objs /\ p # o
    BY ObjsAssumption DEF Objs
  <1>12. \A f \in Fibers : fstate'[f] = "Free" => fstate[f] = "Free" /\ pstat'[f] = pstat[f]
    BY <1>7 DEF Objs
  <1> QED BY <1>1, <1>3, <1>6, <1>7, <1>8, <1>9, <1>10, <1>11, <1>12, QuietFed

\* A gather counts an item that has arrived; the last one resolves it.
LEMMA ArrivedFed ==
  ASSUME SchedulingInv, FedInv, Arrived
  PROVE  FedInv'
  <1> USE DEF fiberVars, promiseVars, schedVars, sweepVars, loopVars
  <1>1. TypeOK /\ agenda # <<>> /\ Top.op = "arrived" /\ Top \in CallSet /\ Rest \in Seq(CallSet)
    BY TopType DEF SchedulingInv, Arrived, Running
  <1>2. PICK p \in Futures : p = Top.who
    BY <1>1 DEF CallSet
  <1>3. PICK s : s = Do("settle", p)
    OBVIOUS
  <1>4. s \in QuietCalls /\ s.op = "settle" /\ s.who = p
    BY <1>3 DEF QuietCalls, CallSet, Do, Call, CallOps, FiberOps, Results, Objs
  <1>5. PICK X : X = IF left[p] = 1 THEN <<s>> ELSE <<>>
    OBVIOUS
  <1>6. X \in Seq(QuietCalls) /\ X \in Seq(CallSet) /\ (left[p] = 1 => s \in ToSet(X))
    <2>1. <<s>> \in Seq(QuietCalls) /\ <<>> \in Seq(QuietCalls) /\ s \in ToSet(<<s>>)
      BY <1>4 DEF ToSet
    <2> QED BY <1>5, <2>1, QuietDue
  <1>7. agenda' = X \o Rest
    BY <1>2, <1>3, <1>5 DEF Arrived
  <1>8. PICK T, R : T = <<Top>> /\ R = Rest
    OBVIOUS
  <1>9. Moves(T, X, R) /\ T \in Seq(CallSet) /\ ToSet(T) = {Top}
    BY <1>1, <1>6, <1>7, <1>8, HeadMoves
  <1>10. /\ UNCHANGED <<fut, pstat, wakers, timers, fstate>>
         /\ left'[p] = left[p] - 1 /\ left[p] \in Int
         /\ \A q \in Futures : q # p => left'[q] = left[q]
    BY <1>1, <1>2 DEF Arrived, TypeOK
  <1>11. \A x : Do("woken", x) \notin ToSet(T)
    BY <1>1, <1>9 DEF Do, Call
  <1>12. StoresInv'
    <2>1. \A x \in Objs :
            /\ pstat'[x] = "New" => wakers'[x] = <<>>
            /\ HasResult(x)' => HasResult(x) /\ wakers'[x] = wakers[x]
      BY <1>10 DEF FedInv, StoresInv, HasResult
    <2>2. \A f \in Fibers : fstate'[f] = "Free" => fstate[f] = "Free" /\ pstat'[f] = pstat[f]
      BY <1>10
    <2> QED BY <1>9, <1>11, <2>1, <2>2, StoresStay DEF FedInv
  <1>13. TimersInv'
    BY <1>1, <1>9, <1>10, TimersStay DEF FedInv
  <1>14. ItemsInv'
    BY <1>1, <1>9, <1>10, ItemsStay DEF FedInv
  <1>15. /\ \A q : Due(X, q) = 0
         /\ \A q : Due(T, q) = IF q = p THEN 1 ELSE 0
    <2>1. \A q : Feeds(Top, q) <=> q = p
      BY <1>1, <1>2 DEF Feeds
    <2> QED BY <1>6, <1>8, <2>1, DueOfOne, QuietDue
  <1>16. ASSUME NEW q \in Futures, fut'[q].kind = "gather", ~HasResult(q)'
         PROVE  CountOK(q)'
    <2>1. CountOK(q) /\ pstat'[q] = pstat[q] /\ fut'[q] = fut[q]
      BY <1>10, <1>16 DEF FedInv, CountsInv, HasResult
    <2>2. Stored(q)' = Stored(q)
      BY <1>10, StoredSame DEF HasResult
    <2>3. CASE q # p
      BY <1>1, <1>9, <1>10, <1>15, <2>1, <2>2, <2>3, CountStays
    <2>4. CASE q = p
      <3>1. /\ Entries' = ToSet(X) \cup ToSet(R)
            /\ Due(agenda, p) = 1 + Due(R, p) /\ Due(agenda, p)' = Due(R, p)
            /\ Due(R, p) \in Nat
            /\ Due(agenda, p) = 0 <=> Coming(agenda, p) = {}
        BY <1>9, <1>15, MovedCalls
      <3>2. pstat[p] # "New"
        BY <2>1, <2>4, <3>1 DEF CountOK
      <3>3. IsFiniteSet(Stored(p)) /\ Cardinality(Stored(p)) \in Nat
        BY <2>1, <2>4, FS_CardinalityType DEF CountOK
      <3>4. ASSUME pstat[p] = "Pending"
            PROVE  /\ left'[p] = Cardinality(Stored(p)) + Due(R, p)
                   /\ left'[p] > 0 \/ Settles(p)'
        <4>1. left[p] = Cardinality(Stored(p)) + 1 + Due(R, p)
          BY <2>1, <2>4, <3>1, <3>3, <3>4 DEF CountOK
        <4>2. left[p] = 1 => Settles(p)'
          BY <1>4, <1>6, <3>1 DEF Settles
        <4> QED BY <1>10, <3>1, <3>3, <4>1, <4>2
      <3> QED BY <2>1, <2>2, <2>4, <3>1, <3>2, <3>3, <3>4 DEF CountOK
    <2> QED BY <2>3, <2>4
  <1> QED BY <1>12, <1>13, <1>14, <1>16 DEF FedInv, CountsInv

\* Of the wakers called when a promise gets its result, as many are a future's
\* own as it has stored there.
LEMMA WakeAllDue ==
  ASSUME TypeOK, NEW o \in Objs, NEW r \in Results
  PROVE  /\ Do("woken", o) \in ToSet(WakeAll(o, r))
         /\ \A w \in ToSet(wakers[o]) :
              \E c \in ToSet(WakeAll(o, r)) : c.op = "deliver" /\ c.who = w
         /\ \A p : /\ IsFiniteSet(StoredAt(o, p))
                   /\ Due(WakeAll(o, r), p) = Cardinality(StoredAt(o, p))
  <1>1. PICK W \in Seq(Objs) : W = wakers[o]
    BY DEF TypeOK
  <1>2. PICK n \in Nat : n = Len(W) /\ DOMAIN W = 1..n
    BY LenProperties
  <1>3. PICK A : A = [i \in 1..n |-> Call("deliver", W[i], o, r)]
    OBVIOUS
  <1>4. PICK d : d = Do("woken", o)
    OBVIOUS
  <1>5. WakeAll(o, r) = A \o <<d>>
    BY <1>1, <1>2, <1>3, <1>4 DEF WakeAll
  <1>6. \A i \in 1..n : A[i] \in CallSet /\ A[i].op = "deliver" /\ A[i].who = W[i]
    BY <1>2, <1>3 DEF Call, CallSet, CallOps, FiberOps, Objs
  <1>7. /\ A \in Seq(CallSet) /\ DOMAIN A = 1..n
        /\ d \in CallSet /\ d.op = "woken" /\ <<d>> \in Seq(CallSet)
    <2>1. d \in CallSet /\ d.op = "woken"
      BY <1>4 DEF Do, Call, CallSet, CallOps, FiberOps, Results
    <2>2. A \in [1..n -> CallSet]
      BY <1>3, <1>6
    <2> QED BY <2>1, <2>2, SeqDef
  <1>8. ToSet(WakeAll(o, r)) = ToSet(A) \cup ToSet(<<d>>) /\ d \in ToSet(<<d>>)
    <2>1. ToSet(A \o <<d>>) = ToSet(A) \cup ToSet(<<d>>)
      BY <1>7, ConcatSet
    <2>2. d \in ToSet(<<d>>)
      BY DEF ToSet
    <2> QED BY <1>5, <2>1, <2>2
  <1>9. ASSUME NEW w \in ToSet(W)
        PROVE  \E c \in ToSet(A) : c.op = "deliver" /\ c.who = w
    BY <1>2, <1>6, <1>7 DEF ToSet
  <1>10. ASSUME NEW p
         PROVE  /\ IsFiniteSet(StoredAt(o, p))
                /\ Due(WakeAll(o, r), p) = Cardinality(StoredAt(o, p))
    <2>1. PICK I : I = {j \in 1..n : W[j] = p}
      OBVIOUS
    <2>2. IsFiniteSet(I)
      <3>1. I \in SUBSET (1..n) /\ IsFiniteSet(1..n)
        BY <2>1, FS_Interval
      <3> QED BY <3>1, FS_Subset
    <2>3. Coming(A, p) = I
      BY <1>6, <1>7, <2>1 DEF Coming, Feeds
    <2>4. Due(A \o <<d>>, p) = Due(A, p) + Due(<<d>>, p) /\ Due(A, p) \in Nat
      BY <1>7, ComingSplit
    <2>5. Due(<<d>>, p) = 0
      BY <1>7, DueOfOne DEF Feeds
    <2>6. StoredAt(o, p) = {<<o, i>> : i \in I}
      BY <1>1, <1>2, <2>1 DEF StoredAt
    <2>7. PICK B : B = {<<o, i>> : i \in I}
      OBVIOUS
    <2>8. [i \in I |-> <<o, i>>] \in Bijection(I, B)
      <3> DEFINE g == [i \in I |-> <<o, i>>]
      <3>1. g \in [I -> B]
        BY <2>7
      <3>2. \A i, k \in I : g[i] = g[k] => i = k
        OBVIOUS
      <3>3. \A b \in B : \E i \in I : g[i] = b
        BY <2>7
      <3> QED BY <3>1, <3>2, <3>3 DEF Bijection, Injection, Surjection, IsInjective
    <2>9. IsFiniteSet(B) /\ Cardinality(B) = Cardinality(I)
      BY <2>2, <2>8, FS_Bijection DEF ExistsBijection
    <2> QED BY <1>5, <2>3, <2>4, <2>5, <2>6, <2>7, <2>9 DEF Due
  <1> QED BY <1>1, <1>4, <1>8, <1>9, <1>10

\* The wakers of a promise that gets its result are no longer stored.
LEMMA StoredLess ==
  ASSUME TypeOK, NEW o \in Objs, ~HasResult(o), HasResult(o)', UNCHANGED wakers,
         \A x \in Objs : x # o => pstat'[x] = pstat[x],
         NEW p, IsFiniteSet(Stored(p))
  PROVE  /\ Stored(p) = Stored(p)' \cup StoredAt(o, p)
         /\ Stored(p)' \cap StoredAt(o, p) = {}
         /\ IsFiniteSet(Stored(p)') /\ IsFiniteSet(StoredAt(o, p))
         /\ Cardinality(Stored(p)') \in Nat /\ Cardinality(StoredAt(o, p)) \in Nat
         /\ Cardinality(Stored(p)) = Cardinality(Stored(p)') + Cardinality(StoredAt(o, p))
  <1>1. \A x \in Objs : StoredAt(x, p)' = StoredAt(x, p)
    BY DEF StoredAt
  <1>2. \A x \in Objs : x # o => (HasResult(x)' <=> HasResult(x))
    BY DEF HasResult
  <1>3. Stored(p)' = UNION {StoredAt(x, p) : x \in {y \in Objs : ~HasResult(y) /\ y # o}}
    <2>1. {y \in Objs : ~HasResult(y)'} = {y \in Objs : ~HasResult(y) /\ y # o}
      BY <1>2
    <2>2. Stored(p)' = UNION {StoredAt(x, p)' : x \in {y \in Objs : ~HasResult(y)'}}
      BY DEF Stored
    <2> QED BY <1>1, <2>1, <2>2
  <1>4. Stored(p) = Stored(p)' \cup StoredAt(o, p)
    BY <1>3 DEF Stored
  <1>5. Stored(p)' \cap StoredAt(o, p) = {}
    BY <1>3 DEF StoredAt
  <1>6. PICK U, V : U = Stored(p)' /\ V = StoredAt(o, p)
    OBVIOUS
  <1>7. IsFiniteSet(U) /\ IsFiniteSet(V) /\ U \cup V = Stored(p) /\ U \cap V = {}
    BY <1>4, <1>5, <1>6, FS_Subset
  <1>8. /\ Cardinality(U) \in Nat /\ Cardinality(V) \in Nat
        /\ Cardinality(U \cup V) = Cardinality(U) + Cardinality(V) - Cardinality(U \cap V)
        /\ Cardinality(U \cap V) = 0
    BY <1>7, FS_CardinalityType, FS_Union, FS_EmptySet
  <1>9. Cardinality(U \cup V) = Cardinality(U) + Cardinality(V)
    BY <1>8
  <1> QED BY <1>4, <1>5, <1>6, <1>7, <1>8, <1>9

\* A promise gets its first result, and the wakers stored with it are called.
LEMMA FirstResultFed ==
  ASSUME SchedulingInv, KnownInv, FedInv, Settle, ~HasResult(Top.who)
  PROVE  FedInv'
  <1> USE DEF fiberVars, promiseVars, schedVars, sweepVars, loopVars
  <1>1. TypeOK /\ agenda # <<>> /\ Top.op = "settle" /\ Top \in CallSet
    BY TopType DEF SchedulingInv, Settle, Running
  <1>2. PICK o \in Objs, r \in Results : o = Top.who /\ r = Top.res
    BY <1>1 DEF CallSet
  <1>3. o \in Fibers => fstate[o] # "Free"
    <2>1. Top.who \in Known \cup {None}
      BY KnownTop DEF Settle
    <2> QED BY <1>2, <2>1, ObjsAssumption DEF Known, Allocated
  <1>4. PICK T, X, R : T = <<Top>> /\ X = WakeAll(o, r) /\ R = Rest
    OBVIOUS
  <1>5. X \in Seq(CallSet) /\ agenda' = X \o Rest
    BY <1>1, <1>2, <1>4, WakeAllType DEF Settle
  <1>6. Moves(T, X, R) /\ T \in Seq(CallSet) /\ ToSet(T) = {Top}
    BY <1>1, <1>4, <1>5, HeadMoves
  <1>7. /\ UNCHANGED <<fut, left, wakers, timers, fstate>>
        /\ pstat'[o] \in {"Resolved", "Rejected"} /\ pstat[o] \notin {"Resolved", "Rejected"}
        /\ \A x \in Objs : x # o => pstat'[x] = pstat[x]
    BY <1>1, <1>2 DEF Settle, TypeOK, StatusOf, HasResult
  <1>8. /\ Do("woken", o) \in ToSet(X)
        /\ \A w \in ToSet(wakers[o]) : \E c \in ToSet(X) : c.op = "deliver" /\ c.who = w
        /\ \A p : Due(X, p) = Cardinality(StoredAt(o, p))
    BY <1>1, <1>4, WakeAllDue
  <1>9. \A x : Do("woken", x) \notin ToSet(T)
    BY <1>1, <1>6 DEF Do, Call
  <1>10. StoresInv'
    <2>1. \A x \in Objs :
            /\ pstat'[x] = "New" => wakers'[x] = <<>>
            /\ HasResult(x)' => \/ Do("woken", x) \in ToSet(X)
                                \/ HasResult(x) /\ wakers'[x] = wakers[x]
      BY <1>7, <1>8 DEF FedInv, StoresInv, HasResult
    <2>2. \A f \in Fibers : fstate'[f] = "Free" => fstate[f] = "Free" /\ pstat'[f] = pstat[f]
      BY <1>3, <1>7 DEF Objs
    <2> QED BY <1>6, <1>9, <2>1, <2>2, StoresStay DEF FedInv
  <1>11. \A x \in Objs : pstat'[x] = "Pending" => x # o /\ pstat[x] = "Pending"
    BY <1>7
  <1>12. \A p \in Futures : p \in Objs
    BY DEF Objs
  <1>13. TimersInv'
    <2>1. \A p \in Futures : pstat'[p] = "Pending" => \A c \in ToSet(T) : ~(c.op = "settle" /\ c.who = p)
      BY <1>2, <1>6, <1>11, <1>12
    <2> QED BY <1>6, <1>7, <1>11, <1>12, <2>1, TimersStay DEF FedInv
  <1>14. ItemsInv'
    <2>1. \A p \in Futures, c \in ToSet(T) :
            pstat'[p] = "Pending" => ~(c.op = "settle" /\ c.who = p)
      BY <1>2, <1>6, <1>11, <1>12
    <2>2. \A p \in Futures, x \in Objs : pstat[x] = "Pending" /\ p \in ToSet(wakers[x]) =>
            \/ pstat'[x] = "Pending" /\ p \in ToSet(wakers'[x])
            \/ \E d \in ToSet(X) : d.op = "deliver" /\ d.who = p
      BY <1>7, <1>8
    <2>3. \A c \in ToSet(T) : c.op = "settle"
      BY <1>1, <1>6
    <2> QED BY <1>1, <1>6, <1>7, <1>11, <1>12, <2>1, <2>2, <2>3, ItemsStay DEF FedInv
  <1>15. \A p : Due(T, p) = 0
    <2>1. \A p : ~Feeds(Top, p)
      BY <1>1 DEF Feeds
    <2> QED BY <1>4, <2>1, DueOfOne
  <1>16. ASSUME NEW p \in Futures, fut'[p].kind = "gather", ~HasResult(p)'
         PROVE  CountOK(p)'
    <2>1. p # o /\ pstat'[p] = pstat[p] /\ ~HasResult(p)
      BY <1>7, <1>12, <1>16 DEF HasResult
    <2>2. CountOK(p) /\ fut'[p] = fut[p] /\ left'[p] = left[p]
      BY <1>7, <1>16, <2>1 DEF FedInv, CountsInv
    <2>3. /\ Entries = ToSet(T) \cup ToSet(R) /\ Entries' = ToSet(X) \cup ToSet(R)
          /\ Due(agenda, p) = Due(R, p) /\ Due(agenda, p)' = Due(X, p) + Due(R, p)
          /\ Due(R, p) \in Nat
          /\ Due(agenda, p) = 0 <=> Coming(agenda, p) = {}
          /\ Due(agenda, p)' = 0 <=> Coming(agenda, p)' = {}
      BY <1>6, <1>15, MovedCalls
    <2>4. IsFiniteSet(Stored(p)) /\ ~HasResult(o) /\ HasResult(o)'
      BY <1>7, <2>2 DEF CountOK, HasResult
    <2>5. /\ Stored(p) = Stored(p)' \cup StoredAt(o, p) /\ IsFiniteSet(Stored(p)')
          /\ Cardinality(Stored(p)') \in Nat /\ Cardinality(StoredAt(o, p)) \in Nat
          /\ Cardinality(Stored(p)) = Cardinality(Stored(p)') + Cardinality(StoredAt(o, p))
      BY <1>1, <1>7, <2>4, StoredLess
    <2>6. Due(X, p) = Cardinality(StoredAt(o, p))
      BY <1>8
    <2>7. CASE pstat[p] = "New"
      <3>1. Coming(agenda, p) = {} /\ Stored(p) = {} /\ left[p] = Len(fut[p].of) /\ left[p] > 0
        BY <2>2, <2>7 DEF CountOK
      <3>2. StoredAt(o, p) = {} /\ Stored(p)' = {}
        BY <2>5, <3>1
      <3>3. Due(X, p) = 0
        BY <2>6, <3>2, FS_EmptySet
      <3>4. Coming(agenda, p)' = {}
        BY <2>3, <3>1, <3>3
      <3> QED BY <2>1, <2>2, <2>5, <2>7, <3>1, <3>2, <3>4 DEF CountOK
    <2>8. CASE pstat[p] = "Pending"
      <3>1. left[p] = Cardinality(Stored(p)) + Due(agenda, p) /\ (left[p] > 0 \/ Settles(p))
        BY <2>2, <2>8 DEF CountOK
      <3>2. left'[p] = Cardinality(Stored(p)') + Due(agenda, p)'
        BY <2>2, <2>3, <2>5, <2>6, <3>1
      <3>3. Settles(p) => Settles(p)'
        <4>1. \A c \in ToSet(T) : c.who # p
          BY <1>2, <1>6, <2>1
        <4> QED BY <2>3, <4>1 DEF Settles
      <3> QED BY <2>1, <2>2, <2>5, <2>8, <3>1, <3>2, <3>3 DEF CountOK
    <2> QED BY <1>1, <1>12, <2>1, <2>5, <2>7, <2>8 DEF CountOK
  <1> QED BY <1>10, <1>13, <1>14, <1>16 DEF FedInv, CountsInv

\* A promise is settled, for the first time or again.
LEMMA SettleFed ==
  ASSUME SchedulingInv, KnownInv, FedInv, Settle
  PROVE  FedInv'
  <1> USE DEF fiberVars, promiseVars, schedVars, sweepVars, loopVars
  <1>1. TypeOK /\ agenda # <<>> /\ Top.op = "settle" /\ Rest \in Seq(CallSet)
    BY TopType DEF SchedulingInv, Settle, Running
  <1>2. CASE HasResult(Top.who)
    <2>1. agenda' = <<>> \o Rest /\ <<>> \in Seq(QuietCalls)
      BY <1>1, <1>2, ConcatEmptySeq DEF Settle
    <2>2. UNCHANGED <<fut, left, pstat, wakers, timers, fstate>>
      BY <1>2 DEF Settle
    <2> QED BY <1>1, <1>2, <2>1, <2>2, HeadFed
  <1> QED BY <1>2, FirstResultFed

\* A timer put into the heap is in it, and so are the others.
LEMMA InsertAtSet ==
  ASSUME NEW S, NEW s \in Seq(S), NEW e \in S, NEW i \in 1..Len(s) + 1
  PROVE  ToSet(s) \cup {e} \subseteq ToSet(InsertAt(s, i, e))
  <1>1. PICK a, b : a = SubSeq(s, 1, i - 1) /\ b = SubSeq(s, i, Len(s))
    OBVIOUS
  <1>2. Len(s) \in Nat /\ i \in Nat \ {0} /\ i - 1 <= Len(s)
    OBVIOUS
  <1>3. a \in Seq(S) /\ b \in Seq(S) /\ <<e>> \in Seq(S)
    BY <1>1, <1>2, SubSeqType
  <1>4. ToSet(InsertAt(s, i, e)) = ToSet(a) \cup {e} \cup ToSet(b)
    <2>1. InsertAt(s, i, e) = (a \o <<e>>) \o b
      BY <1>1 DEF InsertAt
    <2>2. PICK ae \in Seq(S) : ae = a \o <<e>>
      BY <1>3, ConcatProperties
    <2>3. ToSet(ae) = ToSet(a) \cup ToSet(<<e>>)
      BY <1>3, <2>2, ConcatSet
    <2>4. ToSet(ae \o b) = ToSet(ae) \cup ToSet(b)
      BY <1>3, ConcatSet
    <2>5. ToSet(<<e>>) = {e}
      BY DEF ToSet
    <2> QED BY <2>1, <2>2, <2>3, <2>4, <2>5
  <1>5. ASSUME NEW k \in 1..Len(s) PROVE s[k] \in ToSet(a) \cup ToSet(b)
    <2>1. CASE k <= i - 1
      <3>1. k \in DOMAIN a /\ a[k] = s[k]
        BY <1>1, <1>2, <2>1
      <3> QED BY <3>1 DEF ToSet
    <2>2. CASE ~(k <= i - 1)
      <3>1. k - i + 1 \in DOMAIN b /\ b[k - i + 1] = s[k]
        BY <1>1, <1>2, <2>2
      <3> QED BY <3>1 DEF ToSet
    <2> QED BY <2>1, <2>2
  <1> QED BY <1>4, <1>5, LenProperties DEF ToSet

\* What the first await of x has to await in turn.
FirstCalls(x) == IF pstat[x] = "New" THEN InitialAwait(x) ELSE <<>>

\* It brings a future one item for each it waits for.
LEMMA FirstCallsDue ==
  ASSUME TypeOK, NEW x \in Objs
  PROVE  /\ FirstCalls(x) \in Seq(CallSet)
         /\ \A p : Due(FirstCalls(x), p) = IF p = x /\ x \in Futures /\ pstat[x] = "New"
                                           THEN Len(fut[x].of) ELSE 0
         /\ x \in Futures /\ pstat[x] = "New" =>
              \A i \in DOMAIN fut[x].of :
                \E c \in ToSet(FirstCalls(x)) : c.op = "await" /\ c.who = fut[x].of[i] /\ c.by = x
  <1>0. PICK A : A = FirstCalls(x)
    OBVIOUS
  <1>1. CASE x \in Futures /\ pstat[x] = "New"
    <2>1. PICK s \in Seq(Objs \cup {None}) : s = fut[x].of
      BY <1>1 DEF TypeOK
    <2>2. PICK n \in Nat : n = Len(s) /\ DOMAIN s = 1..n
      BY LenProperties
    <2>3. A = [i \in 1..n |-> Call("await", s[i], x, "val")]
      BY <1>0, <1>1, <2>1, <2>2 DEF FirstCalls, InitialAwait
    <2>4. DOMAIN A = 1..n /\ \A i \in 1..n : A[i].op = "await" /\ A[i].who = s[i] /\ A[i].by = x
      BY <2>3 DEF Call
    <2>5. A \in Seq(CallSet)
      BY <1>0, <1>1, InitialAwaitType DEF FirstCalls
    <2>6. \A p : Coming(A, p) = IF p = x THEN 1..n ELSE {}
      BY <2>4 DEF Coming, Feeds
    <2>7. Cardinality(1..n) = n /\ Cardinality({}) = 0
      BY FS_Interval, FS_EmptySet
    <2>8. \A i \in 1..n : A[i] \in ToSet(A)
      BY <2>4 DEF ToSet
    <2>9. \A p : Due(A, p) = IF p = x THEN n ELSE 0
      BY <2>6, <2>7 DEF Due
    <2>10. ASSUME NEW i \in 1..n
           PROVE  \E c \in ToSet(A) : c.op = "await" /\ c.who = s[i] /\ c.by = x
      BY <2>4, <2>8
    <2> QED BY <1>0, <1>1, <2>1, <2>2, <2>5, <2>9, <2>10
  <1>2. CASE ~(x \in Futures /\ pstat[x] = "New")
    <2>1. A = <<>> /\ <<>> \in Seq(QuietCalls)
      BY <1>0, <1>2 DEF FirstCalls, InitialAwait
    <2> QED BY <1>0, <1>2, <2>1, QuietDue
  <1> QED BY <1>1, <1>2

\* One more waker is stored.
LEMMA StoredMore ==
  ASSUME TypeOK, NEW x \in Objs, NEW by \in Objs, ~HasResult(x), ~HasResult(x)',
         wakers' = [wakers EXCEPT ![x] = Append(@, by)],
         \A y \in Objs : y # x => pstat'[y] = pstat[y],
         NEW p, IsFiniteSet(Stored(p))
  PROVE  /\ by # p => Stored(p)' = Stored(p)
         /\ by = p => /\ IsFiniteSet(Stored(p)')
                      /\ Cardinality(Stored(p)') = Cardinality(Stored(p)) + 1
  <1>1. PICK W \in Seq(Objs) : W = wakers[x]
    BY DEF TypeOK
  <1>2. PICK n \in Nat : n = Len(W) /\ DOMAIN W = 1..n
    BY LenProperties
  <1>3. PICK V \in Seq(Objs) : V = Append(W, by)
    BY AppendProperties
  <1>4. /\ DOMAIN V = 1..n + 1 /\ V[n + 1] = by /\ \A i \in 1..n : V[i] = W[i]
        /\ \A i \in 1..n + 1 : i \in 1..n \/ i = n + 1
        /\ \A i \in 1..n : i \in 1..n + 1 /\ i # n + 1
    BY <1>2, <1>3, AppendProperties
  <1>5. wakers'[x] = V /\ \A y \in Objs : y # x => wakers'[y] = wakers[y]
    BY <1>1, <1>3 DEF TypeOK
  <1>6. PICK N : N = IF by = p THEN {<<x, n + 1>>} ELSE {}
    OBVIOUS
  <1>7. StoredAt(x, p)' = StoredAt(x, p) \cup N
    <2>1. StoredAt(x, p) = {<<x, i>> : i \in {j \in 1..n : W[j] = p}}
      BY <1>1, <1>2 DEF StoredAt
    <2>2. StoredAt(x, p)' = {<<x, i>> : i \in {j \in 1..n + 1 : V[j] = p}}
      BY <1>4, <1>5 DEF StoredAt
    <2>3. {j \in 1..n + 1 : V[j] = p} = {j \in 1..n : W[j] = p} \cup IF by = p THEN {n + 1} ELSE {}
      BY <1>4
    <2> QED BY <1>6, <2>1, <2>2, <2>3
  <1>8. \A y \in Objs : y # x => StoredAt(y, p)' = StoredAt(y, p)
    BY <1>5 DEF StoredAt
  <1>9. \A y \in Objs : HasResult(y)' <=> HasResult(y)
    BY DEF HasResult
  <1>10. PICK D : D = {y \in Objs : ~HasResult(y)}
    OBVIOUS
  <1>11. x \in D /\ D \subseteq Objs
    BY <1>10
  <1>12. Stored(p)' = UNION {StoredAt(y, p)' : y \in D} /\ Stored(p) = UNION {StoredAt(y, p) : y \in D}
    BY <1>9, <1>10 DEF Stored
  <1>13. Stored(p)' = Stored(p) \cup N
    BY <1>7, <1>8, <1>11, <1>12
  <1>14. <<x, n + 1>> \notin Stored(p)
    <2>1. <<x, n + 1>> \notin StoredAt(x, p)
      BY <1>1, <1>2, <1>4 DEF StoredAt
    <2>2. \A y \in Objs : y # x => <<x, n + 1>> \notin StoredAt(y, p)
      BY DEF StoredAt
    <2> QED BY <1>11, <1>12, <2>1, <2>2
  <1>15. /\ IsFiniteSet(Stored(p) \cup {<<x, n + 1>>})
         /\ Cardinality(Stored(p) \cup {<<x, n + 1>>}) = Cardinality(Stored(p)) + 1
    BY <1>14, FS_AddElement
  <1> QED BY <1>6, <1>13, <1>15

\* A waker is stored with a promise that has no result: by a fiber, or by the
\* call c of a future.  The first waker starts what the promise waits for.
LEMMA StoreFed ==
  ASSUME TypeOK, FedInv, NEW x \in Objs, NEW by \in Objs, ~HasResult(x),
         wakers' = [wakers EXCEPT ![x] = Append(@, by)],
         pstat' = [pstat EXCEPT ![x] = "Pending"],
         UNCHANGED <<fut, left>>,
         ToSet(timers) \subseteq ToSet(timers'),
         pstat[x] = "New" /\ Timed(x) => x \in ToSet(timers'),
         x \in Fibers => fstate[x] # "Free",
         \A f \in Fibers : fstate'[f] = "Free" => fstate[f] = "Free",
         NEW Q \in Seq(QuietCalls), NEW T, NEW X, X = FirstCalls(x) \o Q, NEW R, Moves(T, X, R),
         \/ T = <<>> /\ by \in Fibers
         \/ \E c : T = <<c>> /\ c.op = "await" /\ c.who = x /\ c.by = by
  PROVE  FedInv'
  <1>0. PICK A : A = FirstCalls(x)
    OBVIOUS
  <1>1. /\ A \in Seq(CallSet)
        /\ \A p : Due(A, p) = IF p = x /\ x \in Futures /\ pstat[x] = "New"
                              THEN Len(fut[x].of) ELSE 0
        /\ x \in Futures /\ pstat[x] = "New" =>
             \A i \in DOMAIN fut[x].of :
               \E c \in ToSet(A) : c.op = "await" /\ c.who = fut[x].of[i] /\ c.by = x
    BY <1>0, FirstCallsDue
  <1>2. Q \in Seq(CallSet) /\ \A p : Due(Q, p) = 0
    BY QuietDue
  <1>3. ToSet(X) = ToSet(A) \cup ToSet(Q)
    <2>1. X = A \o Q
      BY <1>0
    <2>2. ToSet(A \o Q) = ToSet(A) \cup ToSet(Q)
      BY <1>1, <1>2, ConcatSet
    <2> QED BY <2>1, <2>2
  <1>4. \A p : Due(X, p) = IF p = x /\ x \in Futures /\ pstat[x] = "New"
                          THEN Len(fut[x].of) ELSE 0
    <2>1. \A p : Due(A, p) \in Nat /\ Due(X, p) = Due(A, p) + Due(Q, p)
      <3>1. X = A \o Q
        BY <1>0
      <3>2. \A p : Due(A, p) \in Nat /\ Due(A \o Q, p) = Due(A, p) + Due(Q, p)
        BY <1>1, <1>2, ComingSplit
      <3> QED BY <3>1, <3>2
    <2>2. \A p : Due(X, p) = Due(A, p)
      BY <1>2, <2>1
    <2> QED BY <1>1, <2>2
  <1>5. \A c \in ToSet(T) : c.op = "await" /\ c.who = x /\ c.by = by
    BY DEF ToSet
  <1>6. \A p \in Futures : Due(T, p) = IF by = p THEN 1 ELSE 0
    <2>1. CASE T = <<>> /\ by \in Fibers
      <3>1. <<>> \in Seq(QuietCalls) /\ \A p \in Futures : by # p
        BY <2>1, ObjsAssumption
      <3> QED BY <2>1, <3>1, QuietDue
    <2>2. CASE \E c : T = <<c>> /\ c.op = "await" /\ c.who = x /\ c.by = by
      <3>1. PICK c : T = <<c>> /\ c.op = "await" /\ c.who = x /\ c.by = by
        BY <2>2
      <3> QED BY <3>1, DueOfOne DEF Feeds
    <2> QED BY <2>1, <2>2
  <1>7. /\ pstat'[x] = "Pending" /\ \A y \in Objs : y # x => pstat'[y] = pstat[y]
        /\ wakers'[x] = Append(wakers[x], by)
        /\ \A y \in Objs : y # x => wakers'[y] = wakers[y]
        /\ wakers[x] \in Seq(Objs) /\ pstat[x] \in {"New", "Pending"}
    BY DEF TypeOK, HasResult
  <1>8. ToSet(wakers'[x]) = ToSet(wakers[x]) \cup {by}
    BY <1>7, AppendSet
  <1>9. \A y \in Objs : HasResult(y)' <=> HasResult(y)
    BY <1>7 DEF HasResult
  <1>10. \A p \in Futures : p \in Objs
    BY DEF Objs
  <1>11. StoresInv'
    <2>1. \A y \in Objs :
            /\ pstat'[y] = "New" => wakers'[y] = <<>>
            /\ HasResult(y)' => HasResult(y) /\ wakers'[y] = wakers[y]
      BY <1>7, <1>9 DEF FedInv, StoresInv
    <2>2. \A f \in Fibers : fstate'[f] = "Free" => fstate[f] = "Free" /\ pstat'[f] = pstat[f]
      BY <1>7 DEF Objs
    <2>3. \A y : Do("woken", y) \notin ToSet(T)
      BY <1>5 DEF Do, Call
    <2> QED BY <2>1, <2>2, <2>3, StoresStay DEF FedInv
  <1>12. TimersInv'
    <2>1. \A p \in Futures : pstat'[p] = "Pending" =>
            pstat[p] = "Pending" \/ (Timed(p) => p \in ToSet(timers'))
      BY <1>7, <1>10
    <2>2. \A p \in Futures, c \in ToSet(T) : ~(c.op = "settle" /\ c.who = p)
      BY <1>5
    <2> QED BY <2>1, <2>2, TimersStay DEF FedInv
  <1>13. ItemsInv'
    <2>1. \A p \in Futures : pstat'[p] = "Pending" /\ pstat[p] # "Pending" =>
            \A i \in DOMAIN fut[p].of :
              \E c \in ToSet(X) : c.op = "await" /\ c.who = fut[p].of[i] /\ c.by = p
      <3>1. \A p \in Futures : pstat'[p] = "Pending" /\ pstat[p] # "Pending" =>
              p = x /\ pstat[p] = "New"
        BY <1>7, <1>10
      <3>2. x \in Futures /\ pstat[x] = "New" =>
              \A i \in DOMAIN fut[x].of :
                \E c \in ToSet(X) : c.op = "await" /\ c.who = fut[x].of[i] /\ c.by = x
        BY <1>1, <1>3
      <3>3. ASSUME NEW p \in Futures, pstat'[p] = "Pending", pstat[p] # "Pending"
            PROVE  \A i \in DOMAIN fut[p].of :
                     \E c \in ToSet(X) : c.op = "await" /\ c.who = fut[p].of[i] /\ c.by = p
        <4>1. p = x /\ x \in Futures /\ pstat[x] = "New"
          BY <3>1, <3>3
        <4> QED BY <3>2, <4>1
      <3> QED BY <3>3
    <2>2. \A p \in Futures, c \in ToSet(T) :
            c.by = p => c.who \in Objs /\ pstat'[c.who] = "Pending" /\ p \in ToSet(wakers'[c.who])
      BY <1>5, <1>7, <1>8
    <2>3. \A p \in Futures, y \in Objs : pstat[y] = "Pending" /\ p \in ToSet(wakers[y]) =>
            pstat'[y] = "Pending" /\ p \in ToSet(wakers'[y])
      BY <1>7, <1>8
    <2>4. \A c \in ToSet(T) : c.op \notin {"settle", "deliver"}
      BY <1>5
    <2> QED BY <2>1, <2>2, <2>3, <2>4, ItemsStay DEF FedInv
  <1>14. ASSUME NEW p \in Futures, fut'[p].kind = "gather", ~HasResult(p)'
         PROVE  CountOK(p)'
    <2>1. CountOK(p) /\ fut'[p] = fut[p] /\ left'[p] = left[p]
      BY <1>9, <1>10, <1>14 DEF FedInv, CountsInv
    <2>2. IsFiniteSet(Stored(p)) /\ Cardinality(Stored(p)) \in Nat
      BY <2>1, FS_CardinalityType DEF CountOK
    <2>3. /\ by # p => Stored(p)' = Stored(p)
          /\ by = p => /\ IsFiniteSet(Stored(p)')
                       /\ Cardinality(Stored(p)') = Cardinality(Stored(p)) + 1
      BY <1>7, <1>9, <2>2, StoredMore
    <2>4. /\ Entries = ToSet(T) \cup ToSet(R) /\ Entries' = ToSet(X) \cup ToSet(R)
          /\ Due(agenda, p) = Due(T, p) + Due(R, p) /\ Due(agenda, p)' = Due(X, p) + Due(R, p)
          /\ Due(R, p) \in Nat /\ Due(T, p) \in Nat
          /\ Due(agenda, p) = 0 <=> Coming(agenda, p) = {}
          /\ Due(agenda, p)' = 0 <=> Coming(agenda, p)' = {}
      BY MovedCalls
    <2>5. Due(T, p) = IF by = p THEN 1 ELSE 0
      BY <1>6
    <2>6. Settles(p) => Settles(p)'
      BY <1>5, <2>4 DEF Settles
    <2>7. CASE p # x /\ pstat[p] = "New"
      <3>1. Coming(agenda, p) = {} /\ Stored(p) = {} /\ left[p] = Len(fut[p].of) /\ left[p] > 0
        BY <2>1, <2>7 DEF CountOK
      <3>2. by # p /\ Due(R, p) = 0
        BY <2>4, <2>5, <3>1
      <3>3. Due(X, p) = 0
        BY <1>4, <2>7
      <3>4. Coming(agenda, p)' = {} /\ Stored(p)' = {}
        BY <2>3, <2>4, <3>1, <3>2, <3>3
      <3>5. pstat'[p] = "New"
        BY <1>7, <1>10, <2>7
      <3> QED BY <2>1, <3>1, <3>4, <3>5, FS_EmptySet DEF CountOK
    <2>8. CASE pstat[p] = "Pending"
      <3>1. left[p] = Cardinality(Stored(p)) + Due(agenda, p) /\ (left[p] > 0 \/ Settles(p))
        BY <2>1, <2>8 DEF CountOK
      <3>2. Due(X, p) = 0
        BY <1>4, <2>8
      <3>3. CASE by = p
        <4>1. left[p] = Cardinality(Stored(p)') + Due(agenda, p)'
          BY <2>2, <2>3, <2>4, <2>5, <3>1, <3>2, <3>3
        <4>2. pstat'[p] = "Pending"
          BY <1>7, <1>10, <2>8
        <4> QED BY <2>1, <2>3, <2>6, <3>1, <3>3, <4>1, <4>2 DEF CountOK
      <3>4. CASE by # p
        <4>1. left[p] = Cardinality(Stored(p)) + Due(agenda, p)'
          BY <2>2, <2>4, <2>5, <3>1, <3>2, <3>4
        <4>2. pstat'[p] = "Pending"
          BY <1>7, <1>10, <2>8
        <4> QED BY <2>1, <2>2, <2>3, <2>6, <3>1, <3>4, <4>1, <4>2 DEF CountOK
      <3> QED BY <3>3, <3>4
    <2>9. CASE p = x /\ pstat[p] = "New"
      <3>1. Coming(agenda, p) = {} /\ Stored(p) = {} /\ left[p] = Len(fut[p].of) /\ left[p] > 0
        BY <2>1, <2>9 DEF CountOK
      <3>2. by # p /\ Due(R, p) = 0
        BY <2>4, <2>5, <3>1
      <3>3. Due(X, p) = Len(fut[p].of)
        BY <1>4, <2>9
      <3>4. Stored(p)' = {} /\ Cardinality({}) = 0
        BY <2>3, <3>1, <3>2, FS_EmptySet
      <3>5. fut[p].of \in Seq(Objs \cup {None}) /\ Len(fut[p].of) \in Nat
        BY DEF TypeOK
      <3>6. left[p] = Cardinality({}) + Due(agenda, p)'
        BY <2>4, <3>1, <3>2, <3>3, <3>4, <3>5
      <3> QED BY <1>7, <2>1, <2>9, <3>1, <3>4, <3>6, FS_EmptySet DEF CountOK
    <2> QED BY <1>7, <1>10, <1>9, <1>14, <2>7, <2>8, <2>9 DEF TypeOK, HasResult
  <1> QED BY <1>11, <1>12, <1>13, <1>14 DEF FedInv, CountsInv

\* One call and calls that bring no item to anybody.
LEMMA DueThen ==
  ASSUME NEW a \in CallSet, NEW Q \in Seq(QuietCalls)
  PROVE  /\ <<a>> \o Q \in Seq(CallSet)
         /\ a \in ToSet(<<a>> \o Q)
         /\ \A p : Due(<<a>> \o Q, p) = IF Feeds(a, p) THEN 1 ELSE 0
  <1>1. PICK s \in Seq(CallSet) : s = <<a>>
    <2>1. <<a>> \in Seq(CallSet)
      OBVIOUS
    <2> QED BY <2>1
  <1>2. Q \in Seq(CallSet) /\ \A p : Due(Q, p) = 0
    BY QuietDue
  <1>3. s \o Q \in Seq(CallSet) /\ ToSet(s \o Q) = ToSet(s) \cup ToSet(Q)
    BY <1>2, ConcatSet, ConcatProperties
  <1>4. a \in ToSet(s)
    BY <1>1 DEF ToSet
  <1>5. ASSUME NEW p PROVE Due(s \o Q, p) = IF Feeds(a, p) THEN 1 ELSE 0
    <2>1. Due(s \o Q, p) = Due(s, p) + Due(Q, p) /\ Due(s, p) \in Nat /\ Due(Q, p) = 0
      BY <1>2, ComingSplit
    <2>2. Due(s, p) = IF Feeds(a, p) THEN 1 ELSE 0
      BY <1>1, DueOfOne
    <2> QED BY <2>1, <2>2
  <1> QED BY <1>1, <1>3, <1>4, <1>5

\* A timer that is awaited for the first time is put into the heap.
LEMMA StoredTimer ==
  ASSUME TypeOK, NEW x \in Objs, NEW by, NEW ready, NEW pending,
         AwaitOn(x, by, ready, pending), ~HasResult(x)
  PROVE  /\ ToSet(timers) \subseteq ToSet(timers')
         /\ pstat[x] = "New" /\ Timed(x) => x \in ToSet(timers')
  <1>1. IF pstat[x] = "New" /\ Timed(x)
        THEN \E i \in 1..Len(timers) + 1 : timers' = InsertAt(timers, i, x)
        ELSE timers' = timers
    BY ObjsAssumption DEF AwaitOn
  <1>2. CASE pstat[x] = "New" /\ Timed(x)
    <2>1. PICK i \in 1..Len(timers) + 1 : timers' = InsertAt(timers, i, x)
      BY <1>1, <1>2
    <2>2. timers \in Seq(Futures) /\ x \in Futures
      BY <1>2 DEF TypeOK, Timed
    <2>3. ToSet(timers) \cup {x} \subseteq ToSet(InsertAt(timers, i, x))
      BY <2>2, InsertAtSet
    <2> QED BY <2>1, <2>3
  <1>3. CASE ~(pstat[x] = "New" /\ Timed(x))
    BY <1>1, <1>3
  <1> QED BY <1>2, <1>3

\* A future awaits an item: its waker is stored, or it is told at once.
LEMMA AwaitCallFed ==
  ASSUME SchedulingInv, KnownInv, FedInv, AwaitCall
  PROVE  FedInv'
  <1> USE DEF fiberVars, promiseVars, schedVars, sweepVars, loopVars
  <1>1. TypeOK /\ agenda # <<>> /\ Top.op = "await" /\ Top \in CallSet /\ Rest \in Seq(CallSet)
    BY TopType DEF SchedulingInv, AwaitCall, Running
  <1>2. PICK x \in Objs \cup {None}, by \in Objs : x = Top.who /\ by = Top.by
    BY <1>1 DEF CallSet
  <1>3. AwaitOn(x, by, Rest, Rest) /\ UNCHANGED <<fut, left, fstate>>
    BY <1>2 DEF AwaitCall
  <1>4. PICK T, R : T = <<Top>> /\ R = Rest
    OBVIOUS
  <1>5. ASSUME NEW X \in Seq(CallSet), agenda' = X \o Rest
        PROVE  Moves(T, X, R) /\ T \in Seq(CallSet) /\ ToSet(T) = {Top}
    BY <1>1, <1>4, <1>5, HeadMoves
  <1>6. ASSUME NEW d, d.op = "deliver", d.who = by, NEW X \in Seq(CallSet), d \in ToSet(X),
               \A p : Due(X, p) = IF by = p THEN 1 ELSE 0, agenda' = X \o Rest,
               UNCHANGED <<pstat, wakers, timers>>
        PROVE  FedInv'
    <2>1. \A p : Due(T, p) = IF by = p THEN 1 ELSE 0
      <3>1. \A p : Feeds(Top, p) <=> by = p
        BY <1>1, <1>2 DEF Feeds
      <3> QED BY <1>4, <3>1, DueOfOne
    <2>2. Moves(T, X, R) /\ ToSet(T) = {Top}
      BY <1>5, <1>6
    <2>3. \A y : Do("woken", y) \notin ToSet(T)
      BY <1>1, <2>2 DEF Do, Call
    <2>4. \A p \in Futures, c \in ToSet(T) :
            /\ c.op # "deliver" /\ c.op # "settle"
            /\ c.by = p => \E e \in ToSet(X) : e.op = "deliver" /\ e.who = p
      BY <1>1, <1>2, <1>6, <2>2
    <2>5. \A p : Due(X, p) = Due(T, p)
      BY <1>6, <2>1
    <2> QED BY <1>1, <1>3, <1>6, <2>2, <2>3, <2>4, <2>5, QuietFed
  <1>7. CASE x = None
    <2>1. PICK d : d = Call("deliver", by, None, "err")
      OBVIOUS
    <2>2. d \in CallSet /\ d.op = "deliver" /\ d.who = by
      BY <2>1 DEF CallSet, Call, CallOps, FiberOps, Results
    <2>3. <<d>> \in Seq(CallSet) /\ d \in ToSet(<<d>>)
      BY <2>2 DEF ToSet
    <2>4. \A p : Due(<<d>>, p) = IF by = p THEN 1 ELSE 0
      BY <2>2, DueOfOne DEF Feeds
    <2>5. agenda' = <<d>> \o Rest /\ UNCHANGED <<pstat, wakers, timers>>
      BY <1>3, <1>7, <2>1, ObjsAssumption DEF AwaitOn
    <2> QED BY <1>6, <2>2, <2>3, <2>4, <2>5
  <1>8. CASE x \in Objs /\ HasResult(x)
    <2>1. PICK d, b : d = Call("deliver", by, x, ResultOf(x)) /\ b = Do("bump", x)
      OBVIOUS
    <2>2. d \in CallSet /\ d.op = "deliver" /\ d.who = by
      BY <1>8, <2>1 DEF CallSet, Call, CallOps, FiberOps, Results, ResultOf
    <2>3. b \in QuietCalls /\ b \in CallSet /\ b.op = "bump"
      BY <1>8, <2>1 DEF QuietCalls, CallSet, Do, Call, CallOps, FiberOps, Results
    <2>4. PICK Q \in Seq(QuietCalls) : Q = <<b>>
      <3>1. <<b>> \in Seq(QuietCalls)
        BY <2>3
      <3> QED BY <3>1
    <2>5. PICK X \in Seq(CallSet) : X = <<d>> \o Q
      BY <2>2, DueThen
    <2>6. d \in ToSet(X) /\ \A p : Due(X, p) = IF by = p THEN 1 ELSE 0
      <3>1. d \in ToSet(X) /\ \A p : Due(X, p) = IF Feeds(d, p) THEN 1 ELSE 0
        BY <2>2, <2>5, DueThen
      <3>2. \A p : Feeds(d, p) <=> by = p
        BY <2>2 DEF Feeds
      <3> QED BY <3>1, <3>2
    <2>7. agenda' = X \o Rest /\ UNCHANGED <<pstat, wakers, timers>>
      BY <1>3, <1>8, <2>1, <2>4, <2>5, JoinOne, ObjsAssumption DEF AwaitOn
    <2> QED BY <1>6, <2>2, <2>6, <2>7
  <1>9. CASE x \in Objs /\ ~HasResult(x)
    <2>1. PICK A, Q : A = FirstCalls(x) /\ Q = IF x \in Fibers THEN <<Do("micro", x)>> ELSE <<>>
      OBVIOUS
    <2>2. A \in Seq(CallSet) /\ Q \in Seq(QuietCalls) /\ Q \in Seq(CallSet)
      <3>1. Q \in Seq(QuietCalls)
        <4>1. x \in Fibers => Do("micro", x) \in QuietCalls
          BY QuietDo DEF FiberOps
        <4> QED BY <2>1, <4>1
      <3> QED BY <1>1, <1>9, <2>1, <3>1, FirstCallsDue, QuietDue
    <2>3. PICK X \in Seq(CallSet) : X = A \o Q /\ agenda' = X \o Rest
      <3>1. agenda' = (A \o Q) \o Rest
        BY <1>3, <1>9, <2>1, ObjsAssumption DEF AwaitOn, FirstCalls
      <3> QED BY <2>2, <3>1, ConcatProperties
    <2>4. Moves(T, X, R)
      BY <1>5, <2>3
    <2>5. /\ wakers' = [wakers EXCEPT ![x] = Append(@, by)]
          /\ pstat' = [pstat EXCEPT ![x] = "Pending"]
      BY <1>3, <1>9, ObjsAssumption DEF AwaitOn
    <2>6. /\ ToSet(timers) \subseteq ToSet(timers')
          /\ pstat[x] = "New" /\ Timed(x) => x \in ToSet(timers')
      BY <1>1, <1>3, <1>9, StoredTimer
    <2>7. x \in Fibers => fstate[x] # "Free"
      <3>1. Top.who \in Known \cup {None}
        BY KnownTop DEF AwaitCall
      <3> QED BY <1>2, <1>9, <3>1, ObjsAssumption DEF Known, Allocated
    <2> QED BY <1>1, <1>2, <1>3, <1>4, <1>9, <2>1, <2>2, <2>3, <2>4, <2>5, <2>6, <2>7, StoreFed
  <1> QED BY <1>7, <1>8, <1>9

\* Whatever call is executed.
LEMMA CallsFed ==
  ASSUME SchedulingInv, KnownInv, AnswersInv, FedInv, Calls
  PROVE  FedInv'
  BY AwaitCallFed, DeliverToFiberFed, DeliverToFutureFed, ArrivedFed, SettleFed, WokenFed,
     SmallCallsFed, RaiseErrorFed, KillFed, KillDeadFed, DetachFed, LoopTailFed DEF Calls

\* A step between calls that changes no promise and drops no timer.
LEMMA IdleFed ==
  ASSUME TypeOK, FedInv, agenda = <<>>, NEW X \in Seq(QuietCalls), agenda' = X,
         UNCHANGED <<fut, left, pstat, wakers>>,
         \A f \in Fibers : fstate'[f] = "Free" => fstate[f] = "Free",
         \A p \in ToSet(timers) :
           p \in ToSet(timers') \/ \E c \in ToSet(X) : c.op = "settle" /\ c.who = p
  PROVE  FedInv'
  <1>1. PICK T, R : T = <<>> /\ R = <<>>
    OBVIOUS
  <1>2. X \in Seq(CallSet) /\ T \in Seq(CallSet) /\ R \in Seq(CallSet) /\ ToSet(T) = {}
    BY <1>1, QuietDue DEF ToSet
  <1>3. Moves(T, X, R)
    BY <1>1, <1>2, ConcatEmptySeq DEF Moves
  <1> QED BY <1>2, <1>3, QuietCallsFed

\* A timer that has left the heap has its callback called next.
LEMMA LoopFed ==
  ASSUME SchedulingInv, FedInv, Loop
  PROVE  FedInv'
  <1> USE DEF fiberVars, promiseVars, schedVars, sweepVars, loopVars
  <1>1. TypeOK /\ agenda = <<>> /\ UNCHANGED <<fut, left, pstat, wakers, fstate>>
    BY DEF Loop, SchedulingInv, AgendaShape, FireTimer, NextTask, SweepKeep, SweepErase,
           SweepThrow, SweepDone
  <1>2. CASE FireTimer
    <2>1. PICK q \in Seq(Futures) : q = timers /\ q # <<>>
      BY <1>1, <1>2 DEF TypeOK, FireTimer
    <2>2. PICK p \in Futures : p = Head(q)
      BY <2>1, HeadTailProperties
    <2>3. PICK r, c : r \in Results /\ c = Call("settle", p, None, r) /\ agenda' = <<c>>
      BY <1>2, <2>1, <2>2 DEF FireTimer, Results
    <2>4. c \in QuietCalls /\ c.op = "settle" /\ c.who = p
      BY <2>3 DEF QuietCalls, CallSet, Call, CallOps, FiberOps, Objs
    <2>5. <<c>> \in Seq(QuietCalls) /\ c \in ToSet(<<c>>)
      BY <2>4 DEF ToSet
    <2>6. ToSet(q) \subseteq ToSet(Tail(q)) \cup {p} /\ timers' = Tail(q)
      BY <1>2, <2>1, <2>2, TakenFrom DEF FireTimer
    <2> QED BY <1>1, <2>1, <2>3, <2>4, <2>5, <2>6, IdleFed
  <1>3. CASE ~FireTimer
    <2>1. PICK X \in Seq(QuietCalls) : agenda' = X
      <3>1. CASE agenda' = <<>>
        <4>1. <<>> \in Seq(QuietCalls)
          OBVIOUS
        <4> QED BY <3>1, <4>1
      <3>2. CASE agenda' # <<>>
        <4>1. PICK f \in Fibers : agenda' = <<Do("kill", f), Do("leave", f)>>
          <5>1. NextTask
            BY <1>1, <1>3, <3>2 DEF Loop, SweepKeep, SweepErase, SweepThrow, SweepDone
          <5>2. \/ microq # <<>> /\ RunOrSkip(Last(microq))
                \/ runq # <<>> /\ RunOrSkip(Head(runq))
            BY <1>1, <3>2, <5>1 DEF NextTask, Skip
          <5>3. microq # <<>> => Last(microq) \in Fibers
            BY <1>1, EmptySeq DEF TypeOK, Last
          <5>4. runq # <<>> => Head(runq) \in Fibers
            BY <1>1, HeadTailProperties DEF TypeOK
          <5>5. ASSUME NEW f \in Fibers, RunOrSkip(f)
                PROVE  agenda' = <<Do("kill", f), Do("leave", f)>>
            BY <1>1, <3>2, <5>5 DEF RunOrSkip, Execute, Skip
          <5> QED BY <5>2, <5>3, <5>4, <5>5
        <4>2. Do("kill", f) \in QuietCalls /\ Do("leave", f) \in QuietCalls
          BY QuietDo DEF FiberOps
        <4>3. <<Do("kill", f), Do("leave", f)>> \in Seq(QuietCalls)
          BY <4>2, PairType
        <4> QED BY <4>1, <4>3
      <3> QED BY <3>1, <3>2
    <2>2. timers' = timers
      BY <1>3 DEF Loop, NextTask, SweepKeep, SweepErase, SweepThrow, SweepDone
    <2> QED BY <1>1, <2>1, <2>2, IdleFed
  <1> QED BY <1>2, <1>3

\* A host that evaluates a script.
LEMMA EvaluateFed ==
  ASSUME SchedulingInv, FedInv, NEW f \in Fibers, Evaluate(f)
  PROVE  FedInv'
  <1> USE DEF fiberVars, promiseVars, schedVars, sweepVars, loopVars
  <1>1. /\ TypeOK /\ agenda = <<>> /\ agenda' = <<>>
        /\ UNCHANGED <<fut, left, pstat, wakers, timers>>
        /\ \A g \in Fibers : fstate'[g] = "Free" => fstate[g] = "Free"
    BY DEF SchedulingInv, AgendaShape, Evaluate, TypeOK
  <1>2. <<>> \in Seq(QuietCalls)
    OBVIOUS
  <1> QED BY <1>1, <1>2, IdleFed

\* A fiber awaits: its waker is stored, or it is told at once.
LEMMA AwaitFed ==
  ASSUME SchedulingInv, FedInv, NEW f \in Fibers, NEW x \in Objs \cup {None}, Await(f, x)
  PROVE  FedInv'
  <1> USE DEF fiberVars, promiseVars, schedVars, sweepVars, loopVars
  <1>1. /\ TypeOK /\ agenda = <<>> /\ f \in Objs /\ UNCHANGED <<fut, left>>
        /\ \A g \in Fibers : fstate'[g] = "Free" => fstate[g] = "Free"
    BY DEF SchedulingInv, Await, Budgeted, Executing, TypeOK, Objs
  <1>2. PICK t, l : t = Do("tail", f) /\ l = Do("leave", f)
    OBVIOUS
  <1>3. t \in QuietCalls /\ l \in QuietCalls /\ <<t>> \in Seq(QuietCalls) /\ <<l>> \in Seq(QuietCalls)
    BY <1>2, QuietDo DEF FiberOps
  <1>4. AwaitOn(x, f, <<t>>, <<l>>)
    BY <1>2 DEF Await
  <1>5. PICK T, R : T = <<>> /\ R = <<>>
    OBVIOUS
  <1>6. ASSUME NEW X \in Seq(CallSet), agenda' = X
        PROVE  Moves(T, X, R) /\ T \in Seq(CallSet) /\ R \in Seq(CallSet) /\ ToSet(T) = {}
    <2>1. T \in Seq(CallSet) /\ R \in Seq(CallSet) /\ ToSet(T) = {}
      BY <1>5 DEF ToSet
    <2> QED BY <1>1, <1>5, <1>6, <2>1, ConcatEmptySeq DEF Moves
  <1>7. \A p \in Futures : p # f
    BY ObjsAssumption
  <1>8. ASSUME NEW d \in CallSet, d.op = "deliver", d.who = f, NEW Q \in Seq(QuietCalls),
               agenda' = <<d>> \o Q, UNCHANGED <<pstat, wakers, timers>>
        PROVE  FedInv'
    <2>1. PICK X \in Seq(CallSet) : X = <<d>> \o Q
      BY DueThen
    <2>2. \A p \in Futures : Due(X, p) = 0
      <3>1. \A p \in Futures : ~Feeds(d, p)
        BY <1>7, <1>8 DEF Feeds
      <3> QED BY <2>1, <3>1, DueThen
    <2>3. \A p : Due(T, p) = 0
      <3>1. T = <<>> /\ <<>> \in Seq(QuietCalls)
        BY <1>5
      <3> QED BY <3>1, QuietDue
    <2>4. Moves(T, X, R) /\ T \in Seq(CallSet) /\ R \in Seq(CallSet) /\ ToSet(T) = {}
      BY <1>6, <1>8, <2>1
    <2> QED BY <1>1, <1>8, <2>2, <2>3, <2>4, QuietFed
  <1>9. CASE x = None
    <2>1. PICK d : d = Call("deliver", f, None, "err")
      OBVIOUS
    <2>2. d \in CallSet /\ d.op = "deliver" /\ d.who = f
      BY <1>1, <2>1 DEF CallSet, Call, CallOps, FiberOps, Results
    <2>3. agenda' = <<d>> \o <<t>> /\ UNCHANGED <<pstat, wakers, timers>>
      BY <1>4, <1>9, <2>1, ObjsAssumption DEF AwaitOn
    <2> QED BY <1>3, <1>8, <2>2, <2>3
  <1>10. CASE x \in Objs /\ HasResult(x)
    <2>1. PICK d, b : d = Call("deliver", f, x, ResultOf(x)) /\ b = Do("bump", x)
      OBVIOUS
    <2>2. d \in CallSet /\ d.op = "deliver" /\ d.who = f
      BY <1>1, <1>10, <2>1 DEF CallSet, Call, CallOps, FiberOps, Results, ResultOf
    <2>3. b \in QuietCalls
      BY <1>10, <2>1 DEF QuietCalls, CallSet, Do, Call, CallOps, FiberOps, Results
    <2>4. PICK Q \in Seq(QuietCalls) : Q = <<b, t>>
      <3>1. <<b, t>> \in Seq(QuietCalls)
        BY <1>3, <2>3, PairType
      <3> QED BY <3>1
    <2>5. agenda' = <<d, b>> \o <<t>> /\ UNCHANGED <<pstat, wakers, timers>>
      BY <1>4, <1>10, <2>1, ObjsAssumption DEF AwaitOn
    <2>6. agenda' = <<d>> \o Q
      <3>1. d \in {d, b, t} /\ b \in {d, b, t} /\ t \in {d, b, t}
        OBVIOUS
      <3>2. /\ <<d>> \in Seq({d, b, t}) /\ <<b>> \in Seq({d, b, t}) /\ <<t>> \in Seq({d, b, t})
            /\ <<d>> \o <<b>> = <<d, b>> /\ <<b>> \o <<t>> = <<b, t>>
        BY JoinOne
      <3> QED BY <2>4, <2>5, <3>2, ConcatAssociative
    <2> QED BY <1>8, <2>2, <2>5, <2>6
  <1>11. CASE x \in Objs /\ ~HasResult(x)
    <2>1. PICK A, B, Q : /\ A = FirstCalls(x)
                         /\ B = IF x \in Fibers THEN <<Do("micro", x)>> ELSE <<>>
                         /\ Q = B \o <<l>>
      OBVIOUS
    <2>2. A \in Seq(CallSet) /\ B \in Seq(QuietCalls) /\ B \in Seq(CallSet)
      <3>1. B \in Seq(QuietCalls)
        <4>1. x \in Fibers => Do("micro", x) \in QuietCalls
          BY QuietDo DEF FiberOps
        <4> QED BY <2>1, <4>1
      <3> QED BY <1>1, <1>11, <2>1, <3>1, FirstCallsDue, QuietDue
    <2>3. Q \in Seq(QuietCalls) /\ Q \in Seq(CallSet) /\ <<l>> \in Seq(CallSet)
      BY <1>3, <2>1, <2>2, ConcatProperties, QuietDue
    <2>4. PICK X \in Seq(CallSet) : X = A \o Q /\ agenda' = X
      <3>1. agenda' = (A \o B) \o <<l>>
        BY <1>4, <1>11, <2>1, ObjsAssumption DEF AwaitOn, FirstCalls
      <3>2. (A \o B) \o <<l>> = A \o (B \o <<l>>)
        BY <2>2, <2>3, ConcatAssociative
      <3> QED BY <2>1, <2>2, <2>3, <3>1, <3>2, ConcatProperties
    <2>5. Moves(T, X, R)
      BY <1>6, <2>4
    <2>6. /\ wakers' = [wakers EXCEPT ![x] = Append(@, f)]
          /\ pstat' = [pstat EXCEPT ![x] = "Pending"]
      BY <1>4, <1>11, ObjsAssumption DEF AwaitOn
    <2>7. /\ ToSet(timers) \subseteq ToSet(timers')
          /\ pstat[x] = "New" /\ Timed(x) => x \in ToSet(timers')
      BY <1>1, <1>4, <1>11, StoredTimer
    <2>8. x \in Fibers => fstate[x] # "Free"
      BY <1>11, ObjsAssumption DEF Await, Allocated
    <2> QED BY <1>1, <1>5, <1>11, <2>1, <2>3, <2>4, <2>5, <2>6, <2>7, <2>8, StoreFed
  <1> QED BY <1>9, <1>10, <1>11

\* Gather, Race, Timeout and Sleep: nobody can have awaited the new future yet.
LEMMA CreateFutureFed ==
  ASSUME SchedulingInv, KnownInv, FedInv, NEW f \in Fibers, NEW p \in Futures,
         NEW kind \in FutureKinds, NEW items \in Items(kind), CreateFuture(f, p, kind, items)
  PROVE  FedInv'
  <1> USE DEF fiberVars, promiseVars, schedVars, sweepVars, loopVars
  <1>1. /\ TypeOK /\ agenda = <<>> /\ fut[p].kind = "none" /\ p \in Objs
        /\ UNCHANGED <<wakers, timers, fstate, agenda>>
    BY DEF SchedulingInv, CreateFuture, Budgeted, Executing, Objs
  <1>2. /\ pstat[p] = "New" /\ p \notin Known
        /\ \A x \in Objs : p \notin ToSet(wakers[x])
    <2>1. pstat[p] = "New" /\ p \notin Fibers
      BY <1>1, ObjsAssumption DEF KnownInv
    <2>2. p \notin Known
      BY <1>1, <2>1 DEF Known, Allocated
    <2>3. \A x \in Objs : wakers[x] \in Seq(Known)
      BY DEF KnownInv
    <2> QED BY <2>1, <2>2, <2>3 DEF ToSet
  <1>3. wakers[p] = <<>>
    BY <1>1, <1>2 DEF FedInv, StoresInv
  <1>4. /\ fut'[p] = [kind |-> kind, of |-> items] /\ left'[p] = Len(items)
        /\ pstat'[p] = IF kind \in {"gather", "race"} /\ items = <<>> THEN "Resolved" ELSE "New"
        /\ \A q \in Futures : q # p => fut'[q] = fut[q] /\ left'[q] = left[q]
        /\ \A x \in Objs : x # p => pstat'[x] = pstat[x]
    BY <1>1, <1>2 DEF CreateFuture, TypeOK
  <1>5. \A q \in Futures : q \in Objs
    BY DEF Objs
  <1>6. PICK T : T = <<>>
    OBVIOUS
  <1>7. Moves(T, T, T) /\ T \in Seq(CallSet) /\ ToSet(T) = {} /\ \A q : Due(T, q) = 0
    <2>1. T \in Seq(QuietCalls) /\ ToSet(T) = {}
      BY <1>6 DEF ToSet
    <2>2. T \in Seq(CallSet) /\ \A q : Due(T, q) = 0
      BY <2>1, QuietDue
    <2>3. T \o T = T
      BY <1>6, <2>2, ConcatEmptySeq
    <2> QED BY <1>1, <1>6, <2>1, <2>2, <2>3 DEF Moves
  <1>8. StoresInv'
    <2>1. \A x \in Objs :
            /\ pstat'[x] = "New" => wakers'[x] = <<>>
            /\ HasResult(x)' => wakers'[x] = <<>> \/ (HasResult(x) /\ wakers'[x] = wakers[x])
      BY <1>1, <1>3, <1>4 DEF FedInv, StoresInv, HasResult
    <2>2. \A g \in Fibers : fstate'[g] = "Free" => fstate[g] = "Free" /\ pstat'[g] = pstat[g]
      BY <1>1, <1>4, ObjsAssumption DEF Objs
    <2> QED BY <1>7, <2>1, <2>2, StoresStay DEF FedInv
  <1>9. \A q \in Futures : pstat'[q] = "Pending" => q # p /\ pstat[q] = "Pending" /\ fut'[q] = fut[q]
    BY <1>4, <1>5
  <1>10. TimersInv'
    BY <1>1, <1>7, <1>9, TimersStay DEF FedInv
  <1>11. ItemsInv'
    <2>1. \A x \in Objs : pstat[x] = "Pending" => pstat'[x] = "Pending"
      BY <1>2, <1>4
    <2> QED BY <1>1, <1>7, <1>9, <2>1, ItemsStay DEF FedInv
  <1>12. \A q : Stored(q)' = Stored(q)
    <2>1. \A x \in Objs :
            \/ (HasResult(x)' <=> HasResult(x)) /\ wakers'[x] = wakers[x]
            \/ HasResult(x)' /\ wakers[x] = <<>>
      BY <1>1, <1>2, <1>3, <1>4 DEF HasResult
    <2> QED BY <2>1, StoredSame
  <1>13. ASSUME NEW q \in Futures, fut'[q].kind = "gather", ~HasResult(q)'
         PROVE  CountOK(q)'
    <2>1. CASE q # p
      <3>1. pstat'[q] = pstat[q] /\ fut'[q] = fut[q] /\ left'[q] = left[q]
        BY <1>4, <1>5, <2>1
      <3>2. CountOK(q)
        BY <1>13, <3>1 DEF FedInv, CountsInv, HasResult
      <3> QED BY <1>7, <1>12, <3>1, <3>2, CountStays
    <2>2. CASE q = p
      <3>1. kind = "gather" /\ items # <<>> /\ pstat'[p] = "New"
        BY <1>4, <1>13, <2>2 DEF HasResult
      <3>2. Stored(p) = {}
        BY <1>2 DEF Stored, StoredAt, ToSet
      <3>3. Coming(agenda, p)' = {}
        BY <1>1 DEF Coming
      <3>4. Len(items) > 0
        <4>1. PICK n \in Nat : items \in [1..n -> Objs \cup {None}]
          BY <3>1, BoundsAssumption DEF Items, Arity
        <4>2. items \in Seq(Objs \cup {None})
          BY <4>1, SeqDef
        <4> QED BY <3>1, <4>2, EmptySeq
      <3>5. Stored(p)' = {} /\ IsFiniteSet(Stored(p)')
        BY <1>12, <3>2, FS_EmptySet
      <3>6. left'[p] = Len(fut'[p].of) /\ left'[p] > 0
        BY <1>4, <3>4
      <3> QED BY <2>2, <3>1, <3>3, <3>5, <3>6 DEF CountOK
    <2> QED BY <2>1, <2>2
  <1> QED BY <1>8, <1>10, <1>11, <1>13 DEF FedInv, CountsInv

\* Whatever instruction is executed.
LEMMA InstructionsFed ==
  ASSUME SchedulingInv, KnownInv, FedInv, Instructions
  PROVE  FedInv'
  <1> USE DEF fiberVars, promiseVars, schedVars, sweepVars, loopVars
  <1>1. PICK f \in Fibers :
          \/ CallFunction(f) \/ CallBadArguments(f) \/ Throw(f)
          \/ TryBegin(f) \/ TryEnd(f) \/ Return(f) \/ Yield(f)
          \/ \E g \in Fibers : Spawn(f, g) \/ SpawnBadArguments(f, g)
          \/ \E p \in Futures, kind \in FutureKinds :
               \E items \in Items(kind) : CreateFuture(f, p, kind, items)
          \/ \E x \in Objs \cup {None} : Await(f, x)
    BY DEF Instructions
  <1>2. TypeOK /\ agenda = <<>>
    BY InstructionsExecute DEF SchedulingInv
  <1>3. \A op \in FiberOps : Do(op, f) \in QuietCalls
    BY QuietDo
  <1>4. ASSUME CallFunction(f) \/ CallBadArguments(f) \/ Throw(f) \/ TryBegin(f)
                 \/ TryEnd(f) \/ Return(f) \/ Yield(f)
        PROVE  FedInv'
    <2>1. UNCHANGED <<fut, left, pstat, wakers, timers, fstate>>
      BY <1>4 DEF CallFunction, CallBadArguments, Throw, TryBegin, TryEnd, Return, Yield
    <2>2. PICK e, k, l, t, s, d :
            /\ e = Do("error", f) /\ k = Do("kill", f) /\ l = Do("leave", f)
            /\ t = Do("tail", f) /\ s = Do("settle", f) /\ d = Do("detach", f)
      OBVIOUS
    <2>3. /\ e \in QuietCalls /\ k \in QuietCalls /\ l \in QuietCalls
          /\ t \in QuietCalls /\ d \in QuietCalls
      BY <1>3, <2>2 DEF FiberOps
    <2>4. s \in QuietCalls
      BY <2>2 DEF QuietCalls, CallSet, Do, Call, CallOps, FiberOps, Results, Objs
    <2>5. PICK X \in Seq(QuietCalls) : agenda' = X
      <3>1. \/ agenda' = <<>> \/ agenda' = <<e, t>> \/ agenda' = <<e, l>>
            \/ agenda' = <<k>> \o <<l>> \/ agenda' = <<>> \o <<l>> \/ agenda' = <<s, d, l>>
        BY <1>2, <1>4, <2>2 DEF CallFunction, CallBadArguments, Throw, TryBegin, TryEnd, Return, Yield
      <3>2. /\ <<>> \in Seq(QuietCalls) /\ <<e, t>> \in Seq(QuietCalls)
            /\ <<e, l>> \in Seq(QuietCalls) /\ <<k>> \in Seq(QuietCalls)
            /\ <<l>> \in Seq(QuietCalls) /\ <<s, d, l>> \in Seq(QuietCalls)
        BY <2>3, <2>4
      <3>3. <<k>> \o <<l>> \in Seq(QuietCalls) /\ <<>> \o <<l>> \in Seq(QuietCalls)
        BY <3>2, ConcatProperties
      <3> QED BY <3>1, <3>2, <3>3
    <2> QED BY <1>2, <2>1, <2>5, IdleFed
  <1>5. ASSUME NEW g \in Fibers, Spawn(f, g) PROVE FedInv'
    <2>1. /\ UNCHANGED <<fut, left, pstat, wakers, timers, agenda>>
          /\ \A h \in Fibers : fstate'[h] = "Free" => fstate[h] = "Free"
      BY <1>2, <1>5 DEF Spawn, TypeOK
    <2>2. <<>> \in Seq(QuietCalls)
      OBVIOUS
    <2> QED BY <1>2, <2>1, <2>2, IdleFed
  <1>6. ASSUME NEW g \in Fibers, SpawnBadArguments(f, g) PROVE FedInv'
    <2>1. PICK T : T = <<>>
      OBVIOUS
    <2>2. T \in Seq(QuietCalls) /\ ToSet(T) = {} /\ T \o T = T /\ T \in Seq(CallSet)
      <3>1. T \in Seq(QuietCalls) /\ ToSet(T) = {} /\ T \in Seq(CallSet)
        BY <2>1 DEF ToSet
      <3> QED BY <2>1, <3>1, ConcatEmptySeq
    <2>3. Moves(T, T, T)
      BY <1>2, <1>6, <2>1, <2>2 DEF Moves, SpawnBadArguments
    <2>4. pstat[g] = "New" /\ wakers[g] = <<>> /\ g \in Objs
      BY <1>6 DEF SpawnBadArguments, FedInv, StoresInv, Objs
    <2>5. /\ UNCHANGED <<fut, left, wakers, timers>>
          /\ pstat'[g] = "Rejected" /\ \A x \in Objs : x # g => pstat'[x] = pstat[x]
          /\ fstate'[g] = "Dead" /\ \A h \in Fibers : h # g => fstate'[h] = fstate[h]
      BY <1>2, <1>6, <2>4 DEF SpawnBadArguments, TypeOK
    <2>6. \A p \in Futures : p \in Objs /\ p # g
      BY ObjsAssumption DEF Objs
    <2>7. \A h \in Fibers : fstate'[h] = "Free" => fstate[h] = "Free" /\ pstat'[h] = pstat[h]
      BY <2>5 DEF Objs
    <2> QED BY <1>2, <2>2, <2>3, <2>4, <2>5, <2>6, <2>7, QuietFed
  <1> QED BY <1>1, <1>4, <1>5, <1>6, CreateFutureFed, AwaitFed

\* At the start nothing waits.
LEMMA FedInit == Init => FedInv
  <1> SUFFICES ASSUME Init PROVE FedInv
    OBVIOUS
  <1>1. StoresInv /\ TimersInv /\ ItemsInv
    BY DEF Init, StoresInv, TimersInv, ItemsInv, HasResult, Objs
  <1>2. CountsInv
    BY DEF Init, CountsInv
  <1> QED BY <1>1, <1>2 DEF FedInv

\* Every step keeps what feeds the pending futures.
LEMMA FedNext == SchedulingInv /\ KnownInv /\ AnswersInv /\ FedInv /\ [Next]_vars => FedInv'
  <1> SUFFICES ASSUME SchedulingInv, KnownInv, AnswersInv, FedInv, [Next]_vars PROVE FedInv'
    OBVIOUS
  <1>1. CASE UNCHANGED vars
    <2>1. PICK T, R : T = <<>> /\ R = agenda
      OBVIOUS
    <2>2. /\ T \in Seq(QuietCalls) /\ T \in Seq(CallSet) /\ ToSet(T) = {}
          /\ TypeOK /\ R \in Seq(CallSet) /\ T \o R = R
      <3>1. T \in Seq(QuietCalls) /\ T \in Seq(CallSet) /\ ToSet(T) = {}
        BY <2>1 DEF ToSet
      <3>2. TypeOK /\ R \in Seq(CallSet)
        BY <2>1 DEF SchedulingInv, TypeOK
      <3> QED BY <2>1, <3>1, <3>2, ConcatEmptySeq
    <2>3. UNCHANGED <<fut, left, pstat, wakers, timers, fstate, agenda>>
      BY <1>1 DEF vars, fiberVars, promiseVars, schedVars
    <2>4. Moves(T, T, R)
      BY <2>1, <2>2, <2>3 DEF Moves
    <2> QED BY <2>2, <2>3, <2>4, QuietCallsFed
  <1>2. CASE Next
    BY <1>2, CallsFed, LoopFed, InstructionsFed, EvaluateFed DEF Next, Step
  <1> QED BY <1>1, <1>2

\* What it says between two calls.
LEMMA FedBetweenCalls == FedInv => FuturesFed
  <1> SUFFICES ASSUME FedInv, agenda = <<>>, NEW p \in Futures, pstat[p] = "Pending"
               PROVE  /\ fut[p].kind \in {"sleep", "timeout"} => p \in ToSet(timers)
                      /\ fut[p].kind # "gather" =>
                           \A i \in DOMAIN fut[p].of :
                             LET x == fut[p].of[i] IN
                               x # None /\ pstat[x] = "Pending" /\ p \in ToSet(wakers[x])
                      /\ fut[p].kind = "gather" => left[p] > 0 /\ left[p] = Registrations(p)
    BY DEF FuturesFed
  <1>1. Entries = {} /\ ~Settles(p)
    BY DEF Entries, ToSet, Settles
  <1>2. fut[p].kind \in {"sleep", "timeout"} => p \in ToSet(timers)
    BY <1>1 DEF FedInv, TimersInv
  <1>3. ASSUME fut[p].kind # "gather", NEW i \in DOMAIN fut[p].of, NEW x, x = fut[p].of[i]
        PROVE  x # None /\ pstat[x] = "Pending" /\ p \in ToSet(wakers[x])
    BY <1>1, <1>3 DEF FedInv, ItemsInv, Fed
  <1>4. ASSUME fut[p].kind = "gather"
        PROVE  left[p] > 0 /\ left[p] = Registrations(p)
    <2>1. /\ IsFiniteSet(Stored(p)) /\ left[p] = Cardinality(Stored(p)) + Due(agenda, p)
          /\ left[p] > 0
      BY <1>1, <1>4 DEF FedInv, CountsInv, CountOK, HasResult
    <2>2. Due(agenda, p) = 0 /\ Cardinality(Stored(p)) \in Nat
      BY <2>1, FS_EmptySet, FS_CardinalityType DEF Due, Coming
    <2>3. \A x \in Objs : HasResult(x) => wakers[x] = <<>>
      BY <1>1 DEF FedInv, StoresInv
    <2>4. PICK U : U = UNION {{<<x, i>> : i \in {j \in DOMAIN wakers[x] : wakers[x][j] = p}} : x \in Objs}
      OBVIOUS
    <2>5. \A e : e \in U <=> \E x \in Objs : \E i \in DOMAIN wakers[x] : wakers[x][i] = p /\ e = <<x, i>>
      BY <2>4
    <2>6. U = Stored(p)
      BY <2>3, <2>5, StoredWakers
    <2>7. Registrations(p) = Cardinality(U)
      BY <2>4 DEF Registrations
    <2>8. left[p] = Cardinality(Stored(p))
      BY <2>1, <2>2
    <2> QED BY <2>1, <2>6, <2>7, <2>8
  <1> QED BY <1>2, <1>3, <1>4

\* A pending future is fed: between two instructions or turns of the loop its timer
\* is in the heap, every item of a race or a timeout is pending and will wake it,
\* and a gather still counts exactly the wakers it has stored.
THEOREM FuturesAreFed ==
  ASSUME AwaitsBlocked = FALSE
  PROVE  Spec => []FuturesFed
  <1>1. Init => KnownInv
    BY ResultsInit
  <1> QED BY <1>1, FedBetweenCalls, FedInit, FedNext, Scheduling, KnownNext, AnswersInit,
             AnswersNext, PTL DEF Spec
=============================================================================
