-------------------------- MODULE CallStackLemmas --------------------------
(***************************************************************************)
(* What the member functions of CallStack preserve, for every set F of     *)
(* frames: the type of a call stack, and IndexesRealFrames, on which       *)
(* FindTopRealFrame rests.                                                 *)
(***************************************************************************)
EXTENDS CallStack, SequenceTheorems, TLAPS

\* A sequence without its last element (stack_.pop_back()).
LEMMA FrontOfSeq ==
  ASSUME NEW S, NEW s \in Seq(S), s # <<>>
  PROVE  /\ Front(s) \in Seq(S)
         /\ Len(Front(s)) = Len(s) - 1
         /\ \A i \in 1 .. Len(s) - 1 : Front(s)[i] = s[i]
         /\ Len(s) \in Nat \ {0}
<1>1. Len(s) \in Nat \ {0} /\ DOMAIN s = 1 .. Len(s)
  BY EmptySeq
<1>2. \A i \in 1 .. Len(s) - 1 : s[i] \in S
  BY <1>1
<1>3. SubSeq(s, 1, Len(s) - 1) \in Seq(S)
  BY <1>1, <1>2, SubSeqProperties
<1>4. Front(s) \in Seq(S) /\ Len(Front(s)) = Len(s) - 1
  BY <1>1, <1>3 DEF Front
<1>5. \A i \in 1 .. (Len(s) - 1) - 1 + 1 :
        SubSeq(s, 1, Len(s) - 1)[i] = s[1 + i - 1]
  BY <1>1, <1>2, SubSeqProperties
<1>6. QED
  BY <1>1, <1>3, <1>4, <1>5 DEF Front

\* The unlocked end of Push keeps the type (CallStack::Push).
LEMMA PushNowType ==
  ASSUME NEW F, NEW c \in StacksOf(F), NEW f \in F
  PROVE  /\ PushNow(c, f) \in StacksOf(F)
         /\ PushNow(c, f).stack = Append(c.stack, f)
         /\ PushNow(c, f).locked = c.locked
         /\ PushNow(c, f).delayed = c.delayed
BY DEF PushNow, WithFrames, StacksOf

\* The unlocked end of Pop keeps the type (CallStack::Pop).
LEMMA PopNowType ==
  ASSUME NEW F, NEW c \in StacksOf(F), c.stack # <<>>
  PROVE  /\ PopNow(c) \in StacksOf(F)
         /\ PopNow(c).stack = Front(c.stack)
         /\ PopNow(c).locked = c.locked
         /\ PopNow(c).delayed = c.delayed
<1>1. Front(c.stack) \in Seq(F)
  BY FrontOfSeq DEF StacksOf
<1>2. c.real # <<>> => Front(c.real) \in Seq(Nat)
  BY FrontOfSeq DEF StacksOf
<1>3. QED
  BY <1>1, <1>2 DEF PopNow, WithFrames, StacksOf

\* Push, locked or not, keeps the type (CallStack::Push).
LEMMA PushType ==
  ASSUME NEW F, NEW c \in StacksOf(F), NEW f \in F
  PROVE  /\ Push(c, f) \in StacksOf(F)
         /\ Push(c, f).locked = c.locked
         /\ ~c.locked => /\ Push(c, f).stack = Append(c.stack, f)
                         /\ Push(c, f).delayed = c.delayed
         /\ c.locked => /\ Push(c, f).stack = c.stack
                        /\ Push(c, f).real = c.real
                        /\ Push(c, f).delayed = Append(c.delayed, PushCall(f))
<1>1. PushCall(f) \in [call : {"push", "pop"}, frame : F]
  BY DEF PushCall
<1>2. CASE c.locked
  BY <1>1, <1>2 DEF Push, Delay, WithLock, StacksOf
<1>3. CASE ~c.locked
  BY <1>3, PushNowType DEF Push
<1>4. QED
  BY <1>2, <1>3 DEF StacksOf

\* Pop, locked or not, keeps the type when it does not throw (CallStack::Pop).
LEMMA PopType ==
  ASSUME NEW F, NEW c \in StacksOf(F), CanPop(c), RealFrame("root") \in F
  PROVE  /\ Pop(c) \in StacksOf(F)
         /\ Pop(c).locked = c.locked
         /\ ~c.locked => /\ Pop(c).stack = Front(c.stack)
                         /\ Pop(c).delayed = c.delayed
         /\ c.locked => Pop(c).stack = c.stack /\ Pop(c).real = c.real
<1>1. PopCall \in [call : {"push", "pop"}, frame : F]
  BY DEF PopCall
<1>2. CASE c.locked
  BY <1>1, <1>2 DEF Pop, Delay, WithLock, StacksOf
<1>3. CASE ~c.locked
  BY <1>3, PopNowType DEF Pop, CanPop
<1>4. QED
  BY <1>2, <1>3 DEF StacksOf

\* A pushed frame is indexed when it is real (CallStack::Push).
LEMMA PushNowIndexes ==
  ASSUME NEW F, NEW c \in StacksOf(F), NEW f \in F, IndexesRealFrames(c)
  PROVE  IndexesRealFrames(PushNow(c, f))
<1> DEFINE d == PushNow(c, f)
           n == Len(c.stack)
           m == Len(c.real)
<1>1. /\ c.stack \in Seq(F)
      /\ c.real \in Seq(Nat)
      /\ d.stack = Append(c.stack, f)
  BY DEF PushNow, WithFrames, StacksOf
<1>2. /\ n \in Nat /\ DOMAIN c.stack = 1 .. n
      /\ m \in Nat /\ DOMAIN c.real = 1 .. m
      /\ \A i \in 1 .. m : c.real[i] \in Nat
  BY <1>1
<1>3. /\ DOMAIN d.stack = 1 .. n + 1
      /\ \A k \in 1 .. n : d.stack[k] = c.stack[k]
      /\ d.stack[n + 1] = f
  BY <1>1, AppendProperties, LenProperties
<1>4. CASE IsReal(f)
  <2>1. d.real = Append(c.real, n)
    BY <1>4 DEF PushNow, WithFrames
  <2>2. /\ DOMAIN d.real = 1 .. m + 1
        /\ \A i \in 1 .. m : d.real[i] = c.real[i]
        /\ d.real[m + 1] = n
    BY <1>1, <1>2, <2>1, AppendProperties, LenProperties
  <2>3. ASSUME NEW i \in DOMAIN d.real
        PROVE  d.real[i] + 1 \in DOMAIN d.stack /\ IsReal(d.stack[d.real[i] + 1])
    <3>1. CASE i = m + 1
      <4>1. d.real[i] = n
        BY <2>2, <3>1
      <4>2. n + 1 \in DOMAIN d.stack /\ IsReal(d.stack[n + 1])
        BY <1>2, <1>3, <1>4
      <4>3. QED
        BY <4>1, <4>2
    <3>2. CASE i # m + 1
      <4>1. i \in 1 .. m /\ d.real[i] = c.real[i]
        BY <1>2, <2>2, <3>2
      <4>2. c.real[i] + 1 \in 1 .. n /\ IsReal(c.stack[c.real[i] + 1])
        BY <1>2, <4>1 DEF IndexesRealFrames
      <4>3. QED
        BY <1>2, <1>3, <4>1, <4>2
    <3>3. QED
      BY <3>1, <3>2
  <2>4. ASSUME NEW i \in DOMAIN d.real, NEW j \in DOMAIN d.real, i < j
        PROVE  d.real[i] < d.real[j]
    <3>1. i \in 1 .. m /\ d.real[i] = c.real[i] /\ c.real[i] + 1 \in 1 .. n
      BY <1>2, <2>2, <2>4 DEF IndexesRealFrames
    <3>2. CASE j = m + 1
      BY <1>2, <2>2, <3>1, <3>2
    <3>3. CASE j # m + 1
      BY <1>2, <2>2, <2>4, <3>1, <3>3 DEF IndexesRealFrames
    <3>4. QED
      BY <3>2, <3>3
  <2>5. ASSUME NEW k \in DOMAIN d.stack, IsReal(d.stack[k])
        PROVE  \E i \in DOMAIN d.real : d.real[i] = k - 1
    <3>1. CASE k = n + 1
      BY <1>2, <2>2, <3>1
    <3>2. CASE k # n + 1
      <4>1. k \in DOMAIN c.stack /\ c.stack[k] = d.stack[k]
        BY <1>2, <1>3, <3>2
      <4>2. PICK i \in DOMAIN c.real : c.real[i] = k - 1
        BY <2>5, <4>1 DEF IndexesRealFrames
      <4>3. QED
        BY <1>2, <2>2, <4>2
    <3>3. QED
      BY <3>1, <3>2
  <2>6. QED
    BY <2>3, <2>4, <2>5 DEF IndexesRealFrames
<1>5. CASE ~IsReal(f)
  <2>1. d.real = c.real
    BY <1>5 DEF PushNow, WithFrames
  <2>2. ASSUME NEW i \in DOMAIN c.real
        PROVE  c.real[i] + 1 \in DOMAIN d.stack /\ IsReal(d.stack[c.real[i] + 1])
    <3>1. c.real[i] + 1 \in 1 .. n /\ IsReal(c.stack[c.real[i] + 1])
      BY <1>2 DEF IndexesRealFrames
    <3>2. QED
      BY <1>2, <1>3, <3>1
  <2>3. ASSUME NEW k \in DOMAIN d.stack, IsReal(d.stack[k])
        PROVE  k \in DOMAIN c.stack /\ IsReal(c.stack[k])
    BY <1>2, <1>3, <1>5, <2>3
  <2>4. QED
    BY <2>1, <2>2, <2>3 DEF IndexesRealFrames
<1>6. QED
  BY <1>4, <1>5

\* A popped frame loses its index, and no other does (CallStack::Pop).
LEMMA PopNowIndexes ==
  ASSUME NEW F, NEW c \in StacksOf(F), c.stack # <<>>, IndexesRealFrames(c)
  PROVE  IndexesRealFrames(PopNow(c))
<1> DEFINE d == PopNow(c)
           n == Len(c.stack)
           m == Len(c.real)
<1>1. c.stack \in Seq(F) /\ c.real \in Seq(Nat) /\ d.stack = Front(c.stack)
  BY DEF PopNow, WithFrames, StacksOf
<1>2. /\ n \in Nat \ {0} /\ DOMAIN c.stack = 1 .. n
      /\ m \in Nat /\ DOMAIN c.real = 1 .. m
      /\ \A i \in 1 .. m : c.real[i] \in Nat
      /\ c.real # <<>> => m # 0
  BY <1>1, EmptySeq
<1>3. /\ DOMAIN d.stack = 1 .. n - 1
      /\ \A k \in 1 .. n - 1 : d.stack[k] = c.stack[k]
  BY <1>1, FrontOfSeq, LenProperties
<1>4. \A i \in 1 .. m : c.real[i] + 1 \in 1 .. n /\ IsReal(c.stack[c.real[i] + 1])
  BY <1>2 DEF IndexesRealFrames
<1>5. \A i, j \in 1 .. m : i < j => c.real[i] < c.real[j]
  BY <1>2 DEF IndexesRealFrames
<1>6. ASSUME NEW k \in DOMAIN d.stack, IsReal(d.stack[k])
      PROVE  \E i \in 1 .. m : c.real[i] = k - 1
  <2>1. k \in DOMAIN c.stack /\ IsReal(c.stack[k])
    BY <1>2, <1>3, <1>6
  <2>2. QED
    BY <1>2, <2>1 DEF IndexesRealFrames
<1>7. CASE c.real # <<>> /\ c.real[m] = n - 1
  <2>1. d.real = Front(c.real)
    BY <1>7 DEF PopNow, WithFrames, Last
  <2>2. /\ DOMAIN d.real = 1 .. m - 1
        /\ \A i \in 1 .. m - 1 : d.real[i] = c.real[i]
    <3>1. c.real \in Seq(Nat) /\ c.real # <<>>
      BY <1>1, <1>7
    <3>2. /\ Front(c.real) \in Seq(Nat)
          /\ Len(Front(c.real)) = m - 1
          /\ \A i \in 1 .. m - 1 : Front(c.real)[i] = c.real[i]
      BY <3>1, FrontOfSeq
    <3>3. QED
      BY <2>1, <3>2, LenProperties
  <2>3. \A i \in 1 .. m - 1 : c.real[i] < n - 1
    BY <1>2, <1>5, <1>7
  <2>4. ASSUME NEW i \in DOMAIN d.real
        PROVE  d.real[i] + 1 \in DOMAIN d.stack /\ IsReal(d.stack[d.real[i] + 1])
    <3>1. i \in 1 .. m - 1 /\ i \in 1 .. m /\ d.real[i] = c.real[i]
      BY <1>2, <2>2
    <3>2. c.real[i] \in Nat /\ c.real[i] < n - 1
      BY <1>2, <2>3, <3>1
    <3>3. c.real[i] + 1 \in 1 .. n - 1
      BY <1>2, <3>2
    <3>4. QED
      BY <1>3, <1>4, <3>1, <3>3
  <2>5. \A i, j \in DOMAIN d.real : i < j => d.real[i] < d.real[j]
    BY <1>2, <1>5, <2>2
  <2>6. ASSUME NEW k \in DOMAIN d.stack, IsReal(d.stack[k])
        PROVE  \E i \in DOMAIN d.real : d.real[i] = k - 1
    <3>1. PICK i \in 1 .. m : c.real[i] = k - 1
      BY <1>6, <2>6
    <3>2. i # m
      BY <1>2, <1>3, <1>7, <3>1
    <3>3. i \in 1 .. m - 1
      BY <1>2, <3>2
    <3>4. QED
      BY <2>2, <3>1, <3>3
  <2>7. QED
    BY <2>4, <2>5, <2>6 DEF IndexesRealFrames
<1>8. CASE ~(c.real # <<>> /\ c.real[m] = n - 1)
  <2>1. d.real = c.real
    BY <1>8 DEF PopNow, WithFrames, Last
  <2>2. ASSUME NEW i \in 1 .. m
        PROVE  c.real[i] < n - 1
    <3>1. m \in 1 .. m /\ c.real # <<>>
      BY <1>1, <1>2
    <3>2. c.real[m] < n - 1
      <4>1. c.real[m] \in Nat /\ c.real[m] + 1 \in 1 .. n /\ c.real[m] # n - 1
        BY <1>2, <1>4, <1>8, <3>1
      <4>2. n \in Nat
        BY <1>2
      <4>3. \A x \in Nat : x + 1 \in 1 .. n /\ x # n - 1 => x < n - 1
        BY <4>2
      <4>4. QED
        BY <4>1, <4>3
    <3>3. i = m \/ c.real[i] < c.real[m]
      BY <1>2, <1>5, <3>1
    <3>4. QED
      BY <1>2, <3>1, <3>2, <3>3
  <2>3. ASSUME NEW i \in DOMAIN c.real
        PROVE  c.real[i] + 1 \in DOMAIN d.stack /\ IsReal(d.stack[c.real[i] + 1])
    <3>1. i \in 1 .. m /\ c.real[i] \in Nat /\ c.real[i] < n - 1
      BY <1>2, <2>2
    <3>2. c.real[i] + 1 \in 1 .. n - 1
      BY <1>2, <3>1
    <3>3. QED
      BY <1>3, <1>4, <3>1, <3>2
  <2>4. QED
    BY <1>2, <1>5, <1>6, <2>1, <2>3 DEF IndexesRealFrames
<1>9. QED
  BY <1>7, <1>8

\* Push keeps the indices, locked or not (CallStack::Push).
LEMMA PushIndexes ==
  ASSUME NEW F, NEW c \in StacksOf(F), NEW f \in F, IndexesRealFrames(c)
  PROVE  IndexesRealFrames(Push(c, f))
<1>1. CASE c.locked
  BY <1>1, PushType DEF IndexesRealFrames
<1>2. CASE ~c.locked
  BY <1>2, PushNowIndexes DEF Push
<1>3. QED
  BY <1>1, <1>2

\* Pop keeps the indices when it does not throw (CallStack::Pop).
LEMMA PopIndexes ==
  ASSUME NEW F, NEW c \in StacksOf(F), CanPop(c), RealFrame("root") \in F,
         IndexesRealFrames(c)
  PROVE  IndexesRealFrames(Pop(c))
<1>1. CASE c.locked
  BY <1>1, PopType DEF IndexesRealFrames
<1>2. CASE ~c.locked
  BY <1>2, PopNowIndexes DEF Pop, CanPop
<1>3. QED
  BY <1>1, <1>2

\* One turn of ApplyDelayedModifications, when it does not throw.
LEMMA ApplyNextKeeps ==
  ASSUME NEW F, NEW c \in StacksOf(F), Draining(c), ~Underflows(c),
         RealFrame("root") \in F, IndexesRealFrames(c)
  PROVE  /\ ApplyNext(c) \in StacksOf(F)
         /\ IndexesRealFrames(ApplyNext(c))
         /\ ~ApplyNext(c).locked
         /\ ApplyNext(c).delayed = Tail(c.delayed)
         /\ Head(c.delayed).call = "push" => ApplyNext(c).stack # <<>>
<1> DEFINE change == Head(c.delayed)
           rest == DropFirst(c)
<1>1. /\ c.delayed # <<>>
      /\ c.delayed \in Seq([call : {"push", "pop"}, frame : F])
      /\ ~c.locked
  BY DEF Draining, StacksOf
<1>2. change \in [call : {"push", "pop"}, frame : F]
  BY <1>1, HeadTailProperties
<1>3. /\ rest \in StacksOf(F)
      /\ rest.stack = c.stack
      /\ rest.real = c.real
      /\ ~rest.locked
      /\ rest.delayed = Tail(c.delayed)
  BY <1>1 DEF DropFirst, WithLock, StacksOf
<1>4. IndexesRealFrames(rest)
  BY <1>3 DEF IndexesRealFrames
<1>5. CASE change.call = "push"
  <2>1. ApplyNext(c) = Push(rest, change.frame)
    BY <1>5 DEF ApplyNext
  <2>2. Push(rest, change.frame).stack = Append(c.stack, change.frame)
    <3>1. change.frame \in F
      BY <1>2
    <3> HIDE DEF change, rest
    <3>2. QED
      BY <1>3, <3>1, PushType
  <2>3. Append(c.stack, change.frame) # <<>>
    BY <1>2, AppendProperties DEF StacksOf
  <2>4. /\ Push(rest, change.frame) \in StacksOf(F)
        /\ IndexesRealFrames(Push(rest, change.frame))
        /\ ~Push(rest, change.frame).locked
        /\ Push(rest, change.frame).delayed = rest.delayed
    <3>1. change.frame \in F
      BY <1>2
    <3> HIDE DEF change, rest
    <3>2. QED
      BY <1>3, <1>4, <3>1, PushType, PushIndexes
  <2>5. QED
    BY <1>3, <2>1, <2>2, <2>3, <2>4
<1>6. CASE change.call # "push"
  <2>1. ApplyNext(c) = Pop(rest)
    BY <1>6 DEF ApplyNext
  <2>2. CanPop(rest)
    BY <1>2, <1>3, <1>6 DEF CanPop, Underflows
  <2>3. QED
    BY <1>3, <1>4, <1>6, <2>1, <2>2, PopType, PopIndexes
<1>7. QED
  BY <1>5, <1>6

\* A clone is a call stack with the same frames and indices (Clone).
LEMMA CloneKeeps ==
  ASSUME NEW F, NEW c \in StacksOf(F), IndexesRealFrames(c)
  PROVE  /\ Clone(c) \in StacksOf(F)
         /\ IndexesRealFrames(Clone(c))
         /\ Clone(c).stack = c.stack
         /\ Clone(c).locked = FALSE
         /\ Clone(c).delayed = <<>>
BY DEF Clone, WithFrames, EmptyStack, StacksOf, IndexesRealFrames

\* Locking and unlocking touch the flag only (GetLock, ~Lock).
LEMMA LockKeeps ==
  ASSUME NEW F, NEW c \in StacksOf(F), IndexesRealFrames(c)
  PROVE  /\ GetLock(c) \in StacksOf(F) /\ IndexesRealFrames(GetLock(c))
         /\ Release(c) \in StacksOf(F) /\ IndexesRealFrames(Release(c))
BY DEF GetLock, Release, WithLock, StacksOf, IndexesRealFrames

\* A new call stack (the members' initial values).
LEMMA EmptyStackOK ==
  ASSUME NEW F
  PROVE  EmptyStack \in StacksOf(F) /\ IndexesRealFrames(EmptyStack)
BY DEF EmptyStack, StacksOf, IndexesRealFrames
=============================================================================
