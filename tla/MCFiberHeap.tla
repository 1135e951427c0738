---------------------------- MODULE MCFiberHeap ----------------------------
(***************************************************************************)
(* Instances of FiberHeap for TLC.  Objects are interchangeable until they *)
(* are allocated and never reused, so it is enough to look at the          *)
(* behaviours that allocate them in the order of FiberOrder and            *)
(* FutureOrder; unlike a symmetry set this is sound for liveness, too.     *)
(***************************************************************************)
EXTENDS FiberHeapInvariants, TLC

CONSTANTS f1, f2, p1, p2

FiberOrder == <<f1, f2>>
FutureOrder == <<p1, p2>>

InOrder(order) ==
  \A i, j \in DOMAIN order : i < j /\ Allocated(order[j]) => Allocated(order[i])

Ordered == InOrder(FiberOrder) /\ InOrder(FutureOrder)

OrderedNext == HeapNext /\ Ordered'

\* As in FairSpec: the loop turns while it is inside Run, and the clock passes
\* every deadline.  Nothing is asked of the collector.
OrderedSpec ==
  /\ HeapInit
  /\ [][OrderedNext]_hvars
  /\ WF_hvars(HeapStep /\ Ordered')
  /\ SF_hvars(FireTimer /\ UNCHANGED heapVars)
=============================================================================
