----------------------------- MODULE MemoryBank -----------------------------
(***************************************************************************)
(* Banks of script memory (src/src/core/memory_internal): MemoryBank over  *)
(* DynamicStorage, a binary tree of intervals whose tagged nodes stand for *)
(* ranges of equal words, copied lazily: a copy shares the whole tree, and *)
(* a write copies the shared nodes on its way.                             *)
(*                                                                         *)
(* Abstractions.  The banks in a node's `of' are those that reach it: it   *)
(* is what shared_ptr::unique asks.  The recursion of Set_impl is written  *)
(* by its effect: the nodes it visits are those that meet the range and    *)
(* have no ancestor inside it.  A word is the set of its one bits, so &,   *)
(* ~, | and << are set operations.                                         *)
(***************************************************************************)
EXTENDS Integers, FiniteSetsExt

CONSTANTS
  Banks,      \* MemoryBank objects: those of a Memory and of its copies
  Bits,       \* the bits of a word (32 in the code)
  Widths,     \* the access widths besides Bits (1, 2, 4, 8 and 16)
  MinCap,     \* the least capacity of a tree (32 in the code)
  MaxCap,     \* bounds the capacities
  Sizes,      \* the sizes banks are given
  Blank,      \* the size of the banks that read a file (0 or 2000)
  Cells,      \* the indices that are written
  Ranges,     \* the ranges that are filled, as <<begin, end>>
  Values,     \* the words they are filled with, and that are written whole
  Observed,   \* the indices that are read
  FillShared  \* whether Fill is called on a bank that shares nodes

\* The powers of two, as far as they are needed.
Doubled[k \in 0..20] == IF k = 0 THEN 1 ELSE 2 * Doubled[k - 1]
Powers == {Doubled[k] : k \in 0..20}

Capacities == {w \in Powers : MinCap <= w /\ w <= MaxCap}
Word == SUBSET (0..(Bits - 1))

ASSUME MemoryAssumption ==
  /\ MinCap \in Powers /\ 2 <= MinCap /\ MaxCap \in Powers /\ MinCap <= MaxCap
  /\ Sizes \cup Blank \subseteq 0..MaxCap /\ Cells \cup Observed \subseteq 0..(MaxCap - 1)
  /\ \A r \in Ranges : r[1] \in Nat /\ r[2] \in r[1]..MaxCap
  /\ Bits \in Nat \ {0} /\ Values \subseteq Word
  /\ \A w \in Widths : w \in 1..Bits /\ Bits % w = 0

\* A place in the tree is known by fr + to of the interval of cells it covers;
\* the leaves are even.
Places == 0..(2 * MaxCap - 2)
Width == [i \in Places |-> Max({w \in Powers : (i + 1) % w = 0})]
Fr == [i \in Places |-> (i + 1 - Width[i]) \div 2]
To == [i \in Places |-> Fr[i] + Width[i] - 1]
Leaf(cell) == 2 * cell
Root(c) == c - 1
Inside(i, lo, hi) == lo <= Fr[i] /\ To[i] <= hi

\* The way from the root to i, and without i.
Way == [i \in Places |-> {j \in Places : Inside(i, Fr[j], To[j])}]
Above == [i \in Places |-> Way[i] \ {i}]

Children(i) == {j \in Places : i \in Above[j] /\ Width[i] = 2 * Width[j]}

VARIABLES
  size,       \* [Banks -> Nat], size_
  cap,        \* [Banks -> Nat], root_->to + 1, 0 without a root
  nodes       \* the Node objects: [at : Places, tag : set of at most one Word,
              \* of : SUBSET Banks]

mvars == <<size, cap, nodes>>

-----------------------------------------------------------------------------
(* The tree.                                                               *)

\* Get_impl: the topmost tag on the way to i, if there is one.
TagAt(b, i, m) ==
  LET tagged == {o \in m : o.at \in Way[i] /\ b \in o.of /\ o.tag # {}}
  IN IF tagged = {} THEN {}
     ELSE (CHOOSE o \in tagged : \A p \in tagged : Width[p.at] <= Width[o.at]).tag

\* Mutant of Shared: the use count is compared with two.
SharedByMany(b, of) == Cardinality(of) > 2

\* ! unique(): someone else reaches the node.
Shared(b, of) == of # {b}

\* Set_impl: nodes inside the range are tagged, those partly inside push their
\* tag down to both children, and a visited node that others share is copied.
\* Pushdown writes to the children before they are copied: whoever shares one
\* sees its new tag.
Set_impl(b, c, lo, hi, word, m) ==
  LET visited == {i \in Places : /\ To[i] < c /\ Fr[i] <= hi /\ lo <= To[i]
                                 /\ \A j \in Above[i] : To[j] < c => ~Inside(j, lo, hi)}
      split == {i \in visited : ~Inside(i, lo, hi)}
      below == UNION {Children(i) : i \in split}
      Pushed(i, t) == IF i \in below
                      THEN LET d == TagAt(b, CHOOSE j \in split : i \in Children(j), m)
                           IN IF d # {} THEN d ELSE t
                      ELSE t
      Written(i, t) == IF i \in split THEN {} ELSE IF i \in visited THEN {word} ELSE Pushed(i, t)
      mine == {o \in m : b \in o.of}
      shared == {[at |-> o.at, tag |-> Pushed(o.at, o.tag), of |-> o.of \ {b}] :
                   o \in {p \in mine : p.at \in visited /\ Shared(b, p.of)}}
      own == {[at |-> o.at, tag |-> Written(o.at, o.tag),
               of |-> IF o.at \in visited /\ Shared(b, o.of) THEN {b} ELSE o.of] : o \in mine}
      new == {[at |-> i, tag |-> Written(i, {{}}), of |-> {b}] :
                i \in below \ {o.at : o \in mine}}
  IN (m \ mine) \cup shared \cup own \cup new

\* Apply: the topmost tagged nodes.
Apply(b, m) ==
  {o \in m : /\ b \in o.of /\ o.tag # {}
             /\ \A p \in m : b \in p.of /\ p.at \in Above[o.at] => p.tag = {}}

\* Bank b lets go of its tree.
Release(b, m) ==
  {[o EXCEPT !.of = @ \ {b}] : o \in {p \in m : p.of # {b}}}

\* The segment that begins at a cell, if there is one, is set.
SetAt(b, c, segments, cell, m) ==
  LET here == {o \in segments : Fr[o.at] = cell}
      o == CHOOSE p \in here : TRUE
  IN IF here = {} THEN m ELSE Set_impl(b, c, Fr[o.at], To[o.at], UNION o.tag, m)

\* Segments are set from left to right, as Apply comes to them.
SetAll(b, c, segments, m) ==
  LET after[k \in 0..MaxCap] ==
        IF k = 0 THEN m ELSE SetAt(b, c, segments, k - 1, after[k - 1])
  IN after[MaxCap]

Rebuild(b, new, m) ==
  SetAll(b, new, Apply(b, m),
         Release(b, m) \cup {[at |-> Root(new), tag |-> {{}}, of |-> {b}]})

\* The capacity Resize settles on: doubled until n fits, or halved while it is
\* four times too large.
NewCap(c, n) ==
  IF c < n
  THEN Min({k \in Capacities : k >= n /\ k >= c})
  ELSE LET halved == {c} \cup {k \in Capacities : k <= c}
           least == Max({k \in halved : k <= MinCap \/ k \div 4 < n})
       IN IF least < c \div 4 THEN least ELSE c

Resized(b, c, n, m) ==
  LET k == NewCap(c, n) IN IF k = c THEN m ELSE Rebuild(b, k, m)

\* Fill passes the last index on: end - 1, which wraps around for 0.
LastOf(end) == IF end = 0 THEN 2 * MaxCap ELSE end - 1

-----------------------------------------------------------------------------
(* The operations.                                                         *)

BankInit ==
  /\ size = [b \in Banks |-> 0]
  /\ cap = [b \in Banks |-> 0]
  /\ nodes = {}

Resize(b, n) ==
  /\ size' = [size EXCEPT ![b] = n]
  /\ cap' = [cap EXCEPT ![b] = NewCap(@, n)]
  /\ nodes' = Resized(b, cap[b], n, nodes)

Value(b, i) == UNION TagAt(b, Leaf(i), nodes)

Set(b, i, word) ==
  /\ i < size[b]
  /\ nodes' = Set_impl(b, cap[b], i, i, word, nodes)
  /\ UNCHANGED <<size, cap>>

\* Memory::Write through a location of the given width: the n-th field of that
\* width.
WordOf(n, width) == (n * width) \div Bits
Shift(n, width) == (n * width) % Bits
Mask(n, width) == Shift(n, width)..(Shift(n, width) + width - 1)

\* The field is cleared and the shifted value is or'ed in.
Patched(word, n, width, value) ==
  (word \ Mask(n, width)) \cup ({k + Shift(n, width) : k \in value} \cap (0..(Bits - 1)))

\* A value larger than the field is refused; the comparison is signed, so
\* negative values pass.
Negative(value) == Bits - 1 \in value
Fits(value, width) == Negative(value) \/ value \subseteq 0..(width - 1)

Write(b, n, width, value) ==
  /\ Fits(value, width)
  /\ Set(b, WordOf(n, width), Patched(Value(b, WordOf(n, width)), n, width, value))

Alone(b) == \A o \in nodes : b \in o.of => o.of = {b}

\* Memory::Fill, which checks the range.
Fill(b, begin, end, word) ==
  /\ begin <= end /\ end <= size[b]
  /\ FillShared \/ Alone(b)
  /\ nodes' = Set_impl(b, cap[b], begin, LastOf(end), word, nodes)
  /\ UNCHANGED <<size, cap>>

\* Assignment of banks: the copy shares the whole tree.
Copy(a, b) ==
  /\ a # b
  /\ size' = [size EXCEPT ![b] = size[a]]
  /\ cap' = [cap EXCEPT ![b] = cap[a]]
  /\ nodes' = {IF a \in o.of THEN [o EXCEPT !.of = @ \cup {b}] ELSE o :
                 o \in Release(b, nodes)}

\* What Save returns and Load is given: the size and the topmost tags.
Saved(a) == [size |-> size[a], data |-> Apply(a, nodes)]

\* Bank a is written to a file; a fresh bank of some size reads it and is moved
\* into b.  The file is a value, so nothing is lost by doing both in one step.
SaveAndLoad(a, b, blank) ==
  LET file == Saved(a)
      c == NewCap(0, blank)
      d == NewCap(c, file.size)
      m == Resized(b, c, file.size, Resized(b, 0, blank, Release(b, nodes)))
      cleared == Set_impl(b, d, 0, LastOf(file.size), {}, m)
  IN /\ size' = [size EXCEPT ![b] = file.size]
     /\ cap' = [cap EXCEPT ![b] = d]
     /\ nodes' = SetAll(b, d, file.data, cleared)

Fields(width) == {n \in 0..(MaxCap * Bits - 1) : WordOf(n, width) \in Cells}

BankNext ==
  \/ \E b \in Banks :
       \/ \E n \in Sizes : Resize(b, n)
       \/ \E i \in Cells, word \in Values : Set(b, i, word)
       \/ \E width \in Widths :
            \E n \in Fields(width), value \in Word : Write(b, n, width, value)
       \/ \E r \in Ranges, word \in Values : Fill(b, r[1], r[2], word)
  \/ \E a, b \in Banks :
       \/ Copy(a, b)
       \/ \E blank \in Blank : SaveAndLoad(a, b, blank)

BankSpec == BankInit /\ [][BankNext]_mvars

-----------------------------------------------------------------------------
(* What is read.                                                           *)

\* Get_impl comes to a tag before it comes to a null node.
Readable(b, i) ==
  LET way == {j \in Way[Leaf(i)] : To[j] < cap[b]}
  IN \E o \in nodes :
       /\ b \in o.of /\ o.at \in way /\ o.tag # {}
       /\ \A j \in way : Width[j] > Width[o.at] => \E p \in nodes : p.at = j /\ b \in p.of

\* What the banks read as; where Get_impl throws ("Unknown error nowAt is
\* nullptr") that is no Word.
Words ==
  [b \in Banks |-> [i \in Observed |->
     IF i >= cap[b] THEN {} ELSE IF Readable(b, i) THEN Value(b, i) ELSE {Bits}]]
=============================================================================
