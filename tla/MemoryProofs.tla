---------------------------- MODULE MemoryProofs ----------------------------
(***************************************************************************)
(* Script memory, in its banks and in the files.                           *)
(*                                                                         *)
(* The banks: for any number of banks, any capacities that are powers of   *)
(* two, any words, cells and ranges, MemoryBank implements PlainMemory.    *)
(* The invariant (MInv) says that the nodes a bank reaches form a tree     *)
(* without gaps (TreeOf), that a bank has one node at a place (OneNode),   *)
(* and that a node that is shared is read alike by all who share it        *)
(* (Alike).  SetWorks says what Set_impl does to what is read; Rebuild,    *)
(* Resize, Copy, Save and Load are put together from it.                   *)
(*                                                                         *)
(* The files: for any number of slots and of changes, the types,           *)
(* NoProgressLost and GlobalsCoverSaves.  The induction follows what was   *)
(* saved through the file: a file that is whole holds at least what was    *)
(* last saved completely (FileCovers), the sections written so far are     *)
(* those of the running program (WrittenSoFar) and the sections read so    *)
(* far those of the file (ReadSoFar).  A save game is never ahead of the   *)
(* last complete global memory (DurableCovers), so whoever starts from     *)
(* that memory is not behind any save game either.                         *)
(***************************************************************************)
EXTENDS SaveFiles, MemoryBankRefinement, WellFoundedInduction, TLAPS

-----------------------------------------------------------------------------
(* Numbers and powers of two *)

\* A set of numbers that holds 0 and the successor of each of its members.
LEMMA AllNumbers ==
  ASSUME NEW S \in SUBSET Nat, 0 \in S, \A k \in S : k + 1 \in S
  PROVE  S = Nat
<1> DEFINE R == {ss \in Nat \X Nat : ss[1] < ss[2]}
<1> SUFFICES ASSUME Nat \ S # {} PROVE FALSE
  OBVIOUS
<1>1. IsWellFoundedOn(R, Nat)
  BY NatLessThanWellFounded DEF OpToRel
<1>2. PICK x \in Nat \ S : \A y \in Nat \ S : <<y, x>> \notin R
  BY <1>1, WFMin, Nat \ S \subseteq Nat
<1>3. x - 1 \in Nat /\ <<x - 1, x>> \in R
  BY <1>2
<1>4. x - 1 \in S
  BY <1>2, <1>3
<1> QED
  BY <1>2, <1>3, <1>4

\* A set of numbers that is not empty has a least one.
LEMMA LeastNumber ==
  ASSUME NEW S \in SUBSET Nat, S # {}
  PROVE  \E x \in S : \A y \in S : x <= y
<1> DEFINE R == {ss \in Nat \X Nat : ss[1] < ss[2]}
<1>1. IsWellFoundedOn(R, Nat)
  BY NatLessThanWellFounded DEF OpToRel
<1>2. PICK x \in S : \A y \in S : <<y, x>> \notin R
  BY <1>1, WFMin
<1>3. ASSUME NEW y \in S PROVE x <= y
  <2>1. x \in Nat /\ y \in Nat
    OBVIOUS
  <2>2. y < x => <<y, x>> \in R
    BY <2>1
  <2> QED
    BY <1>2, <2>1, <2>2
<1> QED
  BY <1>3

\* If it is bounded, it has a greatest one.
LEMMA GreatestNumber ==
  ASSUME NEW S \in SUBSET Nat, S # {}, NEW n \in Nat, \A x \in S : x <= n
  PROVE  \E x \in S : \A y \in S : y <= x
<1> DEFINE T == {n - x : x \in S}
<1>1. T \in SUBSET Nat /\ T # {}
  <2>1. \A x \in S : x \in Nat /\ n - x \in Nat
    OBVIOUS
  <2> QED
    BY <2>1
<1>2. PICK t \in T : \A y \in T : t <= y
  BY <1>1, LeastNumber
<1>3. PICK x \in S : t = n - x
  OBVIOUS
<1>4. ASSUME NEW y \in S PROVE y <= x
  <2>1. n - y \in T
    OBVIOUS
  <2> QED
    BY <1>2, <1>3, <2>1
<1> QED
  BY <1>4

\* Doubled is the function its definition says it is: there is one up to every k.
DoublingTo(n, f) == f = [k \in 0 .. n |-> IF k = 0 THEN 1 ELSE 2 * f[k - 1]]

LEMMA DoubledExists == \A n \in Nat : \E f : DoublingTo(n, f)
<1> DEFINE S == {n \in Nat : \E f : DoublingTo(n, f)}
<1>1. 0 \in S
  <2>1. DoublingTo(0, [k \in 0 .. 0 |-> 1])
    BY DEF DoublingTo
  <2> QED
    BY <2>1
<1>2. ASSUME NEW x \in S PROVE x + 1 \in S
  <2>1. PICK f : DoublingTo(x, f)
    OBVIOUS
  <2> DEFINE g == [k \in 0 .. x + 1 |-> IF k = x + 1 THEN 2 * f[x] ELSE f[k]]
             h == [k \in 0 .. x + 1 |-> IF k = 0 THEN 1 ELSE 2 * g[k - 1]]
  <2>2. ASSUME NEW k \in 0 .. x + 1 PROVE g[k] = h[k]
    <3>1. CASE k = x + 1
      BY <3>1
    <3>2. CASE k # x + 1 /\ k = 0
      BY <2>1, <3>2 DEF DoublingTo
    <3>3. CASE k # x + 1 /\ k # 0
      <4>1. k \in 0 .. x /\ k - 1 \in 0 .. x
        BY <3>3
      <4>2. f[k] = 2 * f[k - 1]
        BY <2>1, <3>3, <4>1 DEF DoublingTo
      <4> QED
        BY <3>3, <4>1, <4>2
    <3> QED
      BY <3>1, <3>2, <3>3
  <2>3. g = h
    BY <2>2
  <2>4. DoublingTo(x + 1, g)
    BY <2>3 DEF DoublingTo
  <2> QED
    BY <2>4
<1>3. S = Nat
  <2> HIDE DEF S
  <2>1. S \subseteq Nat
    BY DEF S
  <2> QED
    BY <1>1, <1>2, <2>1, AllNumbers
<1> QED
  BY <1>3

LEMMA DoubledIs ==
  /\ Doubled[0] = 1
  /\ \A k \in 0 .. 19 : Doubled[k + 1] = 2 * Doubled[k]
<1>1. DoublingTo(20, CHOOSE f : DoublingTo(20, f))
  BY DoubledExists
<1>2. Doubled = CHOOSE f : DoublingTo(20, f)
  BY DEF Doubled, DoublingTo
<1>3. DoublingTo(20, Doubled)
  BY <1>1, <1>2
<1>4. ASSUME NEW k \in 0 .. 19 PROVE Doubled[k + 1] = 2 * Doubled[k]
  <2>1. k + 1 \in 0 .. 20 /\ k + 1 # 0 /\ (k + 1) - 1 = k
    OBVIOUS
  <2> QED
    BY <1>3, <2>1 DEF DoublingTo
<1> QED
  BY <1>3, <1>4 DEF DoublingTo

LEMMA DoubledGrows ==
  /\ \A k \in 0 .. 20 : Doubled[k] \in Nat \ {0}
  /\ \A k \in 0 .. 20 : \A n \in Nat : k + n <= 20 =>
       \E f \in Nat \ {0} : Doubled[k + n] = Doubled[k] * f /\ (n > 0 => f % 2 = 0)
<1> DEFINE S == {n \in Nat : n <= 20 => Doubled[n] \in Nat \ {0}}
<1>1. 0 \in S
  BY DoubledIs
<1>2. ASSUME NEW n \in S PROVE n + 1 \in S
  <2>1. CASE n + 1 <= 20
    <3>1. n \in 0 .. 19
      BY <2>1
    <3> QED
      BY <3>1, DoubledIs
  <2> QED
    BY <2>1
<1>3. S = Nat
  <2> HIDE DEF S
  <2>1. S \subseteq Nat
    BY DEF S
  <2> QED
    BY <1>1, <1>2, <2>1, AllNumbers
<1>4. \A k \in 0 .. 20 : Doubled[k] \in Nat \ {0}
  BY <1>3
<1>5. ASSUME NEW k \in 0 .. 20
      PROVE  \A n \in Nat : k + n <= 20 =>
               \E f \in Nat \ {0} : Doubled[k + n] = Doubled[k] * f /\ (n > 0 => f % 2 = 0)
  <2> DEFINE T == {n \in Nat : k + n <= 20 =>
               \E f \in Nat \ {0} : Doubled[k + n] = Doubled[k] * f /\ (n > 0 => f % 2 = 0)}
  <2>1. 0 \in T
    <3>1. Doubled[k + 0] = Doubled[k] * 1
      BY <1>4
    <3> QED
      BY <3>1
  <2>2. ASSUME NEW n \in T PROVE n + 1 \in T
    <3>1. CASE k + (n + 1) <= 20
      <4>1. PICK f \in Nat \ {0} : Doubled[k + n] = Doubled[k] * f
        BY <3>1
      <4>2. Doubled[k + (n + 1)] = 2 * Doubled[k + n]
        <5>1. k + n \in 0 .. 19 /\ (k + n) + 1 = k + (n + 1)
          BY <3>1
        <5> QED
          BY <5>1, DoubledIs
      <4>3. Doubled[k + (n + 1)] = Doubled[k] * (2 * f)
        BY <1>4, <4>1, <4>2
      <4>4. (2 * f) % 2 = 0 /\ 2 * f \in Nat \ {0}
        BY <4>1
      <4> QED
        BY <4>3, <4>4
    <3> QED
      BY <3>1
  <2>3. T = Nat
    <3> HIDE DEF T
    <3>1. T \subseteq Nat
      BY DEF T
    <3> QED
      BY <2>1, <2>2, <3>1, AllNumbers
  <2> QED
    BY <2>3
<1> QED
  BY <1>4, <1>5

\* What is used of powers of two.
LEMMA PowersAre ==
  /\ 1 \in Powers /\ Powers \subseteq Nat \ {0}
  /\ \A u, v \in Powers : u <= v => \E n \in Nat \ {0} : v = u * n
  /\ \A u, v \in Powers : u < v => \E n \in Nat \ {0} : v = (2 * u) * n
  /\ \A u, v \in Powers : u < v => 2 * u \in Powers
  /\ \A u \in Powers : u > 1 => \E h \in Powers : u = 2 * h
<1>1. 1 \in Powers /\ Powers \subseteq Nat \ {0}
  <2>1. 0 \in 0 .. 20
    OBVIOUS
  <2> QED
    BY <2>1, DoubledIs, DoubledGrows DEF Powers
<1>2. ASSUME NEW u \in Powers, NEW v \in Powers, u <= v
      PROVE  \E j \in 0 .. 20, n \in Nat :
               u = Doubled[j] /\ j + n <= 20 /\ v = Doubled[j + n] /\ (u < v => n > 0)
  <2>1. PICK j \in 0 .. 20, k \in 0 .. 20 : u = Doubled[j] /\ v = Doubled[k]
    BY DEF Powers
  <2>2. CASE j <= k
    <3>1. k - j \in Nat /\ j + (k - j) = k
      BY <2>2
    <3>2. u < v => k - j > 0
      BY <2>1, <2>2, <1>1
    <3>3. j + (k - j) <= 20 /\ v = Doubled[j + (k - j)]
      BY <2>1, <3>1
    <3> QED
      BY <2>1, <3>1, <3>2, <3>3
  <2>3. CASE k < j
    <3>1. j - k \in Nat /\ k + (j - k) = j
      BY <2>3
    <3>2. PICK f \in Nat \ {0} : u = v * f /\ f % 2 = 0
      <4>1. k + (j - k) <= 20 /\ j - k > 0
        BY <2>3, <3>1
      <4>2. \E f \in Nat \ {0} : Doubled[k + (j - k)] = Doubled[k] * f /\ f % 2 = 0
        BY <3>1, <4>1, DoubledGrows
      <4> QED
        BY <2>1, <3>1, <4>2
    <3>3. f >= 2
      BY <3>2
    <3>4. v * f >= v * 2
      BY <1>1, <3>3
    <3> QED
      BY <1>1, <1>2, <3>2, <3>4
  <2> QED
    BY <2>2, <2>3
<1>3. ASSUME NEW u \in Powers, NEW v \in Powers, u <= v
      PROVE  \E n \in Nat \ {0} : v = u * n
  <2>1. PICK j \in 0 .. 20, n \in Nat :
               u = Doubled[j] /\ j + n <= 20 /\ v = Doubled[j + n]
    BY <1>2, <1>3
  <2> QED
    BY <2>1, DoubledGrows
<1>4. ASSUME NEW u \in Powers, NEW v \in Powers, u < v
      PROVE  2 * u \in Powers /\ \E n \in Nat \ {0} : v = (2 * u) * n
  <2>1. PICK j \in 0 .. 20, n \in Nat :
               u = Doubled[j] /\ j + n <= 20 /\ v = Doubled[j + n] /\ n > 0
    BY <1>1, <1>2, <1>4
  <2>2. PICK f \in Nat \ {0} : v = u * f /\ f % 2 = 0
    BY <2>1, DoubledGrows
  <2>3. f \div 2 \in Nat \ {0} /\ f = 2 * (f \div 2)
    BY <2>2
  <2>4. v = (2 * u) * (f \div 2)
    BY <1>1, <2>2, <2>3
  <2>5. 2 * u \in Powers
    <3>1. j \in 0 .. 19 /\ j + 1 \in 0 .. 20
      BY <2>1
    <3> QED
      BY <2>1, <3>1, DoubledIs DEF Powers
  <2> QED
    BY <2>3, <2>4, <2>5
<1>5. ASSUME NEW u \in Powers, u > 1 PROVE \E h \in Powers : u = 2 * h
  <2>1. PICK j \in 0 .. 20 : u = Doubled[j]
    BY DEF Powers
  <2>2. j - 1 \in 0 .. 19 /\ (j - 1) + 1 = j /\ j - 1 \in 0 .. 20
    BY <1>5, <2>1, DoubledIs
  <2>3. u = 2 * Doubled[j - 1]
    BY <2>1, <2>2, DoubledIs
  <2> QED
    BY <2>2, <2>3 DEF Powers
<1> QED
  BY <1>1, <1>3, <1>4, <1>5

-----------------------------------------------------------------------------
(* The intervals of the tree *)

LEMMA Division ==
  ASSUME NEW a \in Nat, NEW w \in Nat, w > 0
  PROVE  /\ a % w = 0 => a = w * (a \div w) /\ a \div w \in Nat
         /\ \A n \in Nat : a = w * n => a % w = 0
<1>1. a % w = 0 => a = w * (a \div w) /\ a \div w \in Nat
  OBVIOUS
<1>2. ASSUME NEW n \in Nat, a = w * n PROVE a % w = 0
  BY <1>2
<1> QED
  BY <1>1, <1>2

\* The factor that is not a power of two is odd.
LEMMA WidthIs ==
  ASSUME NEW i \in Places
  PROVE  /\ Width[i] \in Powers /\ Width[i] \in Nat \ {0} /\ Width[i] <= MaxCap
         /\ \E q \in Nat : i + 1 = Width[i] * (2 * q + 1)
<1> USE MemoryAssumption
<1>1. MaxCap \in Nat \ {0} /\ i \in Nat /\ i + 1 \in Nat \ {0} /\ i + 1 < 2 * MaxCap
  BY PowersAre DEF Places
<1> DEFINE D == {w \in Powers : (i + 1) % w = 0}
<1>2. \A w \in Powers : (i + 1) % w = 0 <=> \E n \in Nat \ {0} : i + 1 = w * n
  <2> SUFFICES ASSUME NEW w \in Powers
               PROVE  (i + 1) % w = 0 <=> \E n \in Nat \ {0} : i + 1 = w * n
    OBVIOUS
  <2>1. w \in Nat \ {0}
    BY PowersAre
  <2>2. (i + 1) % w = 0 => i + 1 = w * ((i + 1) \div w) /\ (i + 1) \div w \in Nat
    BY <1>1, <2>1, Division
  <2>3. ASSUME (i + 1) % w = 0 PROVE \E n \in Nat \ {0} : i + 1 = w * n
    <3>1. i + 1 = w * ((i + 1) \div w)
      BY <2>2, <2>3
    <3>2. (i + 1) \div w # 0
      BY <1>1, <2>1, <3>1
    <3> QED
      BY <2>2, <2>3, <3>1, <3>2
  <2>4. ASSUME NEW n \in Nat \ {0}, i + 1 = w * n PROVE (i + 1) % w = 0
    BY <1>1, <2>1, <2>4, Division
  <2> QED
    BY <2>3, <2>4
<1>3. 1 \in D
  <2>1. i + 1 = 1 * (i + 1)
    BY <1>1
  <2> QED
    BY <1>1, <1>2, <2>1, PowersAre
<1>4. \A w \in D : w \in Nat /\ w <= i + 1
  <2> SUFFICES ASSUME NEW w \in D PROVE w \in Nat /\ w <= i + 1
    OBVIOUS
  <2>1. PICK n \in Nat \ {0} : i + 1 = w * n
    BY <1>2
  <2>2. w \in Nat \ {0}
    BY PowersAre
  <2>3. w * n >= w * 1
    BY <2>1, <2>2
  <2> QED
    BY <2>1, <2>2, <2>3
<1>5. \E x \in D : \A y \in D : y <= x
  <2> HIDE DEF D
  <2>1. D \in SUBSET Nat /\ D # {}
    BY <1>3, <1>4
  <2> QED
    BY <1>1, <1>4, <2>1, GreatestNumber
<1>6. Width[i] \in D /\ \A y \in D : y <= Width[i]
  <2>1. Width[i] = Max(D)
    BY DEF Width
  <2>2. \E x \in D : \A y \in D : x >= y
    <3>1. \A x, y \in D : x >= y <=> y <= x
      BY <1>4
    <3> QED
      BY <1>5, <3>1
  <2>3. Max(D) \in D /\ \A y \in D : Max(D) >= y
    <3> HIDE DEF D
    <3> QED
      BY <2>2 DEF Max
  <2> QED
    BY <1>4, <2>1, <2>3
<1> DEFINE w == Width[i]
<1>7. w \in Powers /\ w \in Nat \ {0}
  BY <1>6, PowersAre
<1>8. PICK n \in Nat \ {0} : i + 1 = w * n
  BY <1>2, <1>6
<1>9. w <= MaxCap
  <2> SUFFICES ASSUME MaxCap < w PROVE FALSE
    BY <1>1, <1>7
  <2>1. PICK f \in Nat \ {0} : w = (2 * MaxCap) * f
    BY <1>7, PowersAre
  <2>2. w >= 2 * MaxCap
    <3>1. (2 * MaxCap) * f >= (2 * MaxCap) * 1
      BY <1>1, <2>1
    <3> QED
      BY <1>1, <2>1, <3>1
  <2>3. w <= i + 1
    BY <1>4, <1>6
  <2> QED
    BY <1>1, <1>7, <2>2, <2>3
<1>10. ASSUME n % 2 = 0 PROVE FALSE
  <2>1. n = 2 * (n \div 2) /\ n \div 2 \in Nat \ {0}
    BY <1>10
  <2>2. i + 1 = (2 * w) * (n \div 2)
    BY <1>7, <1>8, <2>1
  <2>3. (2 * w) * (n \div 2) >= (2 * w) * 1
    BY <1>7, <2>1
  <2>4. w < MaxCap
    BY <1>1, <1>7, <1>9, <2>2, <2>3
  <2>5. 2 * w \in D
    BY <1>2, <1>7, <2>1, <2>2, <2>4, PowersAre
  <2> QED
    BY <1>6, <1>7, <2>5
<1>11. n \div 2 \in Nat /\ n = 2 * (n \div 2) + 1
  BY <1>10
<1> QED
  BY <1>7, <1>8, <1>9, <1>11

\* A power of two times an odd number: no other way.
LEMMA WidthOf ==
  ASSUME NEW i \in Places, NEW w \in Powers, NEW q \in Nat, i + 1 = w * (2 * q + 1)
  PROVE  Width[i] = w
<1>1. PICK p \in Nat : i + 1 = Width[i] * (2 * p + 1)
  BY WidthIs
<1>2. w \in Nat \ {0} /\ Width[i] \in Nat \ {0} /\ Width[i] \in Powers
  BY WidthIs, PowersAre
<1>3. ASSUME NEW u \in Nat \ {0}, NEW v \in Nat \ {0}, NEW a \in Nat, NEW c \in Nat,
             NEW n \in Nat \ {0}, v = (2 * u) * n, u * (2 * a + 1) = v * (2 * c + 1)
      PROVE  FALSE
  <2>1. u * (2 * a + 1) = u * (2 * (n * (2 * c + 1)))
    <3>1. u * (2 * a + 1) = ((2 * u) * n) * (2 * c + 1)
      BY <1>3
    <3>2. \A m \in Nat : ((2 * u) * n) * m = u * (2 * (n * m))
      OBVIOUS
    <3> QED
      BY <3>1, <3>2
  <2>2. 2 * a + 1 \in Nat /\ 2 * (n * (2 * c + 1)) \in Nat
    OBVIOUS
  <2>3. \A x, y \in Nat : u * x = u * y => x = y
    OBVIOUS
  <2>4. 2 * a + 1 = 2 * (n * (2 * c + 1))
    BY <2>1, <2>2, <2>3
  <2>5. n * (2 * c + 1) \in Nat
    OBVIOUS
  <2> QED
    BY <2>4, <2>5
<1>4. CASE w < Width[i]
  <2>1. PICK n \in Nat \ {0} : Width[i] = (2 * w) * n
    BY <1>2, <1>4, PowersAre
  <2> QED
    BY <1>1, <1>2, <1>3, <2>1
<1>5. CASE Width[i] < w
  <2>1. PICK n \in Nat \ {0} : w = (2 * Width[i]) * n
    BY <1>2, <1>5, PowersAre
  <2> QED
    BY <1>1, <1>2, <1>3, <2>1
<1> QED
  BY <1>2, <1>4, <1>5

\* The interval of a place, as multiples of its width.
LEMMA Intervals ==
  ASSUME NEW i \in Places
  PROVE  /\ Fr[i] \in Nat /\ To[i] \in Nat /\ Width[i] \in Nat \ {0}
         /\ To[i] = Fr[i] + Width[i] - 1 /\ i = Fr[i] + To[i] /\ To[i] < MaxCap
         /\ \E q \in Nat : /\ i + 1 = Width[i] * (2 * q + 1)
                           /\ Fr[i] = Width[i] * q /\ To[i] + 1 = Width[i] * (q + 1)
<1> USE MemoryAssumption
<1> DEFINE w == Width[i]
<1>1. w \in Powers /\ w \in Nat \ {0} /\ w <= MaxCap
  BY WidthIs
<1>2. PICK q \in Nat : i + 1 = w * (2 * q + 1)
  BY WidthIs
<1>3. w * q \in Nat /\ w * (2 * q + 1) = 2 * (w * q) + w /\ w * (q + 1) = w * q + w
  BY <1>1
<1>4. Fr[i] = w * q
  <2>1. i + 1 - w = 2 * (w * q)
    BY <1>1, <1>2, <1>3 DEF Places
  <2>2. Fr[i] = (i + 1 - w) \div 2
    BY DEF Fr
  <2> HIDE DEF w
  <2> QED
    BY <1>3, <2>1, <2>2
<1>5. To[i] = Fr[i] + w - 1
  BY DEF To
<1>6. i \in Nat /\ i = Fr[i] + To[i] /\ To[i] \in Nat
  BY <1>1, <1>2, <1>3, <1>4, <1>5 DEF Places
<1>7. To[i] < MaxCap
  <2>1. PICK n \in Nat \ {0} : MaxCap = w * n
    BY <1>1, PowersAre
  <2>2. w * (2 * q + 1) < w * (2 * n)
    BY <1>1, <1>2, <2>1 DEF Places
  <2>3. \A x, y \in Nat : w * x < w * y => x < y
    <3> HIDE DEF w
    <3> SUFFICES ASSUME NEW x \in Nat, NEW y \in Nat, y <= x PROVE w * y <= w * x
      BY <1>1
    <3> QED
      BY <1>1
  <2>4. 2 * q + 1 < 2 * n
    BY <2>2, <2>3
  <2>5. q + 1 <= n
    BY <2>4
  <2>6. w * (q + 1) <= w * n
    BY <1>1, <2>5
  <2> QED
    BY <1>1, <1>3, <1>4, <1>5, <2>1, <2>6
<1> QED
  BY <1>1, <1>2, <1>3, <1>4, <1>5, <1>6, <1>7

\* Two intervals are apart, or one is inside the other; then it is at most half
\* as wide, or the same.
LEMMA NestedOrApart ==
  ASSUME NEW i \in Places, NEW j \in Places, Width[i] <= Width[j]
  PROVE  Inside(i, Fr[j], To[j]) \/ To[i] < Fr[j] \/ To[j] < Fr[i]
<1> DEFINE v == Width[i]
<1>1. /\ v \in Nat \ {0} /\ v \in Powers /\ Width[j] \in Powers
      /\ {Fr[i], To[i], Fr[j], To[j]} \subseteq Nat
  BY Intervals, WidthIs
<1>2. PICK n \in Nat \ {0} : Width[j] = v * n
  BY <1>1, PowersAre
<1>3. PICK p \in Nat : Fr[i] = v * p /\ To[i] + 1 = v * (p + 1)
  BY Intervals
<1>4. PICK q \in Nat : Fr[j] = Width[j] * q /\ To[j] + 1 = Width[j] * (q + 1)
  BY Intervals
<1> DEFINE a == n * q
           b == n * (q + 1)
<1>5. a \in Nat /\ b \in Nat /\ Fr[j] = v * a /\ To[j] + 1 = v * b
  <2>1. Fr[j] = (v * n) * q /\ To[j] + 1 = (v * n) * (q + 1)
    BY <1>2, <1>4
  <2>2. \A x \in Nat : (v * n) * x = v * (n * x) /\ n * x \in Nat
    BY <1>1
  <2> QED
    BY <2>1, <2>2
<1>6. \A x, y \in Nat : x <= y => v * x <= v * y
  BY <1>1
<1> HIDE DEF v, a, b
<1>7. CASE p < a
  <2>1. v * (p + 1) <= v * a
    BY <1>5, <1>6, <1>7
  <2> QED
    BY <1>1, <1>3, <1>5, <2>1
<1>8. CASE b <= p
  <2>1. v * b <= v * p
    BY <1>5, <1>6, <1>8
  <2> QED
    BY <1>1, <1>3, <1>5, <2>1
<1>9. CASE a <= p /\ p < b
  <2>1. v * a <= v * p /\ v * (p + 1) <= v * b
    BY <1>5, <1>6, <1>9
  <2> QED
    BY <1>1, <1>3, <1>5, <2>1 DEF Inside
<1> QED
  BY <1>5, <1>7, <1>8, <1>9

LEMMA StrictlyInside ==
  ASSUME NEW i \in Places, NEW j \in Places, Inside(i, Fr[j], To[j]), i # j
  PROVE  2 * Width[i] <= Width[j]
<1>1. /\ Fr[i] \in Nat /\ To[i] \in Nat /\ Fr[j] \in Nat /\ To[j] \in Nat
      /\ Width[i] \in Nat /\ Width[j] \in Nat
      /\ To[i] = Fr[i] + Width[i] - 1 /\ To[j] = Fr[j] + Width[j] - 1
      /\ i = Fr[i] + To[i] /\ j = Fr[j] + To[j]
  BY Intervals
<1>2. Width[i] < Width[j]
  <2>1. Fr[j] <= Fr[i] /\ To[i] <= To[j]
    BY DEF Inside
  <2>2. Width[j] <= Width[i] => Fr[i] = Fr[j] /\ To[i] = To[j]
    BY <1>1, <2>1
  <2>3. Width[j] <= Width[i] => i = j
    BY <1>1, <2>2
  <2> QED
    BY <1>1, <2>3
<1>3. PICK n \in Nat \ {0} : Width[j] = (2 * Width[i]) * n
  BY <1>2, WidthIs, PowersAre
<1>4. (2 * Width[i]) * n >= (2 * Width[i]) * 1
  BY <1>1, <1>3
<1> QED
  BY <1>1, <1>3, <1>4

\* The two halves of an interval.
LEMMA Halves ==
  ASSUME NEW i \in Places, Width[i] > 1
  PROVE  \E l, r \in Places :
           /\ Fr[l] = Fr[i] /\ To[r] = To[i] /\ Fr[r] = To[l] + 1
           /\ Width[i] = 2 * Width[l] /\ Width[l] = Width[r]
<1> USE MemoryAssumption
<1>1. PICK h \in Powers : Width[i] = 2 * h
  BY WidthIs, PowersAre
<1>2. h \in Nat \ {0} /\ MaxCap \in Nat \ {0}
  BY PowersAre
<1>3. PICK q \in Nat : /\ i + 1 = Width[i] * (2 * q + 1)
                       /\ Fr[i] = Width[i] * q /\ To[i] + 1 = Width[i] * (q + 1)
  BY Intervals
<1>4. To[i] \in Nat /\ Fr[i] \in Nat /\ To[i] < MaxCap /\ i \in Nat
  BY Intervals DEF Places
<1> DEFINE l == h * (2 * (2 * q) + 1) - 1
           r == h * (2 * (2 * q + 1) + 1) - 1
<1>5. h * q \in Nat
  BY <1>2
<1>6. /\ l = 4 * (h * q) + h - 1 /\ r = 4 * (h * q) + 3 * h - 1
      /\ Fr[i] = 2 * (h * q) /\ To[i] + 1 = 2 * (h * q) + 2 * h
  BY <1>1, <1>2, <1>3, <1>5
<1>7. l \in Places /\ r \in Places
  BY <1>2, <1>4, <1>5, <1>6 DEF Places
<1>8. Width[l] = h /\ Width[r] = h
  <2>1. l + 1 = h * (2 * (2 * q) + 1) /\ r + 1 = h * (2 * (2 * q + 1) + 1)
    BY <1>2
  <2> QED
    <3> HIDE DEF l, r
    <3>1. 2 * q \in Nat /\ 2 * q + 1 \in Nat
      OBVIOUS
    <3> QED
      BY <1>7, <2>1, <3>1, WidthOf
<1> DEFINE e == h * q
<1>12. /\ e \in Nat /\ l = 4 * e + h - 1 /\ r = 4 * e + 3 * h - 1
       /\ Fr[i] = 2 * e /\ To[i] + 1 = 2 * e + 2 * h
  BY <1>5, <1>6 DEF e
<1> HIDE DEF l, r, e
<1>9. Fr[l] = 2 * e /\ Fr[r] = 2 * e + h
  BY <1>2, <1>7, <1>8, <1>12 DEF Fr
<1>10. To[l] = 2 * e + h - 1 /\ To[r] = 2 * e + 2 * h - 1
  BY <1>2, <1>7, <1>8, <1>9, <1>12 DEF To
<1>11. Fr[r] = To[l] + 1 /\ To[r] = To[i] /\ Fr[l] = Fr[i]
  BY <1>2, <1>4, <1>9, <1>10, <1>12
<1> QED
  BY <1>1, <1>7, <1>8, <1>11

LEMMA LeafIs ==
  ASSUME NEW x \in 0 .. MaxCap - 1
  PROVE  Leaf(x) \in Places /\ Fr[Leaf(x)] = x /\ To[Leaf(x)] = x /\ Width[Leaf(x)] = 1
<1> USE MemoryAssumption
<1>1. MaxCap \in Nat \ {0}
  BY PowersAre
<1>2. 2 * x \in Places
  BY <1>1 DEF Places
<1>3. 2 * x + 1 = 1 * (2 * x + 1)
  BY <1>1
<1>4. Width[2 * x] = 1
  BY <1>1, <1>2, <1>3, WidthOf, PowersAre
<1>5. x \in Nat
  BY <1>1
<1>6. Fr[2 * x] = x
  BY <1>2, <1>4, <1>5 DEF Fr
<1> QED
  BY <1>2, <1>4, <1>5, <1>6 DEF To, Leaf

LEMMA RootIs ==
  ASSUME NEW c \in Capacities
  PROVE  /\ c \in Nat \ {0} /\ Root(c) \in Places /\ Fr[Root(c)] = 0 /\ To[Root(c)] = c - 1
         /\ Width[Root(c)] = c /\ c <= MaxCap
<1> USE MemoryAssumption
<1>1. c \in Powers /\ c \in Nat \ {0} /\ c <= MaxCap /\ MaxCap \in Nat
  BY PowersAre DEF Capacities
<1>2. c - 1 \in Places
  BY <1>1 DEF Places
<1>3. (c - 1) + 1 = c * (2 * 0 + 1)
  BY <1>1
<1>4. Width[c - 1] = c
  BY <1>1, <1>2, <1>3, WidthOf
<1>5. Fr[c - 1] = 0
  BY <1>1, <1>2, <1>4 DEF Fr
<1>6. To[c - 1] = c - 1
  BY <1>1, <1>2, <1>4, <1>5 DEF To
<1> QED
  BY <1>1, <1>2, <1>4, <1>5, <1>6 DEF Root

-----------------------------------------------------------------------------
(* The ways through the tree *)

\* The way to a place: the places whose intervals contain its own.
LEMMA Ways ==
  ASSUME NEW i \in Places
  PROVE  /\ Way[i] \subseteq Places /\ i \in Way[i] /\ Above[i] = Way[i] \ {i}
         /\ \A j \in Places : j \in Way[i] <=> Fr[j] <= Fr[i] /\ To[i] <= To[j]
         /\ \A j \in Way[i] : Way[j] \subseteq Way[i]
         /\ \A j \in Above[i] : 2 * Width[i] <= Width[j] /\ Width[i] < Width[j]
<1>1. Fr[i] \in Nat /\ To[i] \in Nat /\ Width[i] \in Nat \ {0}
  BY Intervals
<1>2. Way[i] = {j \in Places : Fr[j] <= Fr[i] /\ To[i] <= To[j]}
  BY DEF Way, Inside
<1>3. i \in Way[i] /\ Above[i] = Way[i] \ {i}
  BY <1>1, <1>2 DEF Above
<1>4. ASSUME NEW j \in Way[i], NEW k \in Way[j] PROVE k \in Way[i]
  <2>1. j \in Places /\ Fr[j] <= Fr[i] /\ To[i] <= To[j]
    BY <1>2
  <2>2. k \in Places /\ Fr[k] <= Fr[j] /\ To[j] <= To[k]
    BY <2>1, <1>4 DEF Way, Inside
  <2>3. /\ Fr[j] \in Nat /\ To[j] \in Nat /\ Fr[k] \in Nat /\ To[k] \in Nat
    BY <2>1, <2>2, Intervals
  <2>4. Fr[k] <= Fr[i] /\ To[i] <= To[k]
    BY <1>1, <2>1, <2>2, <2>3
  <2> QED
    BY <1>2, <2>2, <2>4
<1>5. ASSUME NEW j \in Above[i] PROVE 2 * Width[i] <= Width[j] /\ Width[i] < Width[j]
  <2>1. j \in Places /\ Inside(i, Fr[j], To[j]) /\ i # j
    BY <1>2, <1>3, <1>5 DEF Inside
  <2>2. 2 * Width[i] <= Width[j] /\ Width[j] \in Nat
    BY <2>1, StrictlyInside, Intervals
  <2> QED
    BY <1>1, <2>2
<1> QED
  BY <1>2, <1>3, <1>4, <1>5

\* It is a chain.
LEMMA Chain ==
  ASSUME NEW k \in Places, NEW i \in Way[k], NEW j \in Way[k], Width[i] <= Width[j]
  PROVE  j \in Way[i]
<1>1. /\ i \in Places /\ Fr[i] <= Fr[k] /\ To[k] <= To[i]
      /\ j \in Places /\ Fr[j] <= Fr[k] /\ To[k] <= To[j]
  BY Ways
<1>2. /\ Fr[i] \in Nat /\ To[i] \in Nat /\ Fr[j] \in Nat /\ To[j] \in Nat
      /\ Fr[k] \in Nat /\ To[k] \in Nat /\ Fr[k] <= To[k]
  <2>1. To[k] = Fr[k] + Width[k] - 1 /\ Width[k] \in Nat \ {0} /\ Fr[k] \in Nat /\ To[k] \in Nat
    BY Intervals
  <2> QED
    BY <1>1, <2>1, Intervals
<1>3. Inside(i, Fr[j], To[j])
  BY <1>1, <1>2, NestedOrApart
<1> QED
  BY <1>1, <1>3, Ways DEF Inside

\* Two places on a way that are equally wide are the same.
LEMMA SameOnWay ==
  ASSUME NEW k \in Places, NEW i \in Way[k], NEW j \in Way[k], Width[i] = Width[j]
  PROVE  i = j
<1>1. i \in Places /\ j \in Places /\ Width[i] \in Nat /\ Width[j] \in Nat
  BY Ways, Intervals
<1>2. j \in Way[i]
  BY <1>1, Chain
<1>3. j # i => Width[i] < Width[j]
  BY <1>1, <1>2, Ways
<1> QED
  BY <1>1, <1>3

\* Children: the way to a child is the way to the place, and the child.
LEMMA ChildIs ==
  ASSUME NEW i \in Places, NEW k \in Children(i)
  PROVE  /\ k \in Places /\ i \in Above[k] /\ Above[k] = Way[i]
         /\ Width[i] = 2 * Width[k] /\ Fr[i] <= Fr[k] /\ To[k] <= To[i]
<1>1. k \in Places /\ i \in Above[k] /\ Width[i] = 2 * Width[k]
  BY DEF Children
<1>2. i \in Way[k] /\ i # k
  BY <1>1, Ways
<1>3. ASSUME NEW j \in Above[k] PROVE j \in Way[i]
  <2>1. j \in Way[k] /\ j \in Places /\ 2 * Width[k] <= Width[j]
    BY <1>1, <1>3, Ways
  <2> QED
    BY <1>1, <1>2, <2>1, Chain
<1>4. ASSUME NEW j \in Way[i] PROVE j \in Above[k]
  <2>1. j \in Way[k] /\ j \in Places
    BY <1>1, <1>2, Ways
  <2>2. /\ Width[k] \in Nat \ {0} /\ Width[j] \in Nat /\ Width[i] \in Nat
        /\ j = i \/ Width[i] < Width[j]
    BY <1>1, <1>4, <2>1, Ways, Intervals
  <2>3. j # k
    BY <1>1, <2>2
  <2> QED
    BY <1>1, <2>1, <2>3, Ways
<1> QED
  BY <1>1, <1>2, <1>3, <1>4, Ways

\* A place that is strictly inside another is in one of its children.
LEMMA WayDown ==
  ASSUME NEW j \in Places, NEW i \in Above[j]
  PROVE  i \in Places /\ Width[i] > 1 /\ \E k \in Children(i) : k \in Way[j]
<1>1. i \in Way[j] /\ i \in Places /\ i # j /\ 2 * Width[j] <= Width[i]
      /\ Fr[i] <= Fr[j] /\ To[j] <= To[i]
  BY Ways
<1>2. /\ Width[j] \in Nat \ {0} /\ Width[i] \in Nat \ {0}
      /\ Fr[i] \in Nat /\ To[i] \in Nat /\ Fr[j] \in Nat /\ To[j] \in Nat
      /\ To[j] = Fr[j] + Width[j] - 1 /\ To[i] = Fr[i] + Width[i] - 1
  BY <1>1, Intervals
<1>3. Width[i] > 1
  BY <1>1, <1>2
<1>4. PICK l \in Places, r \in Places :
           /\ Fr[l] = Fr[i] /\ To[r] = To[i] /\ Fr[r] = To[l] + 1
           /\ Width[i] = 2 * Width[l] /\ Width[l] = Width[r]
  BY <1>1, <1>3, Halves
<1>5. /\ Width[l] \in Nat \ {0} /\ Width[r] \in Nat \ {0}
      /\ Fr[l] \in Nat /\ To[l] \in Nat /\ Fr[r] \in Nat /\ To[r] \in Nat
      /\ To[l] = Fr[l] + Width[l] - 1 /\ To[r] = Fr[r] + Width[r] - 1
  BY Intervals
<1>6. l \in Children(i) /\ r \in Children(i)
  <2>1. l # i /\ r # i
    <3>1. Width[l] # Width[i] /\ Width[r] # Width[i]
      BY <1>2, <1>4, <1>5
    <3> QED
      BY <3>1
  <2>2. Fr[i] <= Fr[l] /\ To[l] <= To[i] /\ Fr[i] <= Fr[r] /\ To[r] <= To[i]
    <3>1. Fr[i] <= Fr[l] /\ To[r] <= To[i]
      BY <1>2, <1>4, <1>5
    <3>2. Fr[i] <= Fr[r]
      BY <1>2, <1>4, <1>5
    <3>3. To[l] <= To[r]
      BY <1>4, <1>5
    <3> QED
      BY <1>2, <1>5, <3>1, <3>2, <3>3
  <2>3. i \in Above[l] /\ i \in Above[r]
    BY <1>1, <2>1, <2>2, Ways
  <2> QED
    BY <1>4, <2>3 DEF Children
<1>7. Width[j] <= Width[l]
  BY <1>1, <1>2, <1>4, <1>5
<1>8. CASE Fr[j] <= To[l]
  <2>1. Inside(j, Fr[l], To[l])
    <3>1. Inside(j, Fr[l], To[l]) \/ To[j] < Fr[l] \/ To[l] < Fr[j]
      BY <1>4, <1>7, NestedOrApart
    <3>2. Fr[l] <= To[j]
      BY <1>1, <1>2, <1>4
    <3> QED
      BY <1>2, <1>5, <1>8, <3>1, <3>2
  <2> QED
    BY <1>1, <1>3, <1>6, <2>1, Ways DEF Inside
<1>9. CASE To[l] < Fr[j]
  <2>1. Inside(j, Fr[r], To[r])
    <3>1. Inside(j, Fr[r], To[r]) \/ To[j] < Fr[r] \/ To[r] < Fr[j]
      BY <1>4, <1>5, <1>7, NestedOrApart
    <3>2. Fr[r] <= To[j]
      <4>1. Fr[r] <= Fr[j]
        BY <1>2, <1>4, <1>5, <1>9
      <4>2. Fr[j] <= To[j]
        BY <1>2
      <4> QED
        BY <1>2, <1>5, <4>1, <4>2
    <3>3. Fr[j] <= To[r]
      BY <1>1, <1>2, <1>4
    <3> QED
      BY <1>2, <1>5, <3>1, <3>2, <3>3
  <2> QED
    BY <1>1, <1>3, <1>6, <2>1, Ways DEF Inside
<1> QED
  BY <1>2, <1>5, <1>8, <1>9

\* A place is the child of the next one above.
LEMMA Parent ==
  ASSUME NEW k \in Places, NEW j \in Above[k]
  PROVE  \E s \in Above[k] : k \in Children(s) /\ j \in Way[s]
<1> DEFINE S == {Width[s] : s \in Above[k]}
<1>1. \A s \in Above[k] : s \in Places /\ s \in Way[k] /\ s # k /\ Width[s] \in Nat
  BY Ways, Intervals
<1>2. S \in SUBSET Nat /\ S # {}
  BY <1>1
<1>3. PICK s \in Above[k] : \A t \in Above[k] : Width[s] <= Width[t]
  <2>1. PICK w \in S : \A v \in S : w <= v
    BY <1>2, LeastNumber
  <2> QED
    BY <2>1
<1>4. PICK l \in Children(s) : l \in Way[k]
  BY <1>1, WayDown
<1>5. l \in Places /\ Width[s] = 2 * Width[l] /\ Width[l] \in Nat \ {0}
  BY <1>1, <1>4, ChildIs, Intervals
<1>6. l = k
  <2>1. l # k => l \in Above[k]
    BY <1>4, Ways
  <2> QED
    BY <1>1, <1>3, <1>5, <2>1
<1>7. j \in Way[s]
  BY <1>1, <1>3, Chain
<1> QED
  BY <1>4, <1>6, <1>7

LEMMA OneParent ==
  ASSUME NEW k \in Places, NEW i \in Places, NEW j \in Places, k \in Children(i), k \in Children(j)
  PROVE  i = j
<1>1. i \in Way[k] /\ j \in Way[k] /\ Width[i] = Width[j]
  BY ChildIs, Ways
<1> QED
  BY <1>1, SameOnWay

-----------------------------------------------------------------------------
(* Trees and what they read as *)

Tags == {{}} \cup {{w} : w \in Word}
Typed(m) == m \subseteq [at : Places, tag : Tags, of : (SUBSET Banks) \ {{}}]

\* A bank has at most one node at a place.
OneNode(m) == \A o, p \in m : o.at = p.at /\ o.of \cap p.of # {} => o = p

\* The tree of bank b covers c cells: it has a root, and where there is no tag there
\* are both children.
TreeOf(b, c, m) ==
  /\ \A o \in m : b \in o.of => To[o.at] < c
  /\ c > 0 => \E o \in m : b \in o.of /\ o.at = Root(c)
  /\ \A o \in m : b \in o.of /\ o.tag = {} =>
       Width[o.at] > 1 /\ \A k \in Children(o.at) : \E p \in m : p.at = k /\ b \in p.of

\* What a node that is shared reads as is the same for all who share it.
Alike(m) == \A o \in m : \A a, b \in o.of : TagAt(a, o.at, m) = TagAt(b, o.at, m)

Heap(m) == Typed(m) /\ OneNode(m) /\ Alike(m)

\* The topmost tagged node on the way to a place.
Top(b, i, m, o) ==
  /\ o \in m /\ b \in o.of /\ o.at \in Way[i] /\ o.tag # {}
  /\ \A p \in m : b \in p.of /\ p.at \in Above[o.at] => p.tag = {}

LEMMA TagIs ==
  ASSUME NEW m, Typed(m), OneNode(m), NEW i \in Places, NEW b, NEW o, Top(b, i, m, o)
  PROVE  TagAt(b, i, m) = o.tag
<1> DEFINE T == {p \in m : p.at \in Way[i] /\ b \in p.of /\ p.tag # {}}
<1>1. o \in T
  BY DEF Top
<1>2. \A p \in T : p.at \in Places /\ Width[p.at] \in Nat
  BY Intervals DEF Typed
<1>3. ASSUME NEW p \in T PROVE Width[p.at] <= Width[o.at]
  <2>1. Width[o.at] <= Width[p.at] => p.at \in Way[o.at]
    BY <1>1, Chain
  <2>2. p.at # o.at => p.at \notin Above[o.at]
    BY DEF Top
  <2>3. p.at # o.at => p.at \notin Way[o.at]
    BY <1>1, <1>2, <2>2, Ways
  <2> QED
    BY <1>1, <1>2, <2>1, <2>3
<1> DEFINE c == CHOOSE p \in T : \A q \in T : Width[q.at] <= Width[p.at]
<1>4. c \in T /\ \A q \in T : Width[q.at] <= Width[c.at]
  <2> HIDE DEF T
  <2> QED
    BY <1>1, <1>3
<1>5. Width[c.at] = Width[o.at]
  <2> HIDE DEF T, c
  <2>1. Width[c.at] <= Width[o.at] /\ Width[o.at] <= Width[c.at]
    BY <1>1, <1>3, <1>4
  <2>2. Width[c.at] \in Nat /\ Width[o.at] \in Nat
    BY <1>1, <1>2, <1>4
  <2> QED
    BY <2>1, <2>2
<1>6. c = o
  <2> HIDE DEF c
  <2>1. c.at = o.at
    BY <1>1, <1>4, <1>5, SameOnWay
  <2> QED
    BY <1>1, <1>4, <2>1 DEF OneNode
<1>7. TagAt(b, i, m) = IF T = {} THEN {} ELSE c.tag
  BY DEF TagAt
<1> HIDE DEF T, c
<1> QED
  BY <1>1, <1>6, <1>7

\* Either nothing on the way is tagged, or there is a topmost tag.
LEMMA TagCases ==
  ASSUME NEW m, Typed(m), OneNode(m), NEW i \in Places, NEW b
  PROVE  \/ /\ \A p \in m : b \in p.of /\ p.at \in Way[i] => p.tag = {}
            /\ TagAt(b, i, m) = {}
         \/ \E o : Top(b, i, m, o) /\ TagAt(b, i, m) = o.tag
<1> USE MemoryAssumption
<1> DEFINE T == {p \in m : p.at \in Way[i] /\ b \in p.of /\ p.tag # {}}
<1>1. CASE T = {}
  BY <1>1 DEF TagAt
<1>2. CASE T # {}
  <2> DEFINE S == {Width[p.at] : p \in T}
  <2>1. \A p \in T : p.at \in Places /\ Width[p.at] \in Nat /\ Width[p.at] <= MaxCap
    BY WidthIs DEF Typed
  <2>2. S \in SUBSET Nat /\ S # {} /\ MaxCap \in Nat /\ \A x \in S : x <= MaxCap
    BY <1>2, <2>1, PowersAre
  <2>3. PICK w \in S : \A v \in S : v <= w
    <3> HIDE DEF S
    <3> QED
      BY <2>2, GreatestNumber
  <2>4. PICK o \in T : w = Width[o.at]
    BY <2>3
  <2>5. ASSUME NEW p \in m, b \in p.of, p.at \in Above[o.at] PROVE p.tag = {}
    <3>1. p.at \in Way[i] /\ Width[o.at] < Width[p.at]
      BY <2>1, <2>4, <2>5, Ways
    <3>2. p.tag # {} => p \in T
      BY <2>5, <3>1
    <3>3. p \in T => Width[p.at] <= Width[o.at]
      BY <2>3, <2>4
    <3>4. p \in T => Width[p.at] \in Nat /\ Width[o.at] \in Nat
      BY <2>1
    <3> HIDE DEF T
    <3> QED
      BY <3>1, <3>2, <3>3, <3>4
  <2>6. Top(b, i, m, o)
    BY <2>4, <2>5 DEF Top
  <2> QED
    BY <2>6, TagIs
<1> QED
  BY <1>1, <1>2

\* The tag of a way that nothing is tagged on; what it means to have none.
LEMMA NoTag ==
  ASSUME NEW m, Typed(m), OneNode(m), NEW i \in Places, NEW b
  PROVE  /\ TagAt(b, i, m) \in Tags
         /\ TagAt(b, i, m) = {} <=> \A p \in m : b \in p.of /\ p.at \in Way[i] => p.tag = {}
<1>1. CASE \A p \in m : b \in p.of /\ p.at \in Way[i] => p.tag = {}
  BY <1>1, TagCases DEF Top, Tags
<1>2. CASE ~\A p \in m : b \in p.of /\ p.at \in Way[i] => p.tag = {}
  <2>1. PICK o : Top(b, i, m, o) /\ TagAt(b, i, m) = o.tag
    BY <1>2, TagCases
  <2> QED
    BY <1>2, <2>1 DEF Top, Typed
<1> QED
  BY <1>1, <1>2

\* A tag holds for all that is below it.
LEMMA TagBelow ==
  ASSUME NEW m, Typed(m), OneNode(m), NEW i \in Places, NEW j \in Way[i], NEW b,
         TagAt(b, j, m) # {}
  PROVE  TagAt(b, i, m) = TagAt(b, j, m)
<1>1. j \in Places /\ Way[j] \subseteq Way[i]
  BY Ways
<1>2. PICK o : Top(b, j, m, o) /\ TagAt(b, j, m) = o.tag
  BY <1>1, TagCases
<1>3. Top(b, i, m, o)
  BY <1>1, <1>2 DEF Top
<1> QED
  BY <1>2, <1>3, TagIs

\* The nodes of bank a in n are where those of bank b are in m, with their tags or
\* the tags they are read as.
Follows(a, n, b, m) ==
  /\ \A q \in n : a \in q.of =>
       \E o \in m : /\ b \in o.of /\ o.at = q.at
                    /\ q.tag = o.tag \/ (q.tag # {} /\ q.tag = TagAt(b, o.at, m))
  /\ \A o \in m : b \in o.of => \E q \in n : a \in q.of /\ q.at = o.at

\* They read the same then.
LEMMA TagsKept ==
  ASSUME NEW m, NEW n, Typed(m), OneNode(m), Typed(n), OneNode(n), NEW b, NEW a,
         Follows(a, n, b, m)
  PROVE  \A i \in Places : TagAt(a, i, n) = TagAt(b, i, m)
<1>0. /\ \A q \in n : a \in q.of =>
           \E o \in m : /\ b \in o.of /\ o.at = q.at
                        /\ q.tag = o.tag \/ (q.tag # {} /\ q.tag = TagAt(b, o.at, m))
      /\ \A o \in m : b \in o.of => \E q \in n : a \in q.of /\ q.at = o.at
  BY DEF Follows
<1> TAKE i \in Places
<1>1. CASE \A p \in m : b \in p.of /\ p.at \in Way[i] => p.tag = {}
  <2>1. TagAt(b, i, m) = {}
    BY <1>1, NoTag
  <2>2. ASSUME NEW q \in n, a \in q.of, q.at \in Way[i] PROVE q.tag = {}
    <3>1. PICK o \in m : /\ b \in o.of /\ o.at = q.at
                         /\ q.tag = o.tag \/ (q.tag # {} /\ q.tag = TagAt(b, o.at, m))
      BY <1>0, <2>2
    <3>2. o.tag = {} /\ o.at \in Places /\ Way[o.at] \subseteq Way[i]
      BY <1>1, <2>2, <3>1, Ways DEF Typed
    <3>3. TagAt(b, o.at, m) = {}
      BY <1>1, <3>2, NoTag
    <3> QED
      BY <3>1, <3>2, <3>3
  <2> QED
    BY <2>1, <2>2, NoTag
<1>2. CASE ~\A p \in m : b \in p.of /\ p.at \in Way[i] => p.tag = {}
  <2>1. PICK o : Top(b, i, m, o) /\ TagAt(b, i, m) = o.tag
    BY <1>2, TagCases
  <2>2. o \in m /\ b \in o.of /\ o.at \in Places /\ o.at \in Way[i] /\ o.tag # {}
    BY <2>1 DEF Top, Typed
  <2>3. TagAt(b, o.at, m) = o.tag
    <3>1. Top(b, o.at, m, o)
      BY <2>1, <2>2, Ways DEF Top
    <3> QED
      BY <2>2, <3>1, TagIs
  <2>4. PICK q \in n : a \in q.of /\ q.at = o.at
    BY <1>0, <2>2
  <2>5. q.tag = o.tag
    <3>1. PICK p \in m : /\ b \in p.of /\ p.at = q.at
                         /\ q.tag = p.tag \/ (q.tag # {} /\ q.tag = TagAt(b, p.at, m))
      BY <1>0, <2>4
    <3>2. p = o
      BY <2>2, <2>4, <3>1 DEF OneNode
    <3> QED
      BY <2>3, <3>1, <3>2
  <2>6. ASSUME NEW p \in n, a \in p.of, p.at \in Above[q.at] PROVE p.tag = {}
    <3>1. PICK r \in m : /\ b \in r.of /\ r.at = p.at
                         /\ p.tag = r.tag \/ (p.tag # {} /\ p.tag = TagAt(b, r.at, m))
      BY <1>0, <2>6
    <3>2. r.at \in Above[o.at] /\ r.at \in Places
      BY <2>4, <2>6, <3>1 DEF Typed
    <3>3. \A k \in Way[r.at] : k \in Above[o.at]
      <4> SUFFICES ASSUME NEW k \in Way[r.at] PROVE k \in Above[o.at]
        OBVIOUS
      <4>1. k \in Way[o.at] /\ k \in Places
        BY <2>2, <3>2, Ways
      <4>2. Width[o.at] < Width[r.at] /\ (k = r.at \/ Width[r.at] < Width[k])
        BY <2>2, <3>2, Ways
      <4>3. Width[o.at] \in Nat /\ Width[r.at] \in Nat /\ Width[k] \in Nat
        BY <2>2, <3>2, <4>1, Intervals
      <4>4. k # o.at
        BY <4>2, <4>3
      <4> QED
        BY <2>2, <4>1, <4>4, Ways
    <3>4. \A s \in m : b \in s.of /\ s.at \in Way[r.at] => s.tag = {}
      BY <2>1, <3>3 DEF Top
    <3>5. r.at \in Way[r.at] /\ TagAt(b, r.at, m) = {}
      BY <3>2, <3>4, NoTag, Ways
    <3> QED
      BY <3>1, <3>4, <3>5
  <2>7. Top(a, i, n, q)
    BY <2>2, <2>4, <2>5, <2>6 DEF Top
  <2> QED
    BY <2>1, <2>5, <2>7, TagIs
<1> QED
  BY <1>1, <1>2

\* And a tree stays one.
LEMMA TreeKept ==
  ASSUME NEW m, NEW n, NEW b, NEW a, NEW c, TreeOf(b, c, m), Follows(a, n, b, m)
  PROVE  TreeOf(a, c, n)
<1>0. /\ \A q \in n : a \in q.of =>
           \E o \in m : b \in o.of /\ o.at = q.at /\ (q.tag = {} => o.tag = {})
      /\ \A o \in m : b \in o.of => \E q \in n : a \in q.of /\ q.at = o.at
  BY DEF Follows
<1>1. ASSUME NEW q \in n, a \in q.of PROVE To[q.at] < c
  BY <1>0, <1>1 DEF TreeOf
<1>2. c > 0 => \E q \in n : a \in q.of /\ q.at = Root(c)
  BY <1>0 DEF TreeOf
<1>3. ASSUME NEW q \in n, a \in q.of, q.tag = {}
      PROVE  /\ Width[q.at] > 1
             /\ \A k \in Children(q.at) : \E p \in n : p.at = k /\ a \in p.of
  <2>1. PICK o \in m : b \in o.of /\ o.at = q.at /\ o.tag = {}
    BY <1>0, <1>3
  <2>2. /\ Width[o.at] > 1
        /\ \A k \in Children(o.at) : \E p \in m : p.at = k /\ b \in p.of
    BY <2>1 DEF TreeOf
  <2>3. ASSUME NEW k \in Children(q.at) PROVE \E p \in n : p.at = k /\ a \in p.of
    BY <1>0, <2>1, <2>2, <2>3
  <2> QED
    BY <2>1, <2>2, <2>3
<1> QED
  BY <1>1, <1>2, <1>3 DEF TreeOf

-----------------------------------------------------------------------------
(* Set_impl: the nodes *)

\* The definitions inside Set_impl.
Visited(c, lo, hi) ==
  {i \in Places : /\ To[i] < c /\ Fr[i] <= hi /\ lo <= To[i]
                  /\ \A j \in Above[i] : To[j] < c => ~Inside(j, lo, hi)}
Split(c, lo, hi) == {i \in Visited(c, lo, hi) : ~Inside(i, lo, hi)}
Below(c, lo, hi) == UNION {Children(i) : i \in Split(c, lo, hi)}
Pushed(b, c, lo, hi, m, i, t) ==
  IF i \in Below(c, lo, hi)
  THEN LET d == TagAt(b, CHOOSE j \in Split(c, lo, hi) : i \in Children(j), m)
       IN IF d # {} THEN d ELSE t
  ELSE t
Written(b, c, lo, hi, word, m, i, t) ==
  IF i \in Split(c, lo, hi) THEN {}
  ELSE IF i \in Visited(c, lo, hi) THEN {word}
  ELSE Pushed(b, c, lo, hi, m, i, t)

LEMMA SetNodes ==
  ASSUME NEW b, NEW c, NEW lo, NEW hi, NEW word, NEW m, Typed(m), NEW q
  PROVE  q \in Set_impl(b, c, lo, hi, word, m) <=>
           \/ q \in m /\ b \notin q.of
           \/ \E o \in m : /\ b \in o.of /\ o.of # {b} /\ o.at \in Visited(c, lo, hi)
                           /\ q = [at |-> o.at, tag |-> Pushed(b, c, lo, hi, m, o.at, o.tag),
                                   of |-> o.of \ {b}]
           \/ \E o \in m : /\ b \in o.of
                           /\ q = [at |-> o.at,
                                   tag |-> Written(b, c, lo, hi, word, m, o.at, o.tag),
                                   of |-> IF o.at \in Visited(c, lo, hi) /\ o.of # {b}
                                          THEN {b} ELSE o.of]
           \/ \E i \in Below(c, lo, hi) :
                /\ \A o \in m : b \in o.of => o.at # i
                /\ q = [at |-> i, tag |-> Written(b, c, lo, hi, word, m, i, {{}}), of |-> {b}]
<1> DEFINE mine == {o \in m : b \in o.of}
           P(i, t) == Pushed(b, c, lo, hi, m, i, t)
           W(i, t) == Written(b, c, lo, hi, word, m, i, t)
           shared == {[at |-> o.at, tag |-> P(o.at, o.tag), of |-> o.of \ {b}] :
                        o \in {p \in mine : p.at \in Visited(c, lo, hi) /\ Shared(b, p.of)}}
           own == {[at |-> o.at, tag |-> W(o.at, o.tag),
                    of |-> IF o.at \in Visited(c, lo, hi) /\ Shared(b, o.of)
                           THEN {b} ELSE o.of] : o \in mine}
           new == {[at |-> i, tag |-> W(i, {{}}), of |-> {b}] :
                     i \in Below(c, lo, hi) \ {o.at : o \in mine}}
<1>1. Set_impl(b, c, lo, hi, word, m) = (m \ mine) \cup shared \cup own \cup new
  BY DEF Set_impl, Visited, Split, Below, Pushed, Written
<1>3. q \in m \ mine <=> q \in m /\ b \notin q.of
  OBVIOUS
<1>4. q \in shared <=>
        \E o \in m : /\ b \in o.of /\ o.of # {b} /\ o.at \in Visited(c, lo, hi)
                     /\ q = [at |-> o.at, tag |-> P(o.at, o.tag), of |-> o.of \ {b}]
  <2> HIDE DEF P
  <2> QED
    BY DEF Shared
<1>5. q \in own <=>
        \E o \in m : /\ b \in o.of
                     /\ q = [at |-> o.at, tag |-> W(o.at, o.tag),
                             of |-> IF o.at \in Visited(c, lo, hi) /\ o.of # {b}
                                    THEN {b} ELSE o.of]
  <2> HIDE DEF W
  <2> QED
    BY DEF Shared
<1>6. q \in new <=>
        \E i \in Below(c, lo, hi) :
          /\ \A o \in m : b \in o.of => o.at # i
          /\ q = [at |-> i, tag |-> W(i, {{}}), of |-> {b}]
  <2> HIDE DEF W
  <2> QED
    OBVIOUS
<1> HIDE DEF mine, shared, own, new
<1> QED
  BY <1>1, <1>3, <1>4, <1>5, <1>6

\* The places of a range, and what Set_impl does on the way there.
LEMMA SplitsAreAbove ==
  ASSUME NEW c \in Nat, NEW lo \in Int, NEW hi \in Int
  PROVE  /\ \A s \in Split(c, lo, hi) : \A j \in Way[s] : To[j] < c => j \in Split(c, lo, hi)
         /\ \A k \in Below(c, lo, hi) :
              /\ k \in Places /\ To[k] < c
              /\ \E s \in Split(c, lo, hi) :
                   /\ s \in Places /\ k \in Children(s)
                   /\ s = CHOOSE j \in Split(c, lo, hi) : k \in Children(j)
         /\ Split(c, lo, hi) \subseteq Visited(c, lo, hi) /\ Visited(c, lo, hi) \subseteq Places
         /\ \A s \in Split(c, lo, hi) : Width[s] > 1
<1>1. ASSUME NEW s \in Split(c, lo, hi), NEW j \in Way[s], To[j] < c
      PROVE  j \in Split(c, lo, hi)
  <2>1. /\ s \in Places /\ To[s] < c /\ Fr[s] <= hi /\ lo <= To[s] /\ ~Inside(s, lo, hi)
        /\ \A k \in Above[s] : To[k] < c => ~Inside(k, lo, hi)
    BY DEF Split, Visited
  <2>2. /\ j \in Places /\ Fr[j] <= Fr[s] /\ To[s] <= To[j] /\ Way[j] \subseteq Way[s]
        /\ Fr[j] \in Nat /\ To[j] \in Nat /\ Fr[s] \in Nat /\ To[s] \in Nat
    BY <2>1, Ways, Intervals
  <2>3. Fr[j] <= hi /\ lo <= To[j]
    BY <2>1, <2>2
  <2>4. ~Inside(j, lo, hi)
    BY <1>1, <2>1, Ways
  <2>5. ASSUME NEW k \in Above[j], To[k] < c PROVE ~Inside(k, lo, hi)
    BY <2>1, <2>2, <2>5, Ways
  <2> QED
    BY <1>1, <2>2, <2>3, <2>4, <2>5 DEF Split, Visited
<1>2. Split(c, lo, hi) \subseteq Visited(c, lo, hi) /\ Visited(c, lo, hi) \subseteq Places
  BY DEF Split, Visited
<1>3. ASSUME NEW k \in Below(c, lo, hi)
      PROVE  /\ k \in Places /\ To[k] < c
             /\ \E s \in Split(c, lo, hi) :
                  /\ s \in Places /\ k \in Children(s)
                  /\ s = CHOOSE j \in Split(c, lo, hi) : k \in Children(j)
  <2>1. PICK s \in Split(c, lo, hi) : k \in Children(s)
    BY DEF Below
  <2>2. s \in Places /\ To[s] < c
    BY <1>2 DEF Split, Visited
  <2>3. k \in Places /\ To[k] <= To[s]
    BY <2>1, <2>2, ChildIs
  <2>4. To[k] < c
    BY <2>2, <2>3, Intervals
  <2> DEFINE t == CHOOSE j \in Split(c, lo, hi) : k \in Children(j)
  <2>5. t \in Split(c, lo, hi) /\ k \in Children(t)
    BY <2>1
  <2> QED
    BY <1>2, <2>3, <2>4, <2>5
<1>4. ASSUME NEW s \in Split(c, lo, hi) PROVE Width[s] > 1
  <2>1. s \in Places /\ Fr[s] <= hi /\ lo <= To[s] /\ ~(lo <= Fr[s] /\ To[s] <= hi)
    BY DEF Split, Visited, Inside
  <2>2. /\ Fr[s] \in Nat /\ To[s] \in Nat /\ Width[s] \in Nat \ {0}
        /\ To[s] = Fr[s] + Width[s] - 1
    BY <2>1, Intervals
  <2>3. Fr[s] # To[s]
    BY <2>1, <2>2
  <2> QED
    BY <2>2, <2>3
<1> QED
  BY <1>1, <1>2, <1>3, <1>4

\* What is pushed down is what the node is read as.
LEMMA PushedIs ==
  ASSUME NEW c \in Nat, NEW lo \in Int, NEW hi \in Int, NEW b, NEW m, Typed(m), OneNode(m),
         NEW i \in Places, NEW t
  PROVE  /\ \/ Pushed(b, c, lo, hi, m, i, t) = t
            \/ /\ Pushed(b, c, lo, hi, m, i, t) # {}
               /\ Pushed(b, c, lo, hi, m, i, t) = TagAt(b, i, m)
         /\ \A s \in Split(c, lo, hi) : i \in Children(s) =>
              Pushed(b, c, lo, hi, m, i, t) =
                IF TagAt(b, s, m) # {} THEN TagAt(b, s, m) ELSE t
<1>1. CASE i \notin Below(c, lo, hi)
  BY <1>1 DEF Pushed, Below
<1>2. CASE i \in Below(c, lo, hi)
  <2>1. PICK s \in Split(c, lo, hi) :
          /\ s \in Places /\ i \in Children(s)
          /\ s = CHOOSE j \in Split(c, lo, hi) : i \in Children(j)
    BY <1>2, SplitsAreAbove
  <2>2. Pushed(b, c, lo, hi, m, i, t) = IF TagAt(b, s, m) # {} THEN TagAt(b, s, m) ELSE t
    BY <1>2, <2>1 DEF Pushed
  <2>3. s \in Way[i]
    BY <2>1, ChildIs, Ways
  <2>4. TagAt(b, s, m) # {} => TagAt(b, i, m) = TagAt(b, s, m)
    BY <2>3, TagBelow
  <2>5. \A j \in Split(c, lo, hi) : i \in Children(j) => j = s
    BY <2>1, OneParent, SplitsAreAbove
  <2> QED
    BY <2>2, <2>4, <2>5
<1> QED
  BY <1>1, <1>2

-----------------------------------------------------------------------------
(* Set_impl: what becomes of the heap *)

AloneIn(b, m) == \A o \in m : b \in o.of => o.of = {b}

\* A call of Set_impl: one cell, or a bank that shares nothing.
Setting(b, c, lo, hi, word, m) ==
  /\ b \in Banks /\ c \in {0} \cup Capacities /\ lo \in Int /\ hi \in Int /\ word \in Word
  /\ Heap(m) /\ TreeOf(b, c, m) /\ (lo = hi \/ AloneIn(b, m))

LEMMA CapacityIs == \A c \in {0} \cup Capacities : c \in Nat /\ c <= MaxCap
  BY MemoryAssumption, PowersAre DEF Capacities

\* A node of another bank, and a node of b, afterwards.
OtherAfter(b, c, lo, hi, m, o) ==
  IF b \notin o.of THEN o
  ELSE [at |-> o.at, tag |-> Pushed(b, c, lo, hi, m, o.at, o.tag),
        of |-> IF o.at \in Visited(c, lo, hi) THEN o.of \ {b} ELSE o.of]
OwnAfter(b, c, lo, hi, word, m, o) ==
  [at |-> o.at, tag |-> Written(b, c, lo, hi, word, m, o.at, o.tag),
   of |-> IF o.at \in Visited(c, lo, hi) THEN {b} ELSE o.of]
NewAt(b, c, lo, hi, word, m, i) ==
  [at |-> i, tag |-> Written(b, c, lo, hi, word, m, i, {{}}), of |-> {b}]

LEMMA OthersNodes ==
  ASSUME NEW b, NEW c, NEW lo, NEW hi, NEW word, NEW m, Setting(b, c, lo, hi, word, m),
         NEW a, a # b
  PROVE  /\ \A q \in Set_impl(b, c, lo, hi, word, m) : a \in q.of =>
              \E o \in m : a \in o.of /\ q = OtherAfter(b, c, lo, hi, m, o)
         /\ \A o \in m : a \in o.of =>
              /\ OtherAfter(b, c, lo, hi, m, o) \in Set_impl(b, c, lo, hi, word, m)
              /\ a \in OtherAfter(b, c, lo, hi, m, o).of
<1> DEFINE V == Visited(c, lo, hi)
           S == Set_impl(b, c, lo, hi, word, m)
           P(o) == Pushed(b, c, lo, hi, m, o.at, o.tag)
           W(o) == Written(b, c, lo, hi, word, m, o.at, o.tag)
<1>1. Typed(m)
  BY DEF Setting, Heap
<1>2. \A o : o.at \notin V => W(o) = P(o)
  BY DEF Written, Split
<1>3. \A o : OtherAfter(b, c, lo, hi, m, o) =
               IF b \notin o.of THEN o
               ELSE [at |-> o.at, tag |-> P(o), of |-> IF o.at \in V THEN o.of \ {b} ELSE o.of]
  BY DEF OtherAfter
<1>4. \A q : q \in S <=>
           \/ q \in m /\ b \notin q.of
           \/ \E o \in m : /\ b \in o.of /\ o.of # {b} /\ o.at \in V
                           /\ q = [at |-> o.at, tag |-> P(o), of |-> o.of \ {b}]
           \/ \E o \in m : /\ b \in o.of
                           /\ q = [at |-> o.at, tag |-> W(o),
                                   of |-> IF o.at \in V /\ o.of # {b} THEN {b} ELSE o.of]
           \/ \E i \in Below(c, lo, hi) :
                /\ \A o \in m : b \in o.of => o.at # i
                /\ q = NewAt(b, c, lo, hi, word, m, i)
  BY <1>1, SetNodes DEF NewAt
<1>5. \A i : NewAt(b, c, lo, hi, word, m, i).of = {b}
  BY DEF NewAt
<1> HIDE DEF V, S, P, W
<1>6. ASSUME NEW q \in S, a \in q.of
      PROVE  \E o \in m : a \in o.of /\ q = OtherAfter(b, c, lo, hi, m, o)
  <2>1. CASE q \in m /\ b \notin q.of
    BY <1>3, <1>6, <2>1
  <2>2. ASSUME NEW o \in m, b \in o.of, o.of # {b}, o.at \in V,
               q = [at |-> o.at, tag |-> P(o), of |-> o.of \ {b}]
        PROVE  a \in o.of /\ q = OtherAfter(b, c, lo, hi, m, o)
    BY <1>3, <1>6, <2>2
  <2>3. ASSUME NEW o \in m, b \in o.of,
               q = [at |-> o.at, tag |-> W(o),
                    of |-> IF o.at \in V /\ o.of # {b} THEN {b} ELSE o.of]
        PROVE  a \in o.of /\ q = OtherAfter(b, c, lo, hi, m, o)
    <3>1. o.at \notin V /\ a \in o.of
      BY <1>6, <2>3
    <3> QED
      BY <1>2, <1>3, <2>3, <3>1
  <2>4. \A i : q # NewAt(b, c, lo, hi, word, m, i)
    BY <1>5, <1>6
  <2> QED
    BY <1>4, <2>1, <2>2, <2>3, <2>4
<1>7. ASSUME NEW o \in m, a \in o.of
      PROVE  /\ OtherAfter(b, c, lo, hi, m, o) \in S
             /\ a \in OtherAfter(b, c, lo, hi, m, o).of
  <2> DEFINE q == OtherAfter(b, c, lo, hi, m, o)
  <2>1. CASE b \notin o.of
    BY <1>3, <1>4, <1>7, <2>1
  <2>2. CASE b \in o.of /\ o.at \in V
    <3>1. q = [at |-> o.at, tag |-> P(o), of |-> o.of \ {b}] /\ o.of # {b}
      BY <1>3, <1>7, <2>2
    <3>2. q \in S
      BY <1>4, <2>2, <3>1
    <3> QED
      BY <1>7, <3>1, <3>2
  <2>3. CASE b \in o.of /\ o.at \notin V
    <3>1. q = [at |-> o.at, tag |-> W(o),
               of |-> IF o.at \in V /\ o.of # {b} THEN {b} ELSE o.of]
      BY <1>2, <1>3, <2>3
    <3>2. q \in S
      BY <1>4, <2>3, <3>1
    <3> QED
      BY <1>7, <2>3, <3>1, <3>2
  <2> QED
    BY <2>1, <2>2, <2>3
<1> QED
  BY <1>6, <1>7 DEF S

LEMMA OwnNodes ==
  ASSUME NEW b, NEW c, NEW lo, NEW hi, NEW word, NEW m, Setting(b, c, lo, hi, word, m)
  PROVE  /\ \A q \in Set_impl(b, c, lo, hi, word, m) : b \in q.of =>
              \/ \E o \in m : b \in o.of /\ q = OwnAfter(b, c, lo, hi, word, m, o)
              \/ \E i \in Below(c, lo, hi) :
                   /\ \A o \in m : b \in o.of => o.at # i
                   /\ q = NewAt(b, c, lo, hi, word, m, i)
         /\ \A o \in m : b \in o.of =>
              /\ OwnAfter(b, c, lo, hi, word, m, o) \in Set_impl(b, c, lo, hi, word, m)
              /\ b \in OwnAfter(b, c, lo, hi, word, m, o).of
         /\ \A i \in Below(c, lo, hi) :
              \E q \in Set_impl(b, c, lo, hi, word, m) : b \in q.of /\ q.at = i
<1> DEFINE V == Visited(c, lo, hi)
           S == Set_impl(b, c, lo, hi, word, m)
           W(o) == Written(b, c, lo, hi, word, m, o.at, o.tag)
           N(i) == NewAt(b, c, lo, hi, word, m, i)
           A(o) == OwnAfter(b, c, lo, hi, word, m, o)
<1>1. Typed(m)
  BY DEF Setting, Heap
<1>2. \A o \in m : b \in o.of =>
        A(o) = [at |-> o.at, tag |-> W(o),
                of |-> IF o.at \in V /\ o.of # {b} THEN {b} ELSE o.of]
  BY DEF OwnAfter
<1> DEFINE P(o) == [at |-> o.at, tag |-> Pushed(b, c, lo, hi, m, o.at, o.tag),
                    of |-> o.of \ {b}]
           Q(q) == \E o \in m : b \in o.of /\ o.of # {b} /\ o.at \in V /\ q = P(o)
           R(q) == \E i \in Below(c, lo, hi) :
                     (\A o \in m : b \in o.of => o.at # i) /\ q = N(i)
           B(o) == [at |-> o.at, tag |-> W(o),
                    of |-> IF o.at \in V /\ o.of # {b} THEN {b} ELSE o.of]
<1>9. \A q : q \in S <=>
           \/ q \in m /\ b \notin q.of
           \/ Q(q)
           \/ \E o \in m : b \in o.of /\ q = B(o)
           \/ R(q)
  BY <1>1, SetNodes DEF NewAt
<1>3. \A q : q \in S <=>
           \/ q \in m /\ b \notin q.of
           \/ Q(q)
           \/ \E o \in m : b \in o.of /\ q = A(o)
           \/ R(q)
  <2> HIDE DEF Q, R, A, B, S
  <2>1. \A o \in m : b \in o.of => A(o) = B(o)
    BY <1>2 DEF B
  <2> QED
    BY <1>9, <2>1
<1>4. \A i : N(i).at = i /\ N(i).of = {b}
  BY DEF NewAt
<1>5. \A o \in m : b \in o.of => A(o).at = o.at /\ b \in A(o).of
  BY <1>2
<1> HIDE DEF V, S, W, N, A
<1>6. ASSUME NEW q \in S, b \in q.of
      PROVE  \/ \E o \in m : b \in o.of /\ q = A(o)
             \/ \E i \in Below(c, lo, hi) :
                  (\A o \in m : b \in o.of => o.at # i) /\ q = N(i)
  <2>1. ~Q(q)
    BY <1>6
  <2> QED
    BY <1>3, <1>6, <2>1
<1>7. ASSUME NEW o \in m, b \in o.of PROVE A(o) \in S /\ b \in A(o).of
  BY <1>3, <1>5, <1>7
<1>8. ASSUME NEW i \in Below(c, lo, hi) PROVE \E q \in S : b \in q.of /\ q.at = i
  <2>1. CASE \E o \in m : b \in o.of /\ o.at = i
    BY <1>3, <1>5, <2>1
  <2>2. CASE \A o \in m : b \in o.of => o.at # i
    <3>1. N(i) \in S
      BY <1>3, <2>2
    <3> QED
      BY <1>4, <3>1
  <2> QED
    BY <2>1, <2>2
<1> QED
  BY <1>6, <1>7, <1>8 DEF S, A, N

-----------------------------------------------------------------------------
(* What reading comes to *)

\* Where nothing is tagged there is a node: children are created in pairs.
LEMMA NodeThere ==
  ASSUME NEW m, Typed(m), OneNode(m), NEW b, NEW c \in {0} \cup Capacities, TreeOf(b, c, m),
         NEW i \in Places, To[i] < c, TagAt(b, i, m) = {}
  PROVE  \E o \in m : b \in o.of /\ o.at = i
<1> DEFINE There(j) == \E o \in m : b \in o.of /\ o.at = j
           G == {j \in Way[i] : To[j] < c /\ ~There(j)}
<1>1. c \in Capacities /\ c \in Nat /\ c > 0
  <2>1. To[i] \in Nat /\ c \in Nat
    BY Intervals, CapacityIs
  <2> QED
    BY <2>1
<1>2. /\ Root(c) \in Places /\ Root(c) \in Way[i] /\ There(Root(c)) /\ To[Root(c)] < c
  <2>1. Root(c) \in Places /\ Fr[Root(c)] = 0 /\ To[Root(c)] = c - 1
    BY <1>1, RootIs
  <2>2. Fr[i] \in Nat /\ To[i] \in Nat /\ To[i] <= c - 1
    BY <1>1, Intervals
  <2>3. Root(c) \in Way[i]
    BY <2>1, <2>2, Ways
  <2>4. There(Root(c))
    BY <1>1 DEF TreeOf
  <2> HIDE DEF There
  <2> QED
    BY <1>1, <2>1, <2>3, <2>4
<1>3. \A p \in m : b \in p.of /\ p.at \in Way[i] => p.tag = {}
  BY NoTag
<1>4. SUFFICES ASSUME ~There(i) PROVE FALSE
  OBVIOUS
<1>5. \A j \in Way[i] : j \in Places /\ Width[j] \in Nat /\ Width[j] <= MaxCap
  BY Ways, WidthIs
<1>6. PICK k \in G : \A j \in G : Width[j] <= Width[k]
  <2> DEFINE S == {Width[j] : j \in G}
  <2>1. S \in SUBSET Nat /\ \A v \in S : v <= MaxCap
    BY <1>5
  <2>2. i \in G
    BY <1>4, Ways
  <2>3. MaxCap \in Nat /\ S # {}
    BY <2>2, MemoryAssumption, PowersAre
  <2>4. PICK v \in S : \A x \in S : x <= v
    <3> HIDE DEF S
    <3> QED
      BY <2>1, <2>3, GreatestNumber
  <2> QED
    BY <2>4
<1>7. k \in Way[i] /\ k \in Places /\ To[k] < c /\ ~There(k)
  BY <1>5
<1>8. Root(c) \in Above[k]
  <2>1. Fr[k] \in Nat /\ To[k] \in Nat /\ Root(c) # k
    BY <1>2, <1>7, Intervals
  <2>2. Fr[Root(c)] = 0 /\ To[Root(c)] = c - 1
    BY <1>1, RootIs
  <2>3. Root(c) \in Way[k]
    BY <1>1, <1>2, <1>7, <2>1, <2>2, Ways
  <2> QED
    BY <1>7, <2>1, <2>3, Ways
<1>9. PICK s \in Above[k] : k \in Children(s) /\ Root(c) \in Way[s]
  BY <1>7, <1>8, Parent
<1>10. /\ s \in Way[k] /\ s \in Way[i] /\ s \in Places /\ Width[k] < Width[s] /\ To[s] < c
  <2>1. s \in Way[k] /\ s \in Places /\ s \in Way[i] /\ Width[k] < Width[s]
    BY <1>7, <1>9, Ways
  <2>2. To[s] <= To[Root(c)] /\ To[s] \in Nat /\ To[Root(c)] \in Nat
    BY <1>2, <1>9, <2>1, Ways, Intervals
  <2> QED
    BY <1>1, <1>2, <2>1, <2>2
<1>11. There(s)
  <2>1. s \in G => Width[s] <= Width[k]
    BY <1>6
  <2>2. Width[s] \in Nat /\ Width[k] \in Nat
    BY <1>5, <1>7, <1>10
  <2> HIDE DEF There
  <2> QED
    BY <1>10, <2>1, <2>2
<1>12. PICK o \in m : b \in o.of /\ o.at = s
  BY <1>11
<1>13. o.tag = {}
  BY <1>3, <1>10, <1>12
<1>14. There(k)
  BY <1>9, <1>12, <1>13 DEF TreeOf
<1> QED
  BY <1>7, <1>14

\* Every cell of the tree has a tag, and none outside of it.
LEMMA LeavesAreTagged ==
  ASSUME NEW m, Typed(m), OneNode(m), NEW b, NEW c \in {0} \cup Capacities, TreeOf(b, c, m),
         NEW x \in 0 .. MaxCap - 1
  PROVE  TagAt(b, Leaf(x), m) # {} <=> x < c
<1>1. /\ Leaf(x) \in Places /\ Fr[Leaf(x)] = x /\ To[Leaf(x)] = x /\ Width[Leaf(x)] = 1
      /\ x \in Nat /\ c \in Nat
  <2>1. MaxCap \in Nat
    BY MemoryAssumption, PowersAre
  <2> QED
    BY <2>1, LeafIs, CapacityIs
<1>2. ASSUME x < c, TagAt(b, Leaf(x), m) = {} PROVE FALSE
  <2>1. PICK o \in m : b \in o.of /\ o.at = Leaf(x)
    BY <1>1, <1>2, NodeThere
  <2>2. o.tag = {}
    BY <1>1, <1>2, <2>1, NoTag, Ways
  <2>3. Width[o.at] > 1
    BY <2>1, <2>2 DEF TreeOf
  <2> QED
    BY <1>1, <2>1, <2>3
<1>3. ASSUME ~(x < c), TagAt(b, Leaf(x), m) # {} PROVE FALSE
  <2>1. PICK o \in m : b \in o.of /\ o.at \in Way[Leaf(x)]
    BY <1>1, <1>3, NoTag
  <2>2. To[o.at] < c /\ x <= To[o.at] /\ To[o.at] \in Nat
    BY <1>1, <2>1, Ways, Intervals DEF TreeOf
  <2> QED
    BY <1>1, <1>3, <2>2
<1> QED
  BY <1>2, <1>3

-----------------------------------------------------------------------------
(* Set_impl: types, and the other banks *)

LEMMA SetTyped ==
  ASSUME NEW b, NEW c, NEW lo, NEW hi, NEW word, NEW m, Setting(b, c, lo, hi, word, m)
  PROVE  Typed(Set_impl(b, c, lo, hi, word, m))
<1> DEFINE R == [at : Places, tag : Tags, of : (SUBSET Banks) \ {{}}]
<1>1. /\ b \in Banks /\ c \in Nat /\ lo \in Int /\ hi \in Int /\ word \in Word
      /\ Typed(m) /\ OneNode(m)
  BY CapacityIs DEF Setting, Heap
<1>2. \A o \in m : /\ o \in R /\ o.at \in Places /\ o.tag \in Tags
                   /\ o.of \in (SUBSET Banks) \ {{}}
  BY <1>1 DEF Typed
<1>3. \A i \in Places, t \in Tags : Pushed(b, c, lo, hi, m, i, t) \in Tags
  BY <1>1, PushedIs, NoTag
<1>4. \A i \in Places, t \in Tags : Written(b, c, lo, hi, word, m, i, t) \in Tags
  BY <1>1, <1>3 DEF Written, Tags
<1>5. {{}} \in Tags
  BY DEF Tags, Word
<1>6. Below(c, lo, hi) \subseteq Places
  BY <1>1, SplitsAreAbove
<1>8. {b} \in (SUBSET Banks) \ {{}}
  <2>1. {b} # {} /\ {b} \subseteq Banks
    BY <1>1
  <2> QED
    BY <2>1
<1>7. ASSUME NEW q \in Set_impl(b, c, lo, hi, word, m) PROVE q \in R
  <2>1. CASE q \in m
    BY <1>2, <2>1
  <2>2. ASSUME NEW o \in m, b \in o.of, o.of # {b},
               q = [at |-> o.at, tag |-> Pushed(b, c, lo, hi, m, o.at, o.tag),
                    of |-> o.of \ {b}]
        PROVE  q \in R
    <3>1. o.of \ {b} \in (SUBSET Banks) \ {{}}
      BY <1>2, <2>2
    <3> QED
      BY <1>2, <1>3, <2>2, <3>1
  <2>3. ASSUME NEW o \in m, b \in o.of,
               q = [at |-> o.at, tag |-> Written(b, c, lo, hi, word, m, o.at, o.tag),
                    of |-> IF o.at \in Visited(c, lo, hi) /\ o.of # {b} THEN {b} ELSE o.of]
        PROVE  q \in R
    <3>1. {b} \in (SUBSET Banks) \ {{}}
      BY <1>8
    <3> QED
      BY <1>2, <1>4, <2>3, <3>1
  <2>4. ASSUME NEW i \in Below(c, lo, hi),
               q = [at |-> i, tag |-> Written(b, c, lo, hi, word, m, i, {{}}), of |-> {b}]
        PROVE  q \in R
    <3>1. {b} \in (SUBSET Banks) \ {{}} /\ i \in Places
      BY <1>6, <1>8, <2>4
    <3> QED
      BY <1>4, <1>5, <2>4, <3>1
  <2> HIDE DEF R
  <2> QED
    BY <1>1, <2>1, <2>2, <2>3, <2>4, SetNodes
<1> QED
  BY <1>7 DEF Typed

LEMMA SetOneNode ==
  ASSUME NEW b, NEW c, NEW lo, NEW hi, NEW word, NEW m, Setting(b, c, lo, hi, word, m)
  PROVE  OneNode(Set_impl(b, c, lo, hi, word, m))
<1> DEFINE S == Set_impl(b, c, lo, hi, word, m)
           A(o) == OwnAfter(b, c, lo, hi, word, m, o)
           N(i) == NewAt(b, c, lo, hi, word, m, i)
           O(o) == OtherAfter(b, c, lo, hi, m, o)
<1>1. OneNode(m)
  BY DEF Setting, Heap
<1>2. \A o : A(o).at = o.at /\ O(o).at = o.at
  BY DEF OwnAfter, OtherAfter
<1>3. \A i : N(i).at = i
  BY DEF NewAt
<1>4. ASSUME NEW p \in S, NEW q \in S, p.at = q.at, b \in p.of, b \in q.of PROVE p = q
  <2>1. \A r \in S : b \in r.of =>
          \/ \E o \in m : b \in o.of /\ r = A(o)
          \/ \E i \in Below(c, lo, hi) : (\A o \in m : b \in o.of => o.at # i) /\ r = N(i)
    BY OwnNodes
  <2> HIDE DEF S, A, N
  <2>2. CASE \E o \in m : b \in o.of /\ p = A(o)
    <3>1. PICK o \in m : b \in o.of /\ p = A(o)
      BY <2>2
    <3>2. o.at = q.at
      BY <1>2, <1>4, <3>1
    <3>3. PICK r \in m : b \in r.of /\ q = A(r)
      BY <1>3, <1>4, <2>1, <3>1, <3>2
    <3>4. r = o
      BY <1>1, <1>2, <3>1, <3>2, <3>3 DEF OneNode
    <3> QED
      BY <3>1, <3>3, <3>4
  <2>3. CASE ~\E o \in m : b \in o.of /\ p = A(o)
    <3>1. PICK i \in Below(c, lo, hi) : (\A o \in m : b \in o.of => o.at # i) /\ p = N(i)
      BY <1>4, <2>1, <2>3
    <3>2. i = q.at
      BY <1>3, <1>4, <3>1
    <3>3. \A o \in m : b \in o.of => q # A(o)
      BY <1>2, <3>1, <3>2
    <3>4. PICK j \in Below(c, lo, hi) : q = N(j)
      BY <1>4, <2>1, <3>3
    <3> QED
      BY <1>3, <3>1, <3>2, <3>4
  <2> QED
    BY <2>2, <2>3
<1>5. ASSUME NEW p \in S, NEW q \in S, p.at = q.at, NEW a, a # b, a \in p.of, a \in q.of
      PROVE  p = q
  <2>1. \A r \in S : a \in r.of => \E o \in m : a \in o.of /\ r = O(o)
    BY <1>5, OthersNodes
  <2> HIDE DEF S, O
  <2>2. PICK o \in m : a \in o.of /\ p = O(o)
    BY <1>5, <2>1
  <2>3. PICK r \in m : a \in r.of /\ q = O(r)
    BY <1>5, <2>1
  <2>4. o.at = r.at
    BY <1>2, <1>5, <2>2, <2>3
  <2>5. o = r
    BY <1>1, <2>2, <2>3, <2>4 DEF OneNode
  <2> QED
    BY <2>2, <2>3, <2>5
<1> HIDE DEF S
<1>6. ASSUME NEW p \in S, NEW q \in S, p.at = q.at, p.of \cap q.of # {} PROVE p = q
  <2>1. PICK a : a \in p.of /\ a \in q.of
    BY <1>6
  <2>2. CASE a = b
    BY <1>4, <1>6, <2>1, <2>2
  <2>3. CASE a # b
    BY <1>5, <1>6, <2>1, <2>3
  <2> QED
    BY <2>2, <2>3
<1> QED
  BY <1>6 DEF OneNode, S

\* The other banks read what they read before, though Pushdown writes to nodes
\* they share.
LEMMA OthersKept ==
  ASSUME NEW b, NEW c, NEW lo, NEW hi, NEW word, NEW m, Setting(b, c, lo, hi, word, m),
         NEW a, a # b
  PROVE  /\ \A i \in Places : TagAt(a, i, Set_impl(b, c, lo, hi, word, m)) = TagAt(a, i, m)
         /\ \A d : TreeOf(a, d, m) => TreeOf(a, d, Set_impl(b, c, lo, hi, word, m))
<1> DEFINE S == Set_impl(b, c, lo, hi, word, m)
<1>1. Typed(m) /\ OneNode(m) /\ Alike(m) /\ c \in Nat /\ lo \in Int /\ hi \in Int
  BY CapacityIs DEF Setting, Heap
<1>2. Typed(S) /\ OneNode(S)
  BY SetTyped, SetOneNode
<1>3. ASSUME NEW o \in m, a \in o.of
      PROVE  LET q == OtherAfter(b, c, lo, hi, m, o)
             IN /\ q.at = o.at
                /\ q.tag = o.tag \/ (q.tag # {} /\ q.tag = TagAt(a, o.at, m))
  <2> DEFINE q == OtherAfter(b, c, lo, hi, m, o)
  <2>1. CASE b \notin o.of
    BY <2>1 DEF OtherAfter
  <2>2. CASE b \in o.of
    <3>1. q.at = o.at /\ q.tag = Pushed(b, c, lo, hi, m, o.at, o.tag)
      BY <2>2 DEF OtherAfter
    <3>2. TagAt(b, o.at, m) = TagAt(a, o.at, m)
      BY <1>1, <1>3, <2>2 DEF Alike
    <3>3. o.at \in Places
      BY <1>1 DEF Typed
    <3>4. \/ Pushed(b, c, lo, hi, m, o.at, o.tag) = o.tag
          \/ /\ Pushed(b, c, lo, hi, m, o.at, o.tag) # {}
             /\ Pushed(b, c, lo, hi, m, o.at, o.tag) = TagAt(b, o.at, m)
      <4> DEFINE t == o.tag
      <4> HIDE DEF t
      <4>1. \/ Pushed(b, c, lo, hi, m, o.at, t) = t
            \/ /\ Pushed(b, c, lo, hi, m, o.at, t) # {}
               /\ Pushed(b, c, lo, hi, m, o.at, t) = TagAt(b, o.at, m)
        BY <1>1, <1>2, <3>3, PushedIs
      <4> QED
        BY <4>1 DEF t
    <3> QED
      BY <3>1, <3>2, <3>4
  <2> QED
    BY <2>1, <2>2
<1>4. ASSUME NEW q \in S, a \in q.of
      PROVE  \E o \in m : /\ a \in o.of /\ o.at = q.at
                          /\ q.tag = o.tag \/ (q.tag # {} /\ q.tag = TagAt(a, o.at, m))
  <2>1. PICK o \in m : a \in o.of /\ q = OtherAfter(b, c, lo, hi, m, o)
    BY <1>4, OthersNodes
  <2> HIDE DEF S
  <2> QED
    BY <1>3, <2>1
<1>5. ASSUME NEW o \in m, a \in o.of PROVE \E q \in S : a \in q.of /\ q.at = o.at
  <2>1. /\ OtherAfter(b, c, lo, hi, m, o) \in S
        /\ a \in OtherAfter(b, c, lo, hi, m, o).of
    BY <1>5, OthersNodes
  <2> HIDE DEF S
  <2> QED
    BY <1>3, <1>5, <2>1
<1> HIDE DEF S
<1>6. Follows(a, S, a, m)
  BY <1>4, <1>5 DEF Follows
<1>7. \A i \in Places : TagAt(a, i, S) = TagAt(a, i, m)
  BY <1>1, <1>2, <1>6, TagsKept
<1>8. \A d : TreeOf(a, d, m) => TreeOf(a, d, S)
  BY <1>6, TreeKept
<1> QED
  BY <1>7, <1>8 DEF S
-----------------------------------------------------------------------------
(* Set_impl: the bank that is written *)

\* A place on the way that meets the range, and nothing inside it so far.
LEMMA MeetingIsSplit ==
  ASSUME NEW c, NEW lo, NEW hi, NEW i \in Places, To[i] < c, Fr[i] <= hi, lo <= To[i],
         \A j \in Way[i] : To[j] < c => ~Inside(j, lo, hi)
  PROVE  i \in Split(c, lo, hi)
<1>1. i \in Way[i] /\ \A j \in Above[i] : j \in Way[i]
  BY Ways
<1> QED
  BY <1>1 DEF Split, Visited

\* The nodes of the bank afterwards: the old ones, and the missing children of
\* those it split.
LEMMA OwnTags ==
  ASSUME NEW b, NEW c, NEW lo, NEW hi, NEW word, NEW m, Setting(b, c, lo, hi, word, m)
  PROVE  /\ \A q \in Set_impl(b, c, lo, hi, word, m) : b \in q.of =>
              /\ q.at \in Places /\ To[q.at] < c
              /\ \/ \E o \in m : /\ b \in o.of /\ o.at = q.at
                                 /\ q.tag = Written(b, c, lo, hi, word, m, q.at, o.tag)
                 \/ /\ q.at \in Below(c, lo, hi)
                    /\ \A o \in m : b \in o.of => o.at # q.at
                    /\ q.tag = Written(b, c, lo, hi, word, m, q.at, {{}})
         /\ \A o \in m : b \in o.of =>
              \E q \in Set_impl(b, c, lo, hi, word, m) : b \in q.of /\ q.at = o.at
         /\ \A i \in Below(c, lo, hi) :
              \E q \in Set_impl(b, c, lo, hi, word, m) : b \in q.of /\ q.at = i
<1> DEFINE S == Set_impl(b, c, lo, hi, word, m)
           W(i, t) == Written(b, c, lo, hi, word, m, i, t)
<1>1. Typed(m) /\ TreeOf(b, c, m) /\ c \in Nat /\ lo \in Int /\ hi \in Int
  BY CapacityIs DEF Setting, Heap
<1>2. \A o : /\ OwnAfter(b, c, lo, hi, word, m, o).at = o.at
             /\ OwnAfter(b, c, lo, hi, word, m, o).tag = W(o.at, o.tag)
  BY DEF OwnAfter
<1>3. \A i : /\ NewAt(b, c, lo, hi, word, m, i).at = i
             /\ NewAt(b, c, lo, hi, word, m, i).tag = W(i, {{}})
  BY DEF NewAt
<1>4. \A o \in m : b \in o.of => o.at \in Places /\ To[o.at] < c
  BY <1>1 DEF Typed, TreeOf
<1>5. \A i \in Below(c, lo, hi) : i \in Places /\ To[i] < c
  BY <1>1, SplitsAreAbove
<1> HIDE DEF W
<1>6. ASSUME NEW q \in S, b \in q.of
      PROVE  /\ q.at \in Places /\ To[q.at] < c
             /\ \/ \E o \in m : b \in o.of /\ o.at = q.at /\ q.tag = W(q.at, o.tag)
                \/ /\ q.at \in Below(c, lo, hi)
                   /\ \A o \in m : b \in o.of => o.at # q.at
                   /\ q.tag = W(q.at, {{}})
  <2>1. CASE \E o \in m : b \in o.of /\ q = OwnAfter(b, c, lo, hi, word, m, o)
    BY <1>2, <1>4, <2>1
  <2>2. CASE \E i \in Below(c, lo, hi) :
               (\A o \in m : b \in o.of => o.at # i) /\ q = NewAt(b, c, lo, hi, word, m, i)
    BY <1>3, <1>5, <2>2
  <2> QED
    BY <1>6, <2>1, <2>2, OwnNodes
<1>7. ASSUME NEW o \in m, b \in o.of PROVE \E q \in S : b \in q.of /\ q.at = o.at
  <2>1. OwnAfter(b, c, lo, hi, word, m, o) \in S /\ b \in OwnAfter(b, c, lo, hi, word, m, o).of
    BY <1>7, OwnNodes
  <2> HIDE DEF S
  <2> QED
    BY <1>2, <2>1
<1>8. \A i \in Below(c, lo, hi) : \E q \in S : b \in q.of /\ q.at = i
  BY OwnNodes
<1> HIDE DEF S
<1> QED
  BY <1>6, <1>7, <1>8 DEF S, W

\* The tree keeps its shape.
LEMMA SetTree ==
  ASSUME NEW b, NEW c, NEW lo, NEW hi, NEW word, NEW m, Setting(b, c, lo, hi, word, m)
  PROVE  TreeOf(b, c, Set_impl(b, c, lo, hi, word, m))
<1> DEFINE S == Set_impl(b, c, lo, hi, word, m)
           W(i, t) == Written(b, c, lo, hi, word, m, i, t)
<1>1. Typed(m) /\ OneNode(m) /\ TreeOf(b, c, m) /\ c \in Nat /\ lo \in Int /\ hi \in Int
  BY CapacityIs DEF Setting, Heap
<1>2. /\ \A q \in S : b \in q.of =>
           /\ q.at \in Places /\ To[q.at] < c
           /\ \/ \E o \in m : b \in o.of /\ o.at = q.at /\ q.tag = W(q.at, o.tag)
              \/ q.at \in Below(c, lo, hi) /\ q.tag = W(q.at, {{}})
      /\ \A o \in m : b \in o.of => \E q \in S : b \in q.of /\ q.at = o.at
      /\ \A i \in Below(c, lo, hi) : \E q \in S : b \in q.of /\ q.at = i
  BY OwnTags
<1>3. \A i \in Places : \A t : W(i, t) = {} => i \in Split(c, lo, hi) \/ t = {}
  <2> SUFFICES ASSUME NEW i \in Places, NEW t, W(i, t) = {}, i \notin Split(c, lo, hi)
               PROVE  t = {}
    OBVIOUS
  <2>1. Pushed(b, c, lo, hi, m, i, t) = {}
    BY DEF Written
  <2> QED
    BY <1>1, <2>1, PushedIs
<1> HIDE DEF S, W
<1>4. \A q \in S : b \in q.of => To[q.at] < c
  BY <1>2
<1>5. c > 0 => \E q \in S : b \in q.of /\ q.at = Root(c)
  BY <1>1, <1>2 DEF TreeOf
<1>6. ASSUME NEW q \in S, b \in q.of, q.tag = {}
      PROVE  /\ Width[q.at] > 1
             /\ \A k \in Children(q.at) : \E p \in S : p.at = k /\ b \in p.of
  <2>1. CASE q.at \in Split(c, lo, hi)
    <3>1. Width[q.at] > 1
      BY <1>1, <2>1, SplitsAreAbove
    <3>2. \A k \in Children(q.at) : k \in Below(c, lo, hi)
      BY <2>1 DEF Below
    <3> QED
      BY <1>2, <3>1, <3>2
  <2>2. CASE q.at \notin Split(c, lo, hi)
    <3> DEFINE z == {{}}
    <3>1. z # {} /\ q.at \in Places
      BY <1>2, <1>6
    <3>5. W(q.at, z) # {}
      <4> HIDE DEF z
      <4> QED
        BY <1>3, <2>2, <3>1
    <3>6. PICK o \in m : b \in o.of /\ o.at = q.at /\ q.tag = W(q.at, o.tag)
      BY <1>2, <1>6, <3>5
    <3>2. b \in o.of /\ o.at = q.at /\ o.tag = {}
      BY <1>3, <1>6, <2>2, <3>1, <3>6
    <3>3. /\ Width[o.at] > 1
          /\ \A k \in Children(o.at) : \E p \in m : p.at = k /\ b \in p.of
      BY <1>1, <3>2 DEF TreeOf
    <3>4. ASSUME NEW k \in Children(q.at) PROVE \E p \in S : p.at = k /\ b \in p.of
      <4>1. PICK p \in m : p.at = k /\ b \in p.of
        BY <3>2, <3>3, <3>4
      <4> QED
        BY <1>2, <4>1
    <3> QED
      BY <3>2, <3>3, <3>4
  <2> QED
    BY <2>1, <2>2
<1> QED
  BY <1>4, <1>5, <1>6 DEF S, TreeOf

\* A set of places that is not empty has a widest member.
LEMMA Widest ==
  ASSUME NEW G \in SUBSET Places, G # {}
  PROVE  \E k \in G : \A j \in G : Width[j] <= Width[k]
<1> DEFINE S == {Width[j] : j \in G}
<1>1. S \in SUBSET Nat /\ S # {} /\ \A v \in S : v <= MaxCap
  BY WidthIs
<1>2. MaxCap \in Nat
  BY MemoryAssumption, PowersAre
<1>3. PICK v \in S : \A x \in S : x <= v
  <2> HIDE DEF S
  <2> QED
    BY <1>1, <1>2, GreatestNumber
<1> QED
  BY <1>3

\* A cell of the range gets the word: the widest place inside the range on the way
\* to it is there, tagged, and nothing above it is.
LEMMA CellInRange ==
  ASSUME NEW b, NEW c, NEW lo, NEW hi, NEW word, NEW m, Setting(b, c, lo, hi, word, m),
         NEW x \in 0 .. MaxCap - 1, x < c, lo <= x, x <= hi
  PROVE  TagAt(b, Leaf(x), Set_impl(b, c, lo, hi, word, m)) = {word}
<1> DEFINE S == Set_impl(b, c, lo, hi, word, m)
           W(i, t) == Written(b, c, lo, hi, word, m, i, t)
           l == Leaf(x)
           G == {j \in Way[l] : To[j] < c /\ Inside(j, lo, hi)}
<1>1. /\ Typed(m) /\ OneNode(m) /\ TreeOf(b, c, m) /\ c \in Nat /\ lo \in Int /\ hi \in Int
      /\ x \in Nat /\ c \in Capacities
  <2>1. MaxCap \in Nat
    BY MemoryAssumption, PowersAre
  <2>2. x \in Nat
    BY <2>1
  <2>3. c \in {0} \cup Capacities /\ c \in Nat
    BY CapacityIs DEF Setting
  <2> QED
    BY <2>2, <2>3 DEF Setting, Heap
<1>2. /\ \A q \in S : b \in q.of =>
           /\ q.at \in Places /\ To[q.at] < c
           /\ \E t : q.tag = W(q.at, t)
      /\ \A o \in m : b \in o.of => \E q \in S : b \in q.of /\ q.at = o.at
      /\ \A i \in Below(c, lo, hi) : \E q \in S : b \in q.of /\ q.at = i
  BY OwnTags
<1>3. /\ l \in Places /\ Fr[l] = x /\ To[l] = x
      /\ \A j \in Way[l] : /\ j \in Places /\ Fr[j] <= x /\ x <= To[j] /\ Way[j] \subseteq Way[l]
                           /\ Fr[j] \in Nat /\ To[j] \in Nat /\ Width[j] \in Nat
  <2>1. l \in Places /\ Fr[l] = x /\ To[l] = x
    BY LeafIs
  <2> QED
    BY <2>1, Ways, Intervals
<1>4. PICK k \in G : \A j \in G : Width[j] <= Width[k]
  <2>1. l \in G
    BY <1>3, Ways DEF Inside
  <2>2. G \in SUBSET Places
    BY <1>3
  <2> HIDE DEF G
  <2> QED
    BY <2>1, <2>2, Widest
<1>5. k \in Way[l] /\ k \in Places /\ To[k] < c /\ Inside(k, lo, hi)
  BY <1>3
<1>6. \A j \in Above[k] : /\ j \in Way[l] /\ Width[k] < Width[j]
                          /\ (To[j] < c => ~Inside(j, lo, hi))
  <2> SUFFICES ASSUME NEW j \in Above[k]
               PROVE  /\ j \in Way[l] /\ Width[k] < Width[j]
                      /\ (To[j] < c => ~Inside(j, lo, hi))
    OBVIOUS
  <2>1. j \in Way[l] /\ Width[k] < Width[j]
    BY <1>3, <1>5, Ways
  <2>2. j \in G => Width[j] <= Width[k]
    BY <1>4
  <2>3. Width[j] \in Nat /\ Width[k] \in Nat
    BY <1>3, <1>5, <2>1
  <2> QED
    BY <2>1, <2>2, <2>3
<1>7. k \in Visited(c, lo, hi) /\ k \notin Split(c, lo, hi)
  <2>1. Fr[k] <= hi /\ lo <= To[k]
    BY <1>1, <1>3, <1>5
  <2> QED
    BY <1>5, <1>6, <2>1 DEF Visited, Split
<1>8. \A j \in Above[k] : To[j] < c => j \in Split(c, lo, hi)
  <2> SUFFICES ASSUME NEW j \in Above[k], To[j] < c PROVE j \in Split(c, lo, hi)
    OBVIOUS
  <2>1. j \in Places /\ Fr[j] <= hi /\ lo <= To[j] /\ Way[j] \subseteq Above[k]
    <3>1. j \in Way[l] /\ Width[k] < Width[j] /\ j \in Way[k]
      BY <1>5, <1>6, Ways
    <3>2. j \in Places /\ Fr[j] <= hi /\ lo <= To[j]
      BY <1>1, <1>3, <3>1
    <3>3. ASSUME NEW i \in Way[j] PROVE i \in Above[k]
      <4>1. i \in Way[k] /\ (i = j \/ Width[j] < Width[i])
        BY <1>5, <3>1, <3>2, Ways
      <4>2. i \in Way[l]
        BY <1>3, <3>1
      <4>3. Width[i] \in Nat /\ Width[j] \in Nat /\ Width[k] \in Nat
        BY <1>3, <1>5, <3>1, <4>2
      <4>4. i # k
        BY <3>1, <4>1, <4>3
      <4> QED
        BY <1>5, <4>1, <4>4, Ways
    <3> QED
      BY <3>2, <3>3
  <2>2. \A i \in Way[j] : To[i] < c => ~Inside(i, lo, hi)
    BY <1>6, <2>1
  <2> QED
    BY <2>1, <2>2, MeetingIsSplit
<1>9. PICK q \in S : b \in q.of /\ q.at = k
  <2> HIDE DEF S
  <2>1. /\ Root(c) \in Places /\ Fr[Root(c)] = 0 /\ To[Root(c)] = c - 1
    BY <1>1, RootIs
  <2>2. CASE k = Root(c)
    <3>1. \E o \in m : b \in o.of /\ o.at = Root(c)
      BY <1>1 DEF TreeOf
    <3> QED
      BY <1>2, <2>2, <3>1
  <2>3. CASE k # Root(c)
    <3>1. Root(c) \in Above[k]
      <4>1. Fr[k] \in Nat /\ To[k] \in Nat /\ To[k] <= c - 1
        BY <1>1, <1>3, <1>5
      <4>2. Root(c) \in Way[k]
        BY <1>5, <2>1, <4>1, Ways
      <4> QED
        BY <1>5, <2>3, <4>2, Ways
    <3>2. PICK s \in Above[k] : k \in Children(s) /\ Root(c) \in Way[s]
      BY <1>5, <3>1, Parent
    <3>3. To[s] < c
      <4>1. s \in Places
        BY <1>3, <1>6
      <4>2. To[s] <= To[Root(c)] /\ To[s] \in Nat
        BY <3>2, <4>1, Ways, Intervals
      <4> QED
        BY <1>1, <2>1, <4>2
    <3>4. k \in Below(c, lo, hi)
      BY <1>8, <3>2, <3>3 DEF Below
    <3> QED
      BY <1>2, <3>4
  <2> QED
    BY <2>2, <2>3
<1>10. q.tag = {word}
  <2>1. PICK t : q.tag = W(k, t)
    BY <1>2, <1>9
  <2> QED
    BY <1>7, <2>1 DEF Written
<1>11. ASSUME NEW p \in S, b \in p.of, p.at \in Above[k] PROVE p.tag = {}
  <2>1. p.at \in Split(c, lo, hi)
    <3> HIDE DEF S
    <3> QED
      BY <1>2, <1>8, <1>11
  <2>2. PICK t : p.tag = W(p.at, t)
    BY <1>2, <1>11
  <2> QED
    BY <2>1, <2>2 DEF Written
<1>12. Typed(S) /\ OneNode(S)
  BY SetTyped, SetOneNode
<1> HIDE DEF S, W
<1>13. Top(b, l, S, q)
  BY <1>5, <1>9, <1>10, <1>11 DEF Top
<1>14. TagAt(b, l, S) = q.tag
  <2> HIDE DEF l
  <2> QED
    BY <1>3, <1>12, <1>13, TagIs
<1> QED
  BY <1>10, <1>14 DEF S
\* Places that the range does not meet are read as before: a tag above them was
\* pushed down to the first node on the way that the range does not meet.
LEMMA ApartKept ==
  ASSUME NEW b, NEW c, NEW lo, NEW hi, NEW word, NEW m, Setting(b, c, lo, hi, word, m),
         NEW i \in Places, To[i] < c, To[i] < lo \/ hi < Fr[i]
  PROVE  TagAt(b, i, Set_impl(b, c, lo, hi, word, m)) = TagAt(b, i, m)
<1> DEFINE S == Set_impl(b, c, lo, hi, word, m)
           W(j, t) == Written(b, c, lo, hi, word, m, j, t)
           P(j, t) == Pushed(b, c, lo, hi, m, j, t)
           D == Split(c, lo, hi)
           B == Below(c, lo, hi)
<1>1. /\ Typed(m) /\ OneNode(m) /\ TreeOf(b, c, m) /\ c \in Nat /\ lo \in Int /\ hi \in Int
      /\ c \in {0} \cup Capacities
  BY CapacityIs DEF Setting, Heap
<1>2. /\ \A q \in S : b \in q.of =>
           /\ q.at \in Places /\ To[q.at] < c
           /\ \/ \E o \in m : b \in o.of /\ o.at = q.at /\ q.tag = W(q.at, o.tag)
              \/ /\ q.at \in B
                 /\ \A o \in m : b \in o.of => o.at # q.at
                 /\ q.tag = W(q.at, {{}})
      /\ \A o \in m : b \in o.of => \E q \in S : b \in q.of /\ q.at = o.at
      /\ \A k \in B : \E q \in S : b \in q.of /\ q.at = k
  BY OwnTags
<1>3. /\ \A j \in Way[i] : /\ j \in Places /\ Way[j] \subseteq Way[i] /\ Width[j] \in Nat
                           /\ Fr[j] \in Nat /\ To[j] \in Nat /\ Fr[j] <= Fr[i] /\ To[i] <= To[j]
      /\ i \in Way[i] /\ Fr[i] \in Nat /\ To[i] \in Nat /\ Fr[i] <= To[i]
  <2>1. To[i] = Fr[i] + Width[i] - 1 /\ Width[i] \in Nat \ {0}
    BY Intervals
  <2> QED
    BY <2>1, Ways, Intervals
<1>4. \A j \in Way[i] : ~Inside(j, lo, hi)
  BY <1>1, <1>3 DEF Inside
<1>5. \A j \in Way[i] : j \notin D => j \notin Visited(c, lo, hi)
  BY <1>4 DEF Split
<1>6. i \notin D
  BY <1>1, <1>3 DEF Split, Visited
\* The tags of the nodes on the way, before and after.
<1>7. \A j \in Way[i] : \A t : W(j, t) = IF j \in D THEN {} ELSE P(j, t)
  BY <1>5 DEF Written
<1>8. \A j \in Way[i] : To[j] < c /\ TagAt(b, j, m) = {} => \E o \in m : b \in o.of /\ o.at = j
  BY <1>1, <1>3, NodeThere
<1>9. ASSUME NEW q \in S, b \in q.of, q.at \in Way[i], TagAt(b, q.at, m) = {}
      PROVE  q.tag = {}
  <2>1. PICK o \in m : b \in o.of /\ o.at = q.at /\ q.tag = W(q.at, o.tag)
    <3> HIDE DEF S, W
    <3> QED
      BY <1>2, <1>8, <1>9
  <2>2. q.at \in Places /\ q.at \in Way[q.at]
    BY <1>3, <1>9, Ways
  <2>3. o.tag = {}
    BY <1>1, <1>9, <2>1, <2>2, NoTag
  <2>4. P(q.at, o.tag) = {}
    BY <1>1, <1>9, <2>2, <2>3, PushedIs
  <2> HIDE DEF S, W, P
  <2> QED
    BY <1>7, <1>9, <2>1, <2>4
<1>10. Typed(S) /\ OneNode(S)
  BY SetTyped, SetOneNode
<1>11. CASE TagAt(b, i, m) = {}
  <2>1. ASSUME NEW q \in S, b \in q.of, q.at \in Way[i] PROVE q.tag = {}
    <3>1. TagAt(b, q.at, m) = {}
      <4>1. \A p \in m : b \in p.of /\ p.at \in Way[q.at] => p.tag = {}
        BY <1>1, <1>3, <1>11, <2>1, NoTag
      <4>2. q.at \in Places
        BY <1>3, <2>1
      <4> QED
        BY <1>1, <4>1, <4>2, NoTag
    <3> QED
      BY <1>9, <2>1, <3>1
  <2> HIDE DEF S
  <2>2. TagAt(b, i, S) = {}
    BY <1>10, <2>1, NoTag
  <2> QED
    BY <1>11, <2>2 DEF S
<1>12. CASE TagAt(b, i, m) # {}
  <2>1. PICK o : Top(b, i, m, o) /\ TagAt(b, i, m) = o.tag
    BY <1>1, <1>12, TagCases
  <2> DEFINE j == o.at
  <2>2. /\ o \in m /\ b \in o.of /\ j \in Way[i] /\ j \in Places /\ o.tag # {} /\ To[j] < c
        /\ \A p \in m : b \in p.of /\ p.at \in Above[j] => p.tag = {}
    BY <1>1, <2>1 DEF Top, Typed, TreeOf
  <2>3. \A k \in Above[j] : k \in Way[i] /\ TagAt(b, k, m) = {}
    <3> SUFFICES ASSUME NEW k \in Above[j] PROVE k \in Way[i] /\ TagAt(b, k, m) = {}
      OBVIOUS
    <3>1. k \in Way[j] /\ k \in Way[i] /\ k \in Places /\ Width[j] < Width[k]
      BY <1>3, <2>2, Ways
    <3>2. ASSUME NEW l \in Way[k] PROVE l \in Above[j]
      <4>1. l \in Way[j] /\ l \in Way[i] /\ (l = k \/ Width[k] < Width[l])
        BY <1>3, <2>2, <3>1, Ways
      <4>2. Width[j] \in Nat /\ Width[k] \in Nat /\ Width[l] \in Nat
        BY <1>3, <2>2, <3>1, <4>1
      <4>3. l # j
        BY <3>1, <4>1, <4>2
      <4> QED
        BY <2>2, <4>1, <4>3, Ways
    <3>3. \A p \in m : b \in p.of /\ p.at \in Way[k] => p.tag = {}
      BY <2>2, <3>2
    <3> QED
      BY <1>1, <3>1, <3>3, NoTag
  <2>4. \A q \in S : b \in q.of /\ q.at \in Above[j] => q.tag = {}
    BY <1>9, <2>3
  <2>5. TagAt(b, j, m) = o.tag
    <3>1. Top(b, j, m, o)
      BY <2>1, <2>2, Ways DEF Top
    <3> QED
      BY <1>1, <2>2, <3>1, TagIs
  \* The tag stays where it is.
  <2>6. CASE j \notin D
    <3>1. PICK q \in S : b \in q.of /\ q.at = j
      BY <1>2, <2>2
    <3>2. PICK p \in m : b \in p.of /\ p.at = q.at /\ q.tag = W(q.at, p.tag)
      BY <1>2, <2>2, <3>1
    <3>3. p = o
      BY <1>1, <2>2, <3>1, <3>2 DEF OneNode
    <3>4. P(j, o.tag) = o.tag
      BY <1>1, <2>2, <2>5, PushedIs
    <3>5. q.tag = o.tag
      <4> HIDE DEF P, W
      <4> QED
        BY <1>7, <2>2, <2>6, <3>1, <3>2, <3>3, <3>4
    <3>6. Top(b, i, S, q)
      <4> HIDE DEF S
      <4> QED
        BY <2>2, <2>4, <3>1, <3>5 DEF Top
    <3> HIDE DEF S
    <3>7. TagAt(b, i, S) = o.tag
      BY <1>10, <3>5, <3>6, TagIs
    <3> QED
      BY <2>1, <3>7 DEF S
  \* It is pushed down.
  <2>7. CASE j \in D
    <3> DEFINE G == {k \in Way[i] : k \notin D /\ Width[k] < Width[j]}
    <3>1. PICK k \in G : \A l \in G : Width[l] <= Width[k]
      <4>1. i # j
        BY <1>6, <2>7
      <4>2. j \in Above[i]
        BY <2>2, <4>1, Ways
      <4>3. i \in G
        BY <1>3, <1>6, <4>2, Ways
      <4>4. G \in SUBSET Places
        BY <1>3
      <4> HIDE DEF G
      <4> QED
        BY <4>3, <4>4, Widest
    <3>2. k \in Way[i] /\ k \notin D /\ Width[k] < Width[j] /\ k \in Places /\ Width[k] \in Nat
      BY <1>3
    <3>3. j \in Above[k]
      <4>1. j \in Way[k]
        BY <1>3, <2>2, <3>2, Chain
      <4> QED
        BY <2>7, <3>2, <4>1, Ways
    <3>4. PICK s \in Above[k] : k \in Children(s) /\ j \in Way[s]
      BY <3>2, <3>3, Parent
    <3>5. s \in Places /\ s \in Way[k] /\ s \in Way[i] /\ Width[k] < Width[s]
          /\ (s = j \/ Width[s] < Width[j])
      BY <1>3, <3>2, <3>4, Ways
    <3>6. s \in D
      <4>1. s \in G => Width[s] <= Width[k]
        BY <3>1
      <4>2. Width[s] \in Nat /\ Width[k] \in Nat
        BY <1>3, <3>2, <3>5
      <4> QED
        BY <2>7, <3>5, <4>1, <4>2
    <3>7. k \in B
      BY <3>4, <3>6 DEF Below
    <3>8. PICK q \in S : b \in q.of /\ q.at = k
      BY <1>2, <3>7
    <3>9. TagAt(b, s, m) = o.tag
      BY <1>1, <2>2, <2>5, <3>4, <3>5, TagBelow
    <3>10. \A t : P(k, t) = o.tag
      BY <1>1, <2>2, <3>2, <3>4, <3>6, <3>9, PushedIs
    <3>11. q.tag = o.tag
      <4>1. \E t : q.tag = W(k, t)
        BY <1>2, <3>8
      <4> HIDE DEF P, W
      <4> QED
        BY <1>7, <3>2, <3>10, <4>1
    <3>12. ASSUME NEW p \in S, b \in p.of, p.at \in Above[k] PROVE p.tag = {}
      <4>1. p.at \in Way[k] /\ p.at \in Way[i] /\ p.at \in Places /\ Width[k] < Width[p.at]
        BY <1>3, <3>2, <3>12, Ways
      <4>2. CASE p.at \in D
        <5>1. \E t : p.tag = W(p.at, t)
          BY <1>2, <3>12
        <5> HIDE DEF W
        <5> QED
          BY <1>7, <4>1, <4>2, <5>1
      <4>3. CASE p.at \notin D
        <5>1. ~(Width[p.at] < Width[j])
          <6>1. p.at \in G => Width[p.at] <= Width[k]
            BY <3>1
          <6>2. Width[p.at] \in Nat
            BY <1>3, <4>1
          <6> QED
            BY <3>2, <4>1, <4>3, <6>1, <6>2
        <5>2. p.at \in Way[j]
          <6>1. Width[p.at] \in Nat /\ Width[j] \in Nat
            BY <1>3, <2>2, <4>1
          <6> QED
            BY <2>2, <4>1, <5>1, <6>1, Chain
        <5>3. p.at \in Above[j]
          BY <2>2, <2>7, <4>3, <5>2, Ways
        <5> QED
          BY <2>4, <3>12, <5>3
      <4> QED
        BY <4>2, <4>3
    <3>13. Top(b, i, S, q)
      <4> HIDE DEF S
      <4> QED
        BY <2>2, <3>2, <3>8, <3>11, <3>12 DEF Top
    <3> HIDE DEF S
    <3>14. TagAt(b, i, S) = o.tag
      BY <1>10, <3>11, <3>13, TagIs
    <3> QED
      BY <2>1, <3>14 DEF S
  <2> QED
    BY <2>6, <2>7
<1> QED
  BY <1>11, <1>12

-----------------------------------------------------------------------------
(* Set_impl: what it does *)

\* Nodes that stay shared are read alike: there is nothing shared below a cell, and
\* all else that is not visited is apart from the range.
LEMMA SetAlike ==
  ASSUME NEW b, NEW c, NEW lo, NEW hi, NEW word, NEW m, Setting(b, c, lo, hi, word, m)
  PROVE  Alike(Set_impl(b, c, lo, hi, word, m))
<1> DEFINE S == Set_impl(b, c, lo, hi, word, m)
<1>1. /\ Typed(m) /\ OneNode(m) /\ TreeOf(b, c, m) /\ c \in Nat /\ lo \in Int /\ hi \in Int
      /\ Alike(m) /\ (lo = hi \/ AloneIn(b, m))
  BY CapacityIs DEF Setting, Heap
<1>2. \A o \in m : o.at \in Places
  BY <1>1 DEF Typed
<1>3. ASSUME NEW q \in S, NEW a \in q.of, a # b
      PROVE  \E o \in m : /\ a \in o.of /\ o.at = q.at /\ q.of \subseteq o.of
                          /\ b \in q.of => o.at \notin Visited(c, lo, hi)
  <2>1. PICK o \in m : a \in o.of /\ q = OtherAfter(b, c, lo, hi, m, o)
    BY <1>3, OthersNodes
  <2>2. CASE b \notin o.of
    BY <2>1, <2>2 DEF OtherAfter
  <2>3. CASE b \in o.of
    <3>1. q.at = o.at /\ q.of = IF o.at \in Visited(c, lo, hi) THEN o.of \ {b} ELSE o.of
      BY <2>1, <2>3 DEF OtherAfter
    <3> QED
      BY <2>1, <3>1
  <2> QED
    BY <2>2, <2>3
<1>4. ASSUME NEW q \in S, NEW a \in q.of, a # b, b \in q.of
      PROVE  TagAt(b, q.at, S) = TagAt(a, q.at, S)
  <2>1. PICK o \in m : /\ a \in o.of /\ o.at = q.at /\ q.of \subseteq o.of
                       /\ o.at \notin Visited(c, lo, hi)
    BY <1>3, <1>4
  <2>2. b \in o.of /\ o.at \in Places /\ To[o.at] < c
    BY <1>1, <1>2, <1>4, <2>1 DEF TreeOf
  <2>3. lo = hi
    BY <1>1, <1>4, <2>1, <2>2 DEF AloneIn
  <2>4. To[o.at] < lo \/ hi < Fr[o.at]
    <3>1. /\ Fr[o.at] \in Nat /\ To[o.at] \in Nat /\ Width[o.at] \in Nat \ {0}
      BY <2>2, Intervals
    <3>2. SUFFICES ASSUME Fr[o.at] <= hi, lo <= To[o.at] PROVE FALSE
      BY <1>1, <3>1
    <3>3. PICK j \in Above[o.at] : To[j] < c /\ Inside(j, lo, hi)
      BY <2>1, <2>2, <3>2 DEF Visited
    <3>4. j \in Places /\ Width[o.at] < Width[j]
      BY <2>2, <3>3, Ways
    <3>5. /\ Fr[j] \in Nat /\ To[j] \in Nat /\ Width[j] \in Nat
          /\ To[j] = Fr[j] + Width[j] - 1
      BY <3>4, Intervals
    <3>6. lo <= Fr[j] /\ To[j] <= lo
      BY <2>3, <3>3 DEF Inside
    <3>7. ~(Width[j] > 1)
      BY <1>1, <3>5, <3>6
    <3> QED
      BY <3>1, <3>4, <3>5, <3>7
  <2>5. TagAt(b, o.at, S) = TagAt(b, o.at, m)
    BY <2>2, <2>4, ApartKept
  <2>6. TagAt(a, o.at, S) = TagAt(a, o.at, m)
    BY <1>4, <2>2, OthersKept
  <2>7. TagAt(b, o.at, m) = TagAt(a, o.at, m)
    BY <1>1, <2>1, <2>2 DEF Alike
  <2> HIDE DEF S
  <2> QED
    BY <2>1, <2>5, <2>6, <2>7
<1>5. ASSUME NEW q \in S, NEW a1 \in q.of, NEW a2 \in q.of, a1 # b, a2 # b
      PROVE  TagAt(a1, q.at, S) = TagAt(a2, q.at, S)
  <2>1. PICK o \in m : a1 \in o.of /\ o.at = q.at /\ q.of \subseteq o.of
    BY <1>3, <1>5
  <2>2. TagAt(a1, o.at, S) = TagAt(a1, o.at, m) /\ TagAt(a2, o.at, S) = TagAt(a2, o.at, m)
    BY <1>2, <1>5, OthersKept
  <2>3. TagAt(a1, o.at, m) = TagAt(a2, o.at, m)
    BY <1>1, <2>1, <1>5 DEF Alike
  <2> HIDE DEF S
  <2> QED
    BY <2>1, <2>2, <2>3
<1> HIDE DEF S
<1>6. ASSUME NEW q \in S, NEW a1 \in q.of, NEW a2 \in q.of
      PROVE  TagAt(a1, q.at, S) = TagAt(a2, q.at, S)
  BY <1>4, <1>5
<1> QED
  BY <1>6 DEF S, Alike

\* What a cell reads as.
V(b, x, m) == UNION TagAt(b, Leaf(x), m)

LEMMA SetWorks ==
  ASSUME NEW b, NEW c, NEW lo, NEW hi, NEW word, NEW m, Setting(b, c, lo, hi, word, m)
  PROVE  LET S == Set_impl(b, c, lo, hi, word, m)
         IN /\ Heap(S) /\ TreeOf(b, c, S) /\ (AloneIn(b, m) => AloneIn(b, S))
            /\ \A x \in 0 .. MaxCap - 1 :
                 V(b, x, S) = IF x < c /\ lo <= x /\ x <= hi THEN word ELSE V(b, x, m)
            /\ \A a : a # b =>
                 /\ \A x \in 0 .. MaxCap - 1 : V(a, x, S) = V(a, x, m)
                 /\ \A d : TreeOf(a, d, m) => TreeOf(a, d, S)
<1> DEFINE S == Set_impl(b, c, lo, hi, word, m)
<1>1. /\ Typed(m) /\ OneNode(m) /\ TreeOf(b, c, m) /\ c \in Nat /\ lo \in Int /\ hi \in Int
      /\ c \in {0} \cup Capacities
  BY CapacityIs DEF Setting, Heap
<1>2. Heap(S) /\ TreeOf(b, c, S)
  BY SetTyped, SetOneNode, SetAlike, SetTree DEF Heap
<1>3. ASSUME AloneIn(b, m), NEW q \in S, b \in q.of PROVE q.of = {b}
  <2>1. CASE \E o \in m : b \in o.of /\ q = OwnAfter(b, c, lo, hi, word, m, o)
    BY <1>3, <2>1 DEF AloneIn, OwnAfter
  <2>2. CASE \E i \in Below(c, lo, hi) : q = NewAt(b, c, lo, hi, word, m, i)
    BY <2>2 DEF NewAt
  <2> QED
    BY <1>3, <2>1, <2>2, OwnNodes
<1>4. ASSUME NEW x \in 0 .. MaxCap - 1
      PROVE  V(b, x, S) = IF x < c /\ lo <= x /\ x <= hi THEN word ELSE V(b, x, m)
  <2>1. Leaf(x) \in Places /\ Fr[Leaf(x)] = x /\ To[Leaf(x)] = x
    BY LeafIs
  <2>2. CASE x < c /\ lo <= x /\ x <= hi
    <3>1. TagAt(b, Leaf(x), S) = {word}
      BY <2>2, CellInRange
    <3> HIDE DEF S
    <3> QED
      BY <2>2, <3>1 DEF V
  <2>3. CASE x < c /\ ~(lo <= x /\ x <= hi)
    <3>1. x \in Int
      BY MemoryAssumption, PowersAre
    <3>2. x < lo \/ hi < x
      BY <1>1, <2>3, <3>1
    <3>3. TagAt(b, Leaf(x), S) = TagAt(b, Leaf(x), m)
      BY <2>1, <2>3, <3>2, ApartKept
    <3> HIDE DEF S
    <3> QED
      BY <2>3, <3>3 DEF V
  <2>4. CASE ~(x < c)
    <3> HIDE DEF S
    <3>1. TagAt(b, Leaf(x), S) = {} /\ TagAt(b, Leaf(x), m) = {}
      BY <1>1, <1>2, <2>4, LeavesAreTagged DEF Heap
    <3> QED
      BY <2>4, <3>1 DEF V
  <2> QED
    BY <2>2, <2>3, <2>4
<1>5. ASSUME NEW a, a # b
      PROVE  /\ \A x \in 0 .. MaxCap - 1 : V(a, x, S) = V(a, x, m)
             /\ \A d : TreeOf(a, d, m) => TreeOf(a, d, S)
  <2>1. /\ \A i \in Places : TagAt(a, i, S) = TagAt(a, i, m)
        /\ \A d : TreeOf(a, d, m) => TreeOf(a, d, S)
    BY <1>5, OthersKept
  <2> HIDE DEF S
  <2> QED
    BY <2>1, LeafIs DEF V
<1> HIDE DEF S
<1>6. AloneIn(b, m) => AloneIn(b, S)
  BY <1>3 DEF AloneIn
<1> QED
  BY <1>2, <1>4, <1>5, <1>6 DEF S
-----------------------------------------------------------------------------
(* Apply and SetAll: a tree read from left to right, and written again *)

Covers(o, x) == Fr[o.at] <= x /\ x <= To[o.at]

\* Segments: tagged places, each apart from the others.
Segments(D) ==
  /\ \A o \in D : o.at \in Places /\ \E w \in Word : o.tag = {w}
  /\ \A o, p \in D : o # p => To[o.at] < Fr[p.at] \/ To[p.at] < Fr[o.at]

LEMMA ApplyIs ==
  ASSUME NEW b, NEW m, Heap(m)
  PROVE  /\ Segments(Apply(b, m))
         /\ \A x \in 0 .. MaxCap - 1 :
              /\ \A o \in Apply(b, m) : Covers(o, x) => V(b, x, m) = UNION o.tag
              /\ (\A o \in Apply(b, m) : ~Covers(o, x)) => V(b, x, m) = {}
<1> DEFINE D == Apply(b, m)
<1>1. Typed(m) /\ OneNode(m)
  BY DEF Heap
<1>2. \A o : o \in D <=> /\ o \in m /\ b \in o.of /\ o.tag # {}
                         /\ \A p \in m : b \in p.of /\ p.at \in Above[o.at] => p.tag = {}
  BY DEF Apply
<1>3. \A o \in D : o.at \in Places /\ \E w \in Word : o.tag = {w}
  BY <1>1, <1>2 DEF Typed, Tags
<1> HIDE DEF D
<1>4. ASSUME NEW o \in D, NEW p \in D, o # p, Width[o.at] <= Width[p.at]
      PROVE  To[o.at] < Fr[p.at] \/ To[p.at] < Fr[o.at]
  <2>1. o.at \in Places /\ p.at \in Places
    BY <1>3
  <2>2. CASE Inside(o.at, Fr[p.at], To[p.at])
    <3>1. p.at \in Way[o.at]
      BY <2>1, <2>2, Ways DEF Inside
    <3>2. p.at # o.at
      BY <1>1, <1>2, <1>4 DEF OneNode
    <3>3. p.at \in Above[o.at]
      BY <2>1, <3>1, <3>2, Ways
    <3> QED
      BY <1>2, <3>3
  <2> QED
    BY <1>4, <2>1, <2>2, NestedOrApart
<1>5. Segments(D)
  <2>1. \A o \in D : Width[o.at] \in Nat
    BY <1>3, Intervals
  <2>2. \A o, p \in D : Width[o.at] <= Width[p.at] \/ Width[p.at] <= Width[o.at]
    BY <2>1
  <2> QED
    BY <1>3, <1>4, <2>2 DEF Segments
<1>6. ASSUME NEW x \in 0 .. MaxCap - 1
      PROVE  /\ \A o \in D : Covers(o, x) => V(b, x, m) = UNION o.tag
             /\ (\A o \in D : ~Covers(o, x)) => V(b, x, m) = {}
  <2>1. Leaf(x) \in Places /\ Fr[Leaf(x)] = x /\ To[Leaf(x)] = x
    BY LeafIs
  <2>2. \A j \in Places : j \in Way[Leaf(x)] <=> Fr[j] <= x /\ x <= To[j]
    BY <2>1, Ways
  <2>3. \A o : Top(b, Leaf(x), m, o) <=> o \in D /\ Covers(o, x)
    BY <1>1, <1>2, <1>3, <2>1, <2>2, Ways DEF Top, Covers
  <2>4. ASSUME NEW o \in D, Covers(o, x) PROVE V(b, x, m) = UNION o.tag
    <3>1. TagAt(b, Leaf(x), m) = o.tag
      BY <1>1, <2>1, <2>3, <2>4, TagIs
    <3> QED
      BY <3>1 DEF V
  <2>5. ASSUME \A o \in D : ~Covers(o, x) PROVE V(b, x, m) = {}
    <3>1. TagAt(b, Leaf(x), m) = {}
      BY <1>1, <2>1, <2>3, <2>5, TagCases
    <3> QED
      BY <3>1 DEF V
  <2> QED
    BY <2>4, <2>5
<1> QED
  BY <1>5, <1>6 DEF D

\* What a bank that is written alone becomes: n is m with bank b written.
Rewritten(b, c, m, n) ==
  /\ Heap(n) /\ TreeOf(b, c, n) /\ AloneIn(b, n)
  /\ \A a : a # b =>
       /\ \A x \in 0 .. MaxCap - 1 : V(a, x, n) = V(a, x, m)
       /\ \A d : TreeOf(a, d, m) => TreeOf(a, d, n)

\* The segments that begin before cell k are set.
SetUpTo(b, c, D, m, k, n) ==
  /\ Rewritten(b, c, m, n)
  /\ \A x \in 0 .. MaxCap - 1 : x < c =>
       /\ \A o \in D : Covers(o, x) /\ Fr[o.at] < k => V(b, x, n) = UNION o.tag
       /\ (\A o \in D : ~(Covers(o, x) /\ Fr[o.at] < k)) => V(b, x, n) = V(b, x, m)

LEMMA SetAtWorks ==
  ASSUME NEW b \in Banks, NEW c \in {0} \cup Capacities, NEW D, Segments(D), NEW m,
         NEW k \in Nat, NEW n, SetUpTo(b, c, D, m, k, n)
  PROVE  SetUpTo(b, c, D, m, k + 1, SetAt(b, c, D, k, n))
<1> DEFINE here == {o \in D : Fr[o.at] = k}
           o == CHOOSE p \in here : TRUE
           S == SetAt(b, c, D, k, n)
<1>1. \A p \in D : p.at \in Places /\ Fr[p.at] \in Nat /\ To[p.at] \in Nat /\ Fr[p.at] <= To[p.at]
  <2> SUFFICES ASSUME NEW p \in D
               PROVE  /\ p.at \in Places /\ Fr[p.at] \in Nat /\ To[p.at] \in Nat
                      /\ Fr[p.at] <= To[p.at]
    OBVIOUS
  <2>1. p.at \in Places
    BY DEF Segments
  <2>2. /\ Fr[p.at] \in Nat /\ To[p.at] \in Nat /\ Width[p.at] \in Nat \ {0}
        /\ To[p.at] = Fr[p.at] + Width[p.at] - 1
    BY <2>1, Intervals
  <2> QED
    BY <2>1, <2>2
<1>2. CASE here = {}
  <2>1. S = n
    BY <1>2 DEF SetAt
  <2>2. \A p \in D : Fr[p.at] < k + 1 <=> Fr[p.at] < k
    BY <1>1, <1>2
  <2>3. /\ Rewritten(b, c, m, n)
        /\ \A x \in 0 .. MaxCap - 1 : x < c =>
             /\ \A p \in D : Covers(p, x) /\ Fr[p.at] < k => V(b, x, n) = UNION p.tag
             /\ (\A p \in D : ~(Covers(p, x) /\ Fr[p.at] < k)) => V(b, x, n) = V(b, x, m)
    BY DEF SetUpTo
  <2>4. ASSUME NEW x \in 0 .. MaxCap - 1, x < c
        PROVE  /\ \A p \in D : Covers(p, x) /\ Fr[p.at] < k + 1 => V(b, x, n) = UNION p.tag
               /\ (\A p \in D : ~(Covers(p, x) /\ Fr[p.at] < k + 1)) => V(b, x, n) = V(b, x, m)
    <3>1. (\A p \in D : ~(Covers(p, x) /\ Fr[p.at] < k + 1)) =>
            \A p \in D : ~(Covers(p, x) /\ Fr[p.at] < k)
      BY <2>2
    <3>2. \A p \in D : Covers(p, x) /\ Fr[p.at] < k + 1 => Covers(p, x) /\ Fr[p.at] < k
      BY <2>2
    <3> QED
      BY <2>3, <2>4, <3>1, <3>2
  <2>5. SetUpTo(b, c, D, m, k + 1, n)
    BY <2>3, <2>4 DEF SetUpTo
  <2> HIDE DEF S
  <2> QED
    BY <2>1, <2>5 DEF S
<1>3. CASE here # {}
  <2>1. o \in here
    BY <1>3
  <2>2. o \in D /\ Fr[o.at] = k
    BY <2>1
  <2>3. S = Set_impl(b, c, Fr[o.at], To[o.at], UNION o.tag, n)
    BY <1>3 DEF SetAt
  <2> HIDE DEF S, o, here
  <2>4. UNION o.tag \in Word
    BY <2>2 DEF Segments
  <2>5. Heap(n) /\ TreeOf(b, c, n) /\ AloneIn(b, n)
    BY DEF SetUpTo, Rewritten
  <2>6. Setting(b, c, Fr[o.at], To[o.at], UNION o.tag, n)
    BY <1>1, <2>2, <2>4, <2>5 DEF Setting
  <2>7. /\ Heap(S) /\ TreeOf(b, c, S) /\ AloneIn(b, S)
        /\ \A x \in 0 .. MaxCap - 1 :
             V(b, x, S) = IF x < c /\ Fr[o.at] <= x /\ x <= To[o.at] THEN UNION o.tag
                          ELSE V(b, x, n)
        /\ \A a : a # b =>
             /\ \A x \in 0 .. MaxCap - 1 : V(a, x, S) = V(a, x, n)
             /\ \A d : TreeOf(a, d, n) => TreeOf(a, d, S)
    <3> DEFINE R == Set_impl(b, c, Fr[o.at], To[o.at], UNION o.tag, n)
    <3>1. /\ Heap(R) /\ TreeOf(b, c, R) /\ (AloneIn(b, n) => AloneIn(b, R))
          /\ \A x \in 0 .. MaxCap - 1 :
               V(b, x, R) = IF x < c /\ Fr[o.at] <= x /\ x <= To[o.at] THEN UNION o.tag
                            ELSE V(b, x, n)
          /\ \A a : a # b =>
               /\ \A x \in 0 .. MaxCap - 1 : V(a, x, R) = V(a, x, n)
               /\ \A d : TreeOf(a, d, n) => TreeOf(a, d, R)
      BY <2>6, SetWorks
    <3>2. S = R
      BY <2>3
    <3> HIDE DEF R
    <3> QED
      BY <2>5, <3>1, <3>2
  <2>8. Rewritten(b, c, m, S)
    BY <2>7 DEF SetUpTo, Rewritten
  <2>9. ASSUME NEW x \in 0 .. MaxCap - 1, x < c
        PROVE  /\ \A p \in D : Covers(p, x) /\ Fr[p.at] < k + 1 => V(b, x, S) = UNION p.tag
               /\ (\A p \in D : ~(Covers(p, x) /\ Fr[p.at] < k + 1)) => V(b, x, S) = V(b, x, m)
    <3>0. x \in Int
      BY MemoryAssumption, PowersAre
    <3>1. V(b, x, S) = IF Covers(o, x) THEN UNION o.tag ELSE V(b, x, n)
      BY <2>7, <2>9 DEF Covers
    <3>2. /\ \A p \in D : Covers(p, x) /\ Fr[p.at] < k => V(b, x, n) = UNION p.tag
          /\ (\A p \in D : ~(Covers(p, x) /\ Fr[p.at] < k)) => V(b, x, n) = V(b, x, m)
      BY <2>9 DEF SetUpTo
    <3>3. ASSUME NEW p \in D, p # o PROVE ~(Covers(p, x) /\ Covers(o, x)) /\ Fr[p.at] # k
      <4>1. To[o.at] < Fr[p.at] \/ To[p.at] < Fr[o.at]
        BY <2>2, <3>3 DEF Segments
      <4> QED
        BY <1>1, <2>2, <3>0, <4>1 DEF Covers
    <3>4. \A p \in D : p # o => (Fr[p.at] < k + 1 <=> Fr[p.at] < k)
      BY <1>1, <3>3
    <3>5. Fr[o.at] < k + 1
      BY <2>2
    <3>6. ASSUME NEW p \in D, Covers(p, x), Fr[p.at] < k + 1 PROVE V(b, x, S) = UNION p.tag
      <4>1. CASE p = o
        BY <3>1, <3>6, <4>1
      <4>2. CASE p # o
        BY <3>1, <3>2, <3>3, <3>4, <3>6, <4>2
      <4> QED
        BY <4>1, <4>2
    <3>7. ASSUME \A p \in D : ~(Covers(p, x) /\ Fr[p.at] < k + 1)
          PROVE  V(b, x, S) = V(b, x, m)
      <4>1. ~Covers(o, x)
        BY <2>2, <3>5, <3>7
      <4>2. \A p \in D : ~(Covers(p, x) /\ Fr[p.at] < k)
        BY <3>4, <3>7, <4>1
      <4> QED
        BY <3>1, <3>2, <4>1, <4>2
    <3> QED
      BY <3>6, <3>7
  <2> QED
    BY <2>8, <2>9 DEF SetUpTo, S
<1> QED
  BY <1>2, <1>3

\* The function SetAll recurses with.
AfterTo(b, c, D, m, n, f) ==
  f = [k \in 0 .. n |-> IF k = 0 THEN m ELSE SetAt(b, c, D, k - 1, f[k - 1])]

LEMMA AfterExists ==
  ASSUME NEW b, NEW c, NEW D, NEW m
  PROVE  \A n \in Nat : \E f : AfterTo(b, c, D, m, n, f)
<1> DEFINE N == {n \in Nat : \E f : AfterTo(b, c, D, m, n, f)}
           T(k, n) == SetAt(b, c, D, k, n)
<1>0. \A n, f : AfterTo(b, c, D, m, n, f) <=>
                  f = [k \in 0 .. n |-> IF k = 0 THEN m ELSE T(k - 1, f[k - 1])]
  BY DEF AfterTo
<1> HIDE DEF T
<1>1. 0 \in N
  <2> DEFINE g == [k \in 0 .. 0 |-> m]
  <2>1. g = [k \in 0 .. 0 |-> IF k = 0 THEN m ELSE T(k - 1, g[k - 1])]
    OBVIOUS
  <2> HIDE DEF g
  <2> QED
    BY <1>0, <2>1
<1>2. ASSUME NEW x \in N PROVE x + 1 \in N
  <2>1. PICK f : AfterTo(b, c, D, m, x, f)
    OBVIOUS
  <2> DEFINE g == [k \in 0 .. x + 1 |-> IF k = x + 1 THEN T(x, f[x]) ELSE f[k]]
             h == [k \in 0 .. x + 1 |-> IF k = 0 THEN m ELSE T(k - 1, g[k - 1])]
  <2>0. x \in Nat /\ f = [k \in 0 .. x |-> IF k = 0 THEN m ELSE T(k - 1, f[k - 1])]
    BY <1>0, <2>1
  <2>2. ASSUME NEW k \in 0 .. x + 1 PROVE g[k] = h[k]
    <3>1. CASE k = x + 1
      <4>1. k # 0 /\ k - 1 = x /\ k - 1 \in 0 .. x + 1 /\ k - 1 # x + 1
        BY <2>0, <3>1
      <4>2. g[k - 1] = f[x]
        BY <4>1
      <4> QED
        BY <3>1, <4>1, <4>2
    <3>2. CASE k = 0
      <4>1. 0 \in 0 .. x /\ k # x + 1
        BY <2>0, <3>2
      <4>2. f[0] = m
        BY <2>0, <4>1
      <4> QED
        BY <3>2, <4>1, <4>2
    <3>3. CASE k # 0 /\ k # x + 1
      <4>1. k \in 0 .. x /\ k - 1 \in 0 .. x /\ k - 1 \in 0 .. x + 1 /\ k - 1 # x + 1
        BY <2>0, <3>3
      <4>2. f[k] = T(k - 1, f[k - 1])
        BY <2>0, <3>3, <4>1
      <4>3. g[k - 1] = f[k - 1] /\ g[k] = f[k]
        BY <3>3, <4>1
      <4> QED
        BY <3>3, <4>2, <4>3
    <3> QED
      BY <3>1, <3>2, <3>3
  <2>3. g = h
    BY <2>2
  <2>4. AfterTo(b, c, D, m, x + 1, g)
    BY <1>0, <2>3
  <2> HIDE DEF g
  <2> QED
    BY <2>4
<1> HIDE DEF N
<1>3. N \in SUBSET Nat
  BY DEF N
<1>4. N = Nat
  BY <1>1, <1>2, <1>3, AllNumbers
<1> QED
  BY <1>4 DEF N

\* Every segment is set, and nothing else of the tree changes.
LEMMA SetAllWorks ==
  ASSUME NEW b \in Banks, NEW c \in {0} \cup Capacities, NEW D, Segments(D), NEW m,
         Heap(m), TreeOf(b, c, m), AloneIn(b, m)
  PROVE  LET S == SetAll(b, c, D, m)
         IN /\ Rewritten(b, c, m, S)
            /\ \A x \in 0 .. MaxCap - 1 : x < c =>
                 /\ \A o \in D : Covers(o, x) => V(b, x, S) = UNION o.tag
                 /\ (\A o \in D : ~Covers(o, x)) => V(b, x, S) = V(b, x, m)
<1> DEFINE after == CHOOSE f : AfterTo(b, c, D, m, MaxCap, f)
           N == {k \in Nat : k <= MaxCap => SetUpTo(b, c, D, m, k, after[k])}
<1>0. MaxCap \in Nat
  BY MemoryAssumption, PowersAre
<1>1. AfterTo(b, c, D, m, MaxCap, after)
  BY <1>0, AfterExists
<1>2. SetAll(b, c, D, m) = after[MaxCap]
  BY DEF SetAll, AfterTo
<1>3. \A o \in D : Fr[o.at] \in Nat /\ Fr[o.at] < MaxCap
  <2> SUFFICES ASSUME NEW o \in D PROVE Fr[o.at] \in Nat /\ Fr[o.at] < MaxCap
    OBVIOUS
  <2>1. o.at \in Places
    BY DEF Segments
  <2>2. /\ Fr[o.at] \in Nat /\ To[o.at] \in Nat /\ Width[o.at] \in Nat \ {0}
        /\ To[o.at] = Fr[o.at] + Width[o.at] - 1 /\ To[o.at] < MaxCap
    BY <2>1, Intervals
  <2> QED
    BY <1>0, <2>2
<1> HIDE DEF after
<1>4. after[0] = m
  <2>1. 0 \in 0 .. MaxCap
    BY <1>0
  <2> QED
    BY <1>1, <2>1 DEF AfterTo
<1>5. 0 \in N
  <2>1. \A o \in D : ~(Fr[o.at] < 0)
    BY <1>3
  <2>2. Rewritten(b, c, m, m)
    BY DEF Rewritten
  <2> QED
    BY <1>4, <2>1, <2>2 DEF SetUpTo
<1>6. ASSUME NEW k \in N PROVE k + 1 \in N
  <2>1. CASE k + 1 <= MaxCap
    <3>1. k \in Nat /\ k <= MaxCap /\ k + 1 \in 0 .. MaxCap /\ k + 1 # 0 /\ (k + 1) - 1 = k
      BY <1>0, <2>1
    <3>2. after[k + 1] = SetAt(b, c, D, k, after[k])
      BY <1>1, <3>1 DEF AfterTo
    <3>3. SetUpTo(b, c, D, m, k, after[k])
      BY <3>1
    <3>4. SetUpTo(b, c, D, m, k + 1, after[k + 1])
      BY <3>1, <3>2, <3>3, SetAtWorks
    <3> QED
      BY <3>1, <3>4
  <2> QED
    BY <2>1
<1>7. SetUpTo(b, c, D, m, MaxCap, after[MaxCap])
  <2>1. N \in SUBSET Nat
    OBVIOUS
  <2>2. N = Nat
    <3> HIDE DEF N
    <3> QED
      BY <1>5, <1>6, <2>1, AllNumbers
  <2> QED
    BY <1>0, <2>2
<1> QED
  BY <1>2, <1>3, <1>7 DEF SetUpTo
-----------------------------------------------------------------------------
(* Release, Rebuild and Resize *)

LEMMA ReleaseIs ==
  ASSUME NEW b, NEW m, Heap(m)
  PROVE  LET n == Release(b, m)
         IN /\ Heap(n) /\ \A o \in n : b \notin o.of
            /\ \A a : a # b => Follows(a, n, a, m)
            /\ \A a : a # b =>
                 /\ \A i \in Places : TagAt(a, i, n) = TagAt(a, i, m)
                 /\ \A d : TreeOf(a, d, m) => TreeOf(a, d, n)
<1> DEFINE n == Release(b, m)
<1>1. Typed(m) /\ OneNode(m) /\ Alike(m)
  BY DEF Heap
<1>2. \A o \in m : /\ o = [at |-> o.at, tag |-> o.tag, of |-> o.of]
                   /\ o.at \in Places /\ o.tag \in Tags /\ o.of \in (SUBSET Banks) \ {{}}
  BY <1>1 DEF Typed
<1>3. \A o \in m : [o EXCEPT !.of = @ \ {b}] = [at |-> o.at, tag |-> o.tag, of |-> o.of \ {b}]
  BY <1>2
<1>4. \A q : q \in n <=> \E o \in m : /\ o.of # {b}
                                      /\ q = [at |-> o.at, tag |-> o.tag, of |-> o.of \ {b}]
  BY <1>3 DEF Release
<1> HIDE DEF n
<1>5. Typed(n) /\ \A q \in n : b \notin q.of
  <2> SUFFICES ASSUME NEW q \in n
               PROVE  /\ q \in [at : Places, tag : Tags, of : (SUBSET Banks) \ {{}}]
                      /\ b \notin q.of
    BY DEF Typed
  <2>1. PICK o \in m : /\ o.of # {b}
                       /\ q = [at |-> o.at, tag |-> o.tag, of |-> o.of \ {b}]
    BY <1>4
  <2>2. o.of \ {b} \in (SUBSET Banks) \ {{}}
    BY <1>2, <2>1
  <2> QED
    BY <1>2, <2>1, <2>2
<1>6. OneNode(n)
  <2> SUFFICES ASSUME NEW p \in n, NEW q \in n, p.at = q.at, p.of \cap q.of # {} PROVE p = q
    BY DEF OneNode
  <2>1. PICK o \in m : p = [at |-> o.at, tag |-> o.tag, of |-> o.of \ {b}]
    BY <1>4
  <2>2. PICK r \in m : q = [at |-> r.at, tag |-> r.tag, of |-> r.of \ {b}]
    BY <1>4
  <2>3. o.at = r.at /\ o.of \cap r.of # {}
    BY <2>1, <2>2
  <2>4. o = r
    BY <1>1, <2>3 DEF OneNode
  <2> QED
    BY <2>1, <2>2, <2>4
<1>7. ASSUME NEW a, a # b PROVE Follows(a, n, a, m)
  <2>1. ASSUME NEW q \in n, a \in q.of
        PROVE  \E o \in m : /\ a \in o.of /\ o.at = q.at
                            /\ q.tag = o.tag \/ (q.tag # {} /\ q.tag = TagAt(a, o.at, m))
    <3>1. PICK o \in m : q = [at |-> o.at, tag |-> o.tag, of |-> o.of \ {b}]
      BY <1>4
    <3>2. a \in o.of /\ o.at = q.at /\ q.tag = o.tag
      BY <2>1, <3>1
    <3> QED
      BY <3>2
  <2>2. ASSUME NEW o \in m, a \in o.of PROVE \E q \in n : a \in q.of /\ q.at = o.at
    <3> DEFINE q == [at |-> o.at, tag |-> o.tag, of |-> o.of \ {b}]
    <3>1. q \in n
      BY <1>4, <1>7, <2>2
    <3>2. a \in q.of /\ q.at = o.at
      BY <1>7, <2>2
    <3> HIDE DEF q
    <3> QED
      BY <3>1, <3>2
  <2> QED
    BY <2>1, <2>2 DEF Follows
<1>8. ASSUME NEW a, a # b
      PROVE  /\ \A i \in Places : TagAt(a, i, n) = TagAt(a, i, m)
             /\ \A d : TreeOf(a, d, m) => TreeOf(a, d, n)
  <2>1. Follows(a, n, a, m)
    BY <1>7, <1>8
  <2>2. \A i \in Places : TagAt(a, i, n) = TagAt(a, i, m)
    BY <1>1, <1>5, <1>6, <2>1, TagsKept
  <2>3. \A d : TreeOf(a, d, m) => TreeOf(a, d, n)
    BY <2>1, TreeKept
  <2> QED
    BY <2>2, <2>3
<1>9. Alike(n)
  <2> SUFFICES ASSUME NEW q \in n, NEW a1 \in q.of, NEW a2 \in q.of
               PROVE  TagAt(a1, q.at, n) = TagAt(a2, q.at, n)
    BY DEF Alike
  <2>1. PICK o \in m : q = [at |-> o.at, tag |-> o.tag, of |-> o.of \ {b}]
    BY <1>4
  <2>2. a1 \in o.of /\ a2 \in o.of /\ o.at = q.at /\ a1 # b /\ a2 # b /\ o.at \in Places
    BY <1>2, <2>1
  <2>3. TagAt(a1, o.at, n) = TagAt(a1, o.at, m) /\ TagAt(a2, o.at, n) = TagAt(a2, o.at, m)
    BY <1>8, <2>2
  <2>4. TagAt(a1, o.at, m) = TagAt(a2, o.at, m)
    BY <1>1, <2>2 DEF Alike
  <2> QED
    BY <2>2, <2>3, <2>4
<1>10. Heap(n)
  BY <1>5, <1>6, <1>9 DEF Heap
<1> QED
  BY <1>5, <1>7, <1>8, <1>10 DEF n

\* A new root, which no one else reaches.
LEMMA RootAdded ==
  ASSUME NEW b \in Banks, NEW c \in Capacities, NEW m, Heap(m), \A o \in m : b \notin o.of
  PROVE  LET n == m \cup {[at |-> Root(c), tag |-> {{}}, of |-> {b}]}
         IN Rewritten(b, c, m, n) /\ \A x \in 0 .. MaxCap - 1 : V(b, x, n) = {}
<1> DEFINE r == [at |-> Root(c), tag |-> {{}}, of |-> {b}]
           n == m \cup {r}
<1>1. Typed(m) /\ OneNode(m) /\ Alike(m)
  BY DEF Heap
<1>2. Root(c) \in Places /\ To[Root(c)] = c - 1 /\ c \in Nat
  BY RootIs
<1>3. r.at = Root(c) /\ r.tag # {} /\ r.of = {b} /\ UNION r.tag = {}
  OBVIOUS
<1>4. r \in [at : Places, tag : Tags, of : (SUBSET Banks) \ {{}}]
  <2>1. {{}} \in Tags
    BY DEF Tags, Word
  <2>2. {b} \subseteq Banks /\ {b} # {}
    OBVIOUS
  <2>3. {b} \in (SUBSET Banks) \ {{}}
    BY <2>2
  <2> QED
    BY <1>2, <2>1, <2>3
<1>5. \A q : q \in n <=> q \in m \/ q = r
  OBVIOUS
<1> HIDE DEF r, n
<1>6. Typed(n)
  BY <1>1, <1>4, <1>5 DEF Typed
<1>7. OneNode(n)
  <2> SUFFICES ASSUME NEW p \in n, NEW q \in n, p.at = q.at, p.of \cap q.of # {} PROVE p = q
    BY DEF OneNode
  <2>1. CASE p \in m /\ q \in m
    BY <1>1, <2>1 DEF OneNode
  <2>2. CASE p = r /\ q = r
    BY <2>2
  <2>3. CASE p = r /\ q \in m
    BY <1>3, <2>3
  <2>4. CASE p \in m /\ q = r
    BY <1>3, <2>4
  <2> QED
    BY <1>5, <2>1, <2>2, <2>3, <2>4
<1>8. ASSUME NEW a, a # b PROVE Follows(a, n, a, m)
  <2>1. \A q \in n : a \in q.of => q \in m
    BY <1>3, <1>5, <1>8
  <2> QED
    BY <1>5, <2>1 DEF Follows
<1>9. ASSUME NEW a, a # b
      PROVE  /\ \A i \in Places : TagAt(a, i, n) = TagAt(a, i, m)
             /\ \A d : TreeOf(a, d, m) => TreeOf(a, d, n)
  <2>1. Follows(a, n, a, m)
    BY <1>8, <1>9
  <2>2. \A i \in Places : TagAt(a, i, n) = TagAt(a, i, m)
    BY <1>1, <1>6, <1>7, <2>1, TagsKept
  <2>3. \A d : TreeOf(a, d, m) => TreeOf(a, d, n)
    BY <2>1, TreeKept
  <2> QED
    BY <2>2, <2>3
<1>10. Alike(n)
  <2> SUFFICES ASSUME NEW q \in n, NEW a1 \in q.of, NEW a2 \in q.of
               PROVE  TagAt(a1, q.at, n) = TagAt(a2, q.at, n)
    BY DEF Alike
  <2>1. CASE q = r
    BY <1>3, <2>1
  <2>2. CASE q \in m
    <3>1. a1 # b /\ a2 # b /\ q.at \in Places
      BY <1>1, <2>2 DEF Typed
    <3>2. TagAt(a1, q.at, n) = TagAt(a1, q.at, m) /\ TagAt(a2, q.at, n) = TagAt(a2, q.at, m)
      BY <1>9, <3>1
    <3>3. TagAt(a1, q.at, m) = TagAt(a2, q.at, m)
      BY <1>1, <2>2 DEF Alike
    <3> QED
      BY <3>2, <3>3
  <2> QED
    BY <1>5, <2>1, <2>2
<1>11. \A q \in n : b \in q.of => q = r
  BY <1>5
<1>12. TreeOf(b, c, n)
  BY <1>2, <1>3, <1>5, <1>11 DEF TreeOf
<1>13. AloneIn(b, n)
  BY <1>3, <1>11 DEF AloneIn
<1>14. ASSUME NEW x \in 0 .. MaxCap - 1 PROVE V(b, x, n) = {}
  <2>1. Leaf(x) \in Places
    BY LeafIs
  <2>2. CASE TagAt(b, Leaf(x), n) = {}
    BY <2>2 DEF V
  <2>3. CASE \E o : Top(b, Leaf(x), n, o) /\ TagAt(b, Leaf(x), n) = o.tag
    BY <1>3, <1>11, <2>3 DEF V, Top
  <2> QED
    BY <1>6, <1>7, <2>1, <2>2, <2>3, TagCases
<1>15. Rewritten(b, c, m, n)
  <2>1. \A a : a # b => \A x \in 0 .. MaxCap - 1 : V(a, x, n) = V(a, x, m)
    BY <1>9, LeafIs DEF V
  <2> QED
    BY <1>6, <1>7, <1>9, <1>10, <1>12, <1>13, <2>1 DEF Rewritten, Heap
<1> QED
  BY <1>14, <1>15 DEF n, r

\* Rebuild keeps the words the new tree has room for.
LEMMA RebuildIs ==
  ASSUME NEW b \in Banks, NEW c \in Capacities, NEW m, Heap(m)
  PROVE  LET n == Rebuild(b, c, m)
         IN /\ Rewritten(b, c, m, n)
            /\ \A x \in 0 .. MaxCap - 1 : V(b, x, n) = IF x < c THEN V(b, x, m) ELSE {}
<1> DEFINE D == Apply(b, m)
           n0 == Release(b, m)
           n1 == n0 \cup {[at |-> Root(c), tag |-> {{}}, of |-> {b}]}
           n == SetAll(b, c, D, n1)
<1>1. Rebuild(b, c, m) = n
  BY DEF Rebuild
<1>2. /\ Segments(D)
      /\ \A x \in 0 .. MaxCap - 1 :
           /\ \A o \in D : Covers(o, x) => V(b, x, m) = UNION o.tag
           /\ (\A o \in D : ~Covers(o, x)) => V(b, x, m) = {}
  BY ApplyIs
<1>3. /\ Heap(n0) /\ \A o \in n0 : b \notin o.of
      /\ \A a : a # b =>
           /\ \A i \in Places : TagAt(a, i, n0) = TagAt(a, i, m)
           /\ \A d : TreeOf(a, d, m) => TreeOf(a, d, n0)
  BY ReleaseIs
<1>4. \A a : a # b => \A x \in 0 .. MaxCap - 1 : V(a, x, n0) = V(a, x, m)
  <2> HIDE DEF n0
  <2> QED
    BY <1>3, LeafIs DEF V
<1>5. Rewritten(b, c, n0, n1) /\ \A x \in 0 .. MaxCap - 1 : V(b, x, n1) = {}
  <2> HIDE DEF n0
  <2> QED
    BY <1>3, RootAdded
<1> HIDE DEF D, n0, n1
<1>6. Heap(n1) /\ TreeOf(b, c, n1) /\ AloneIn(b, n1) /\ c \in {0} \cup Capacities
  BY <1>5 DEF Rewritten
<1>7. /\ Rewritten(b, c, n1, n)
      /\ \A x \in 0 .. MaxCap - 1 : x < c =>
           /\ \A o \in D : Covers(o, x) => V(b, x, n) = UNION o.tag
           /\ (\A o \in D : ~Covers(o, x)) => V(b, x, n) = V(b, x, n1)
  BY <1>2, <1>6, SetAllWorks
<1> HIDE DEF n
<1>8. Rewritten(b, c, m, n)
  <2>1. Heap(n) /\ TreeOf(b, c, n) /\ AloneIn(b, n)
    BY <1>7 DEF Rewritten
  <2>2. ASSUME NEW a, a # b
        PROVE  /\ \A x \in 0 .. MaxCap - 1 : V(a, x, n) = V(a, x, m)
               /\ \A d : TreeOf(a, d, m) => TreeOf(a, d, n)
    BY <1>3, <1>4, <1>5, <1>7, <2>2 DEF Rewritten
  <2> QED
    BY <2>1, <2>2 DEF Rewritten
<1>9. ASSUME NEW x \in 0 .. MaxCap - 1
      PROVE  V(b, x, n) = IF x < c THEN V(b, x, m) ELSE {}
  <2>1. CASE x < c
    BY <1>2, <1>5, <1>7, <2>1
  <2>2. CASE ~(x < c)
    <3>1. Typed(n) /\ OneNode(n) /\ TreeOf(b, c, n)
      BY <1>8 DEF Rewritten, Heap
    <3>2. TagAt(b, Leaf(x), n) = {}
      BY <1>6, <2>2, <3>1, LeavesAreTagged
    <3> QED
      BY <2>2, <3>2 DEF V
  <2> QED
    BY <2>1, <2>2
<1> QED
  BY <1>1, <1>8, <1>9

\* The capacity that is settled on has room for the size.
LEMMA NewCapIs ==
  ASSUME NEW c \in {0} \cup Capacities, NEW n \in 0 .. MaxCap
  PROVE  NewCap(c, n) \in {c} \cup Capacities /\ n <= NewCap(c, n)
<1> USE MemoryAssumption
<1>1. /\ MinCap \in Nat \ {0} /\ MaxCap \in Nat \ {0} /\ n \in Nat /\ n <= MaxCap
      /\ Capacities \subseteq Nat /\ MinCap \in Capacities /\ MaxCap \in Capacities
      /\ \A k \in Capacities : k \in Powers /\ MinCap <= k /\ k <= MaxCap
      /\ c \in Nat /\ c <= MaxCap
  <2>1. MinCap \in Nat \ {0} /\ MaxCap \in Nat \ {0}
    BY PowersAre
  <2>2. n \in Nat /\ n <= MaxCap
    BY <2>1
  <2>3. MinCap \in Capacities /\ MaxCap \in Capacities
    BY <2>1 DEF Capacities
  <2>4. \A k \in Capacities : k \in Powers /\ MinCap <= k /\ k <= MaxCap
    BY DEF Capacities
  <2>5. Capacities \subseteq Nat
    BY <2>4, PowersAre
  <2>6. c \in Nat /\ c <= MaxCap
    BY CapacityIs
  <2> QED
    BY <2>1, <2>2, <2>3, <2>4, <2>5, <2>6
<1>2. CASE c < n
  <2> DEFINE S == {k \in Capacities : k >= n /\ k >= c}
             x == CHOOSE x \in S : \A y \in S : x <= y
  <2>1. S \in SUBSET Nat /\ S # {}
    <3>1. MaxCap \in S
      BY <1>1
    <3> QED
      BY <1>1, <3>1
  <2>2. \E y \in S : \A z \in S : y <= z
    <3> HIDE DEF S
    <3> QED
      BY <2>1, LeastNumber
  <2>3. x \in S
    <3> HIDE DEF S
    <3> QED
      BY <2>2
  <2>4. NewCap(c, n) = x
    BY <1>2 DEF NewCap, Min
  <2> HIDE DEF x
  <2>5. x \in Capacities /\ x >= n /\ x \in Nat
    BY <1>1, <2>3
  <2> QED
    BY <1>1, <2>4, <2>5
<1>3. CASE ~(c < n)
  <2> DEFINE halved == {c} \cup {k \in Capacities : k <= c}
             S == {k \in halved : k <= MinCap \/ k \div 4 < n}
             least == CHOOSE x \in S : \A y \in S : x >= y
  <2>1. S \in SUBSET Nat /\ S # {} /\ \A x \in S : x <= MaxCap
    <3>1. c = 0 \/ MinCap <= c
      BY <1>1
    <3>2. 0 <= MinCap /\ MinCap <= MinCap
      BY <1>1
    <3>3. c = 0 => 0 \in S
      BY <3>2
    <3>4. MinCap <= c => MinCap \in S
      BY <1>1, <3>2
    <3>5. S # {}
      BY <3>1, <3>3, <3>4
    <3>6. \A x \in S : x \in Nat /\ x <= MaxCap
      BY <1>1
    <3> HIDE DEF S
    <3> QED
      BY <3>5, <3>6
  <2>2. least \in S /\ \A y \in S : least >= y
    <3> HIDE DEF S
    <3>1. PICK x \in S : \A y \in S : y <= x
      BY <1>1, <2>1, GreatestNumber
    <3>2. \A y \in S : x >= y
      BY <2>1, <3>1
    <3> QED
      BY <3>2
  <2>3. NewCap(c, n) = IF least < c \div 4 THEN least ELSE c
    BY <1>3 DEF NewCap, Max
  <2>6. least \in Nat /\ least \in {c} \cup Capacities
    <3> HIDE DEF least
    <3> QED
      BY <1>1, <2>1, <2>2
  <2> HIDE DEF least
  <2>4. CASE least < c \div 4
    <3>1. least \in Nat /\ c \div 4 \in Nat /\ 4 * (c \div 4) <= c
      BY <1>1, <2>6
    <3>2. 2 * least < c /\ least < c /\ least # c
      BY <1>1, <2>4, <3>1
    <3>3. least \in Capacities /\ c \in Capacities
      BY <1>1, <2>6, <3>1, <3>2
    <3>4. 2 * least \in Powers /\ 2 * least \in Nat /\ least > 0
      <4>1. least \in Powers /\ c \in Powers
        BY <1>1, <3>3
      <4>2. 2 * least \in Powers
        BY <3>2, <4>1, PowersAre
      <4> QED
        BY <2>6, <4>1, <4>2, PowersAre
    <3>5. 2 * least \in Capacities /\ 2 * least <= c
      <4>1. MinCap <= least /\ least \in Nat
        BY <1>1, <3>1, <3>3
      <4>2. MinCap <= 2 * least /\ 2 * least <= MaxCap
        BY <1>1, <3>2, <4>1
      <4> QED
        BY <1>1, <3>2, <3>4, <4>2 DEF Capacities
    <3>6. ASSUME ~(n <= least) PROVE FALSE
      <4>1. (2 * least) \div 4 <= least /\ (2 * least) \div 4 \in Nat
        BY <3>1
      <4>2. (2 * least) \div 4 < n
        BY <1>1, <3>1, <3>6, <4>1
      <4>3. 2 * least \in S
        BY <3>5, <4>2
      <4>4. least >= 2 * least
        BY <2>2, <4>3
      <4> QED
        BY <3>1, <3>4, <4>4
    <3> QED
      BY <2>3, <2>4, <3>3, <3>6
  <2>5. CASE ~(least < c \div 4)
    <3>1. NewCap(c, n) = c
      BY <2>3, <2>5
    <3> QED
      BY <1>1, <1>3, <3>1
  <2> QED
    BY <2>4, <2>5
<1> QED
  BY <1>2, <1>3

\* Resize keeps the words there is still room for.
LEMMA ResizedIs ==
  ASSUME NEW b \in Banks, NEW c \in {0} \cup Capacities, NEW n \in 0 .. MaxCap, NEW m,
         Heap(m), TreeOf(b, c, m)
  PROVE  LET k == NewCap(c, n)
             S == Resized(b, c, n, m)
         IN /\ Heap(S) /\ TreeOf(b, k, S) /\ (AloneIn(b, m) => AloneIn(b, S))
            /\ \A x \in 0 .. MaxCap - 1 : V(b, x, S) = IF x < k THEN V(b, x, m) ELSE {}
            /\ \A a : a # b =>
                 /\ \A x \in 0 .. MaxCap - 1 : V(a, x, S) = V(a, x, m)
                 /\ \A d : TreeOf(a, d, m) => TreeOf(a, d, S)
<1> DEFINE k == NewCap(c, n)
           S == Resized(b, c, n, m)
<1>1. k \in {c} \cup Capacities
  BY NewCapIs
<1>2. S = IF k = c THEN m ELSE Rebuild(b, k, m)
  BY DEF Resized
<1>3. CASE k = c
  <2>1. S = m
    BY <1>2, <1>3
  <2>2. ASSUME NEW x \in 0 .. MaxCap - 1, ~(x < c) PROVE V(b, x, m) = {}
    <3>1. TagAt(b, Leaf(x), m) = {}
      BY <2>2, LeavesAreTagged DEF Heap
    <3> QED
      BY <3>1 DEF V
  <2> HIDE DEF k, S
  <2> QED
    BY <1>3, <2>1, <2>2 DEF k, S
<1>4. CASE k # c
  <2>1. S = Rebuild(b, k, m)
    BY <1>2, <1>4
  <2>2. k \in Capacities
    <3> HIDE DEF k
    <3> QED
      BY <1>1, <1>4
  <2> DEFINE R == Rebuild(b, k, m)
  <2>3. /\ Rewritten(b, k, m, R)
        /\ \A x \in 0 .. MaxCap - 1 : V(b, x, R) = IF x < k THEN V(b, x, m) ELSE {}
    <3> HIDE DEF k
    <3> QED
      BY <2>2, RebuildIs
  <2> HIDE DEF k, S, R
  <2> QED
    BY <2>1, <2>3 DEF k, S, R, Rewritten
<1> QED
  BY <1>3, <1>4

-----------------------------------------------------------------------------
(* The banks *)

\* The nodes form a tree for each bank; what is shared is read alike.
MInv ==
  /\ size \in [Banks -> 0 .. MaxCap]
  /\ cap \in [Banks -> {0} \cup Capacities]
  /\ \A b \in Banks : size[b] <= cap[b]
  /\ Heap(nodes)
  /\ \A b \in Banks : TreeOf(b, cap[b], nodes)

\* Reading cell x comes to a tag before it comes to a null node.
Reaches(b, x, c, m) ==
  LET way == {j \in Way[Leaf(x)] : To[j] < c}
  IN \E o \in m :
       /\ b \in o.of /\ o.at \in way /\ o.tag # {}
       /\ \A j \in way : Width[j] > Width[o.at] => \E p \in m : p.at = j /\ b \in p.of

LEMMA ReadableIs ==
  ASSUME NEW b, NEW c \in {0} \cup Capacities, NEW m, Heap(m), TreeOf(b, c, m),
         NEW x \in 0 .. MaxCap - 1, x < c
  PROVE  Reaches(b, x, c, m)
<1> DEFINE l == Leaf(x)
           way == {j \in Way[l] : To[j] < c}
<1>1. l \in Places /\ Typed(m) /\ OneNode(m)
  BY LeafIs DEF Heap
<1>2. TagAt(b, l, m) # {}
  BY <1>1, LeavesAreTagged
<1>3. PICK o : Top(b, l, m, o)
  BY <1>1, <1>2, TagCases
<1> HIDE DEF l
<1>4. /\ o \in m /\ b \in o.of /\ o.at \in Places /\ o.at \in Way[l] /\ o.tag # {} /\ To[o.at] < c
      /\ \A p \in m : b \in p.of /\ p.at \in Above[o.at] => p.tag = {}
  BY <1>1, <1>3 DEF Top, Typed, TreeOf
<1>5. ASSUME NEW j \in Way[l], To[j] < c, Width[j] > Width[o.at]
      PROVE  \E p \in m : p.at = j /\ b \in p.of
  <2>1. j \in Places /\ Width[j] \in Nat /\ Width[o.at] \in Nat
    BY <1>1, <1>4, Ways, Intervals
  <2>2. j \in Way[o.at]
    BY <1>1, <1>4, <1>5, <2>1, Chain
  <2>3. ASSUME NEW k \in Way[j] PROVE k \in Above[o.at]
    <3>1. k \in Way[o.at] /\ k \in Places /\ (k = j \/ Width[j] < Width[k])
      BY <1>4, <2>1, <2>2, Ways
    <3>2. Width[k] \in Nat
      BY <3>1, Intervals
    <3>3. k # o.at
      BY <1>5, <2>1, <3>1, <3>2
    <3> QED
      BY <1>4, <3>1, <3>3, Ways
  <2>4. \A p \in m : b \in p.of /\ p.at \in Way[j] => p.tag = {}
    BY <1>4, <2>3
  <2>5. TagAt(b, j, m) = {}
    BY <1>1, <2>1, <2>4, NoTag
  <2> QED
    BY <1>1, <1>5, <2>1, <2>5, NodeThere
<1>6. \E p \in m : /\ b \in p.of /\ p.at \in way /\ p.tag # {}
                   /\ \A j \in way : Width[j] > Width[p.at] => \E q \in m : q.at = j /\ b \in q.of
  BY <1>4, <1>5
<1> QED
  BY <1>6 DEF l, Reaches

\* What is read is what the nodes are tagged with.
LEMMA WordIs ==
  ASSUME NEW b, NEW c \in {0} \cup Capacities, NEW m, Heap(m), TreeOf(b, c, m),
         NEW x \in 0 .. MaxCap - 1
  PROVE  /\ ~(x < c) => V(b, x, m) = {}
         /\ V(b, x, m) \in Word
<1>1. Leaf(x) \in Places /\ Typed(m) /\ OneNode(m)
  BY LeafIs DEF Heap
<1>2. TagAt(b, Leaf(x), m) \in Tags
  BY <1>1, NoTag
<1>3. V(b, x, m) \in Word
  <2>1. CASE TagAt(b, Leaf(x), m) = {}
    BY <2>1 DEF V, Word
  <2>2. CASE \E w \in Word : TagAt(b, Leaf(x), m) = {w}
    BY <2>2 DEF V
  <2> QED
    BY <1>2, <2>1, <2>2 DEF Tags
<1>4. ~(x < c) => V(b, x, m) = {}
  BY <1>1, LeavesAreTagged DEF V
<1> QED
  BY <1>3, <1>4

Read(m) == [b \in Banks |-> [i \in Observed |-> V(b, i, m)]]

LEMMA ObservedIs == Observed \subseteq 0 .. MaxCap - 1 /\ Observed \subseteq Nat
<1>1. Observed \subseteq 0 .. MaxCap - 1
  BY MemoryAssumption
<1>2. MaxCap \in Nat
  BY MemoryAssumption, PowersAre
<1> QED
  BY <1>1, <1>2

LEMMA WordsAre == MInv => Words = Read(nodes)
<1> SUFFICES ASSUME MInv PROVE Words = Read(nodes)
  OBVIOUS
<1>1. ASSUME NEW b \in Banks, NEW i \in Observed
      PROVE  V(b, i, nodes) = IF i >= cap[b] THEN {}
                              ELSE IF Readable(b, i) THEN Value(b, i) ELSE {Bits}
  <2>1. /\ i \in 0 .. MaxCap - 1 /\ i \in Nat /\ cap[b] \in {0} \cup Capacities /\ cap[b] \in Nat
        /\ Heap(nodes) /\ TreeOf(b, cap[b], nodes)
    BY ObservedIs, CapacityIs DEF MInv
  <2>2. CASE i >= cap[b]
    BY <2>1, <2>2, WordIs
  <2>3. CASE i < cap[b]
    <3>0. Reaches(b, i, cap[b], nodes)
      BY <2>1, <2>3, ReadableIs
    <3>1. Readable(b, i)
      BY <3>0 DEF Readable, Reaches
    <3>2. Value(b, i) = V(b, i, nodes)
      BY DEF Value, V
    <3> QED
      BY <2>1, <2>3, <3>1, <3>2
  <2> QED
    BY <2>1, <2>2, <2>3
<1> QED
  BY <1>1 DEF Words, Read

LEMMA WordsAreNext == MInv' => Words' = Read(nodes')
<1> SUFFICES ASSUME MInv' PROVE Words' = Read(nodes')
  OBVIOUS
<1>1. ASSUME NEW b \in Banks, NEW i \in Observed
      PROVE  V(b, i, nodes') = IF i >= cap'[b] THEN {}
                               ELSE IF Readable(b, i)' THEN Value(b, i)' ELSE {Bits}
  <2>1. /\ i \in 0 .. MaxCap - 1 /\ i \in Nat /\ cap'[b] \in {0} \cup Capacities /\ cap'[b] \in Nat
        /\ Heap(nodes') /\ TreeOf(b, cap'[b], nodes')
    BY ObservedIs, CapacityIs DEF MInv
  <2>2. CASE i >= cap'[b]
    BY <2>1, <2>2, WordIs
  <2>3. CASE i < cap'[b]
    <3>0. Reaches(b, i, cap'[b], nodes')
      BY <2>1, <2>3, ReadableIs
    <3>1. Readable(b, i)'
      BY <3>0 DEF Readable, Reaches
    <3>2. Value(b, i)' = V(b, i, nodes')
      BY DEF Value, V
    <3> QED
      BY <2>1, <2>3, <3>1, <3>2
  <2> QED
    BY <2>1, <2>2, <2>3
<1> QED
  BY <1>1 DEF Words, Read

\* One bank changes, and the others are read as before.
LEMMA OneBank ==
  ASSUME MInv, NEW b \in Banks, NEW n \in 0 .. MaxCap, NEW k \in {0} \cup Capacities, n <= k,
         size' = [size EXCEPT ![b] = n], cap' = [cap EXCEPT ![b] = k],
         Heap(nodes'), TreeOf(b, k, nodes'),
         \A a : a # b =>
           /\ \A x \in 0 .. MaxCap - 1 : V(a, x, nodes') = V(a, x, nodes)
           /\ \A d : TreeOf(a, d, nodes) => TreeOf(a, d, nodes')
  PROVE  /\ MInv'
         /\ Words' = [Words EXCEPT ![b] = [i \in Observed |-> V(b, i, nodes')]]
<1>1. size' \in [Banks -> 0 .. MaxCap] /\ cap' \in [Banks -> {0} \cup Capacities]
  BY DEF MInv
<1>2. \A a \in Banks : size'[a] <= cap'[a]
  BY DEF MInv
<1>3. \A a \in Banks : TreeOf(a, cap'[a], nodes')
  BY DEF MInv
<1>4. MInv'
  BY <1>1, <1>2, <1>3 DEF MInv
<1>5. Words = Read(nodes) /\ Words' = Read(nodes')
  BY <1>4, WordsAre, WordsAreNext
<1>6. \A a \in Banks : a # b => \A i \in Observed : V(a, i, nodes') = V(a, i, nodes)
  BY ObservedIs
<1>7. Read(nodes') = [Read(nodes) EXCEPT ![b] = [i \in Observed |-> V(b, i, nodes')]]
  BY <1>6 DEF Read
<1> QED
  BY <1>4, <1>5, <1>7
-----------------------------------------------------------------------------
(* The steps *)

RInv == MInv /\ words = Words

\* Words beyond the end that a tree of k cells keeps: all those up to some cell.
LEMMA Forgotten ==
  ASSUME NEW w, NEW n \in Nat, NEW k \in Nat, n <= k
  PROVE  [i \in Observed |-> IF i < k THEN w[i] ELSE {}] \in Plain!Forgetting(w, n)
<1> DEFINE H == {i \in Observed : n <= i /\ i < k}
           K == {n} \cup {i + 1 : i \in {j \in Observed : j >= n}}
           F(c) == [i \in Observed |-> IF i < c THEN w[i] ELSE {}]
<1>1. Observed \subseteq Nat
  BY ObservedIs
<1>2. \E c \in K : \A i \in Observed : i < c <=> i < k
  <2>1. CASE H = {}
    <3>1. \A i \in Observed : i < n <=> i < k
      BY <1>1, <2>1
    <3> QED
      BY <3>1
  <2>2. CASE H # {}
    <3>1. H \in SUBSET Nat /\ \A i \in H : i <= k
      <4>1. \A i \in H : i \in Nat /\ i < k
        BY <1>1
      <4>2. \A i \in H : i <= k
        BY <4>1
      <4> HIDE DEF H
      <4> QED
        BY <4>1, <4>2
    <3>2. PICK h \in H : \A i \in H : i <= h
      <4> HIDE DEF H
      <4> QED
        BY <2>2, <3>1, GreatestNumber
    <3>3. h \in Observed /\ h \in Nat /\ n <= h /\ h < k
      BY <1>1
    <3>4. ASSUME NEW i \in Observed PROVE i < h + 1 <=> i < k
      <4>1. i \in Nat
        BY <1>1
      <4>2. n <= i /\ i < k => i <= h
        BY <3>2
      <4> QED
        BY <3>3, <4>1, <4>2
    <3>5. h + 1 \in K
      BY <3>3
    <3> QED
      BY <3>4, <3>5
  <2> QED
    BY <2>1, <2>2
<1>3. PICK c \in K : \A i \in Observed : i < c <=> i < k
  BY <1>2
<1>4. F(c) = F(k)
  BY <1>3
<1>5. F(c) \in {F(x) : x \in K}
  BY <1>3
<1> QED
  BY <1>4, <1>5 DEF Plain!Forgetting

LEMMA BankIs ==
  ASSUME MInv, NEW b \in Banks
  PROVE  /\ size[b] \in 0 .. MaxCap /\ size[b] \in Nat /\ size[b] <= cap[b]
         /\ cap[b] \in {0} \cup Capacities /\ cap[b] \in Nat
         /\ Heap(nodes) /\ TreeOf(b, cap[b], nodes) /\ MaxCap \in Nat
<1>1. MaxCap \in Nat
  BY MemoryAssumption, PowersAre
<1>2. size[b] \in 0 .. MaxCap /\ size[b] <= cap[b] /\ cap[b] \in {0} \cup Capacities
  BY DEF MInv
<1>3. Heap(nodes) /\ TreeOf(b, cap[b], nodes)
  BY DEF MInv
<1> QED
  BY <1>1, <1>2, <1>3, CapacityIs

LEMMA ResizeStep ==
  ASSUME RInv, NEW b \in Banks, NEW n \in Sizes, Resize(b, n), words' = Words'
  PROVE  MInv' /\ Plain!Resize(b, n)
<1> DEFINE k == NewCap(cap[b], n)
           w == [i \in Observed |-> V(b, i, nodes')]
<1>1. /\ MInv /\ words = Words
      /\ cap[b] \in {0} \cup Capacities /\ Heap(nodes) /\ TreeOf(b, cap[b], nodes)
      /\ MaxCap \in Nat
  BY BankIs DEF RInv
<1>2. n \in 0 .. MaxCap
  BY MemoryAssumption
<1>3. /\ size' = [size EXCEPT ![b] = n]
      /\ cap' = [cap EXCEPT ![b] = k]
      /\ nodes' = Resized(b, cap[b], n, nodes)
  BY DEF Resize
<1>4. k \in {0} \cup Capacities /\ n <= k
  BY <1>1, <1>2, NewCapIs
<1>5. /\ Heap(nodes') /\ TreeOf(b, k, nodes')
      /\ \A x \in 0 .. MaxCap - 1 : V(b, x, nodes') = IF x < k THEN V(b, x, nodes) ELSE {}
      /\ \A a : a # b =>
           /\ \A x \in 0 .. MaxCap - 1 : V(a, x, nodes') = V(a, x, nodes)
           /\ \A d : TreeOf(a, d, nodes) => TreeOf(a, d, nodes')
  <2> DEFINE S == Resized(b, cap[b], n, nodes)
  <2>1. /\ Heap(S) /\ TreeOf(b, k, S)
        /\ \A x \in 0 .. MaxCap - 1 : V(b, x, S) = IF x < k THEN V(b, x, nodes) ELSE {}
        /\ \A a : a # b =>
             /\ \A x \in 0 .. MaxCap - 1 : V(a, x, S) = V(a, x, nodes)
             /\ \A d : TreeOf(a, d, nodes) => TreeOf(a, d, S)
    BY <1>1, <1>2, ResizedIs
  <2>2. nodes' = S
    BY <1>3
  <2> HIDE DEF S, k
  <2> QED
    BY <2>1, <2>2
<1> HIDE DEF k
<1>6. MInv' /\ Words' = [Words EXCEPT ![b] = w]
  BY <1>1, <1>2, <1>3, <1>4, <1>5, OneBank
<1>7. words[b] = [i \in Observed |-> V(b, i, nodes)]
  BY <1>1, WordsAre DEF Read
<1>8. w = [i \in Observed |-> IF i < k THEN words[b][i] ELSE {}]
  BY <1>5, <1>7, ObservedIs
<1>9. n \in Nat /\ k \in Nat
  BY <1>1, <1>2, <1>4, CapacityIs
<1>10. w \in Plain!Forgetting(words[b], n)
  BY <1>4, <1>8, <1>9, Forgotten
<1> HIDE DEF w
<1>11. words' = [words EXCEPT ![b] = w]
  BY <1>1, <1>6
<1> QED
  BY <1>3, <1>6, <1>10, <1>11 DEF Plain!Resize

\* Set_impl writes a range of one bank.
LEMMA SetStep ==
  ASSUME RInv, NEW b \in Banks, NEW lo \in Int, NEW hi \in Int, NEW word \in Word,
         lo = hi \/ AloneIn(b, nodes), hi < size[b],
         nodes' = Set_impl(b, cap[b], lo, hi, word, nodes), UNCHANGED <<size, cap>>,
         words' = Words'
  PROVE  /\ MInv'
         /\ words' = [words EXCEPT ![b] = [i \in Observed |-> IF lo <= i /\ i <= hi THEN word
                                                               ELSE words[b][i]]]
<1> DEFINE w == [i \in Observed |-> V(b, i, nodes')]
<1>1. /\ MInv /\ words = Words /\ MaxCap \in Nat
      /\ cap[b] \in {0} \cup Capacities /\ Heap(nodes) /\ TreeOf(b, cap[b], nodes)
      /\ size[b] \in 0 .. MaxCap /\ size[b] <= cap[b] /\ cap[b] \in Nat
  BY BankIs DEF RInv
<1>2. Setting(b, cap[b], lo, hi, word, nodes)
  BY <1>1 DEF Setting
<1>3. /\ Heap(nodes') /\ TreeOf(b, cap[b], nodes')
      /\ \A x \in 0 .. MaxCap - 1 :
           V(b, x, nodes') = IF x < cap[b] /\ lo <= x /\ x <= hi THEN word ELSE V(b, x, nodes)
      /\ \A a : a # b =>
           /\ \A x \in 0 .. MaxCap - 1 : V(a, x, nodes') = V(a, x, nodes)
           /\ \A d : TreeOf(a, d, nodes) => TreeOf(a, d, nodes')
  BY <1>2, SetWorks
<1>4. size' = [size EXCEPT ![b] = size[b]] /\ cap' = [cap EXCEPT ![b] = cap[b]]
  BY <1>1 DEF MInv
<1>5. MInv' /\ Words' = [Words EXCEPT ![b] = w]
  BY <1>1, <1>3, <1>4, OneBank
<1>6. words[b] = [i \in Observed |-> V(b, i, nodes)]
  BY <1>1, WordsAre DEF Read
<1>7. ASSUME NEW x \in Observed
      PROVE  w[x] = IF lo <= x /\ x <= hi THEN word ELSE words[b][x]
  <2>1. x \in 0 .. MaxCap - 1 /\ x \in Nat
    BY ObservedIs
  <2>2. x <= hi => x < cap[b]
    BY <1>1, <2>1
  <2> QED
    BY <1>3, <1>6, <2>1, <2>2
<1> QED
  BY <1>1, <1>5, <1>7

\* Writing one word; a cell that is not observed changes nothing that is read.
LEMMA CellStep ==
  ASSUME RInv, NEW b \in Banks, NEW i \in Cells, NEW word \in Word, Set(b, i, word),
         words' = Words'
  PROVE  MInv' /\ ((i \in Observed /\ Plain!Write(b, i, word)) \/ UNCHANGED <<size, words>>)
<1>1. /\ i < size[b] /\ UNCHANGED <<size, cap>>
      /\ nodes' = Set_impl(b, cap[b], i, i, word, nodes)
  BY DEF Set
<1>2. i \in Nat
  BY MemoryAssumption, PowersAre
<1>3. /\ MInv'
      /\ words' = [words EXCEPT ![b] = [x \in Observed |-> IF i <= x /\ x <= i THEN word
                                                            ELSE words[b][x]]]
  BY <1>1, <1>2, SetStep
<1>4. \A x \in Observed : i <= x /\ x <= i <=> x = i
  BY <1>2, ObservedIs
<1>5. words = Read(nodes)
  BY WordsAre DEF RInv
<1>6. words[b] \in [Observed -> UNION {{words[b][x]} : x \in Observed}]
      /\ words[b] = [x \in Observed |-> words[b][x]]
  BY <1>5 DEF Read
<1>7. CASE i \in Observed
  <2>1. [x \in Observed |-> IF i <= x /\ x <= i THEN word ELSE words[b][x]]
          = [words[b] EXCEPT ![i] = word]
    BY <1>4, <1>6
  <2>2. words' = [words EXCEPT ![b][i] = word]
    BY <1>3, <2>1
  <2> QED
    BY <1>1, <1>3, <1>7, <2>2 DEF Plain!Write
<1>8. CASE i \notin Observed
  <2>1. [x \in Observed |-> IF i <= x /\ x <= i THEN word ELSE words[b][x]] = words[b]
    BY <1>4, <1>6, <1>8
  <2>2. words' = words
    BY <1>3, <1>5, <2>1 DEF Read
  <2> QED
    BY <1>1, <1>3, <2>2
<1> QED
  BY <1>7, <1>8

LEMMA FillStep ==
  ASSUME CarefulFills, RInv, NEW b \in Banks, NEW r \in Ranges, NEW word \in Values,
         Fill(b, r[1], r[2], word), words' = Words'
  PROVE  MInv' /\ Plain!Fill(b, r[1], r[2], word)
<1>1. /\ r[1] \in Nat /\ r[2] \in Nat /\ r[2] > 0 /\ word \in Word /\ ~FillShared
  BY MemoryAssumption, PowersAre DEF CarefulFills
<1>2. /\ r[2] <= size[b] /\ Alone(b) /\ UNCHANGED <<size, cap>>
      /\ nodes' = Set_impl(b, cap[b], r[1], LastOf(r[2]), word, nodes)
  BY <1>1 DEF Fill
<1>3. LastOf(r[2]) = r[2] - 1 /\ r[2] - 1 \in Int /\ r[1] \in Int
  BY <1>1 DEF LastOf
<1>4. AloneIn(b, nodes)
  BY <1>2 DEF Alone, AloneIn
<1>5. MInv /\ size[b] \in Nat
  BY BankIs DEF RInv
<1>6. r[2] - 1 < size[b]
  BY <1>1, <1>2, <1>5
<1>7. /\ MInv'
      /\ words' = [words EXCEPT ![b] = [i \in Observed |->
                     IF r[1] <= i /\ i <= r[2] - 1 THEN word ELSE words[b][i]]]
  BY <1>1, <1>2, <1>3, <1>4, <1>6, SetStep
<1>8. \A i \in Observed : i <= r[2] - 1 <=> i < r[2]
  BY <1>1, ObservedIs
<1>9. [i \in Observed |-> IF r[1] <= i /\ i <= r[2] - 1 THEN word ELSE words[b][i]]
        = [i \in Observed |-> IF r[1] <= i /\ i < r[2] THEN word ELSE words[b][i]]
  BY <1>8
<1> QED
  BY <1>2, <1>7, <1>9 DEF Plain!Fill

\* A copy shares the whole tree.
LEMMA CopyIs ==
  ASSUME NEW a, NEW b \in Banks, a # b, NEW m, Heap(m), \A o \in m : b \notin o.of
  PROVE  LET n == {IF a \in o.of THEN [o EXCEPT !.of = @ \cup {b}] ELSE o : o \in m}
         IN /\ Heap(n)
            /\ \A x \in 0 .. MaxCap - 1 : V(b, x, n) = V(a, x, m)
            /\ \A d : TreeOf(a, d, m) => TreeOf(b, d, n)
            /\ \A c : c # b =>
                 /\ \A x \in 0 .. MaxCap - 1 : V(c, x, n) = V(c, x, m)
                 /\ \A d : TreeOf(c, d, m) => TreeOf(c, d, n)
<1> DEFINE O(o) == IF a \in o.of THEN [o EXCEPT !.of = @ \cup {b}] ELSE o
           n == {O(o) : o \in m}
<1>1. Typed(m) /\ OneNode(m) /\ Alike(m)
  BY DEF Heap
<1>2. \A o \in m : /\ o = [at |-> o.at, tag |-> o.tag, of |-> o.of]
                   /\ o.at \in Places /\ o.tag \in Tags /\ o.of \in (SUBSET Banks) \ {{}}
  BY <1>1 DEF Typed
<1>3. \A o \in m : O(o) = [at |-> o.at, tag |-> o.tag,
                           of |-> IF a \in o.of THEN o.of \cup {b} ELSE o.of]
  BY <1>2
<1>4. \A q : q \in n <=> \E o \in m : q = O(o)
  OBVIOUS
<1>5. \A o \in m : /\ O(o).at = o.at /\ O(o).tag = o.tag
                   /\ \A c : c # b => (c \in O(o).of <=> c \in o.of)
                   /\ b \in O(o).of <=> a \in o.of
  BY <1>3
<1>6. \A o \in m : O(o) \in [at : Places, tag : Tags, of : (SUBSET Banks) \ {{}}]
  <2> SUFFICES ASSUME NEW o \in m
               PROVE  O(o) \in [at : Places, tag : Tags, of : (SUBSET Banks) \ {{}}]
    OBVIOUS
  <2>1. (IF a \in o.of THEN o.of \cup {b} ELSE o.of) \in (SUBSET Banks) \ {{}}
    BY <1>2
  <2> HIDE DEF O
  <2> QED
    BY <1>2, <1>3, <2>1
<1> HIDE DEF n, O
<1>7. Typed(n)
  BY <1>4, <1>6 DEF Typed
<1>8. OneNode(n)
  <2> SUFFICES ASSUME NEW p \in n, NEW q \in n, p.at = q.at, p.of \cap q.of # {} PROVE p = q
    BY DEF OneNode
  <2>1. PICK o \in m : p = O(o)
    BY <1>4
  <2>2. PICK r \in m : q = O(r)
    BY <1>4
  <2>3. PICK c : c \in p.of /\ c \in q.of
    OBVIOUS
  <2>4. o.at = r.at
    BY <1>5, <2>1, <2>2
  <2>5. o.of \cap r.of # {}
    <3>1. CASE c = b
      BY <1>5, <2>1, <2>2, <2>3, <3>1
    <3>2. CASE c # b
      BY <1>5, <2>1, <2>2, <2>3, <3>2
    <3> QED
      BY <3>1, <3>2
  <2>6. o = r
    BY <1>1, <2>4, <2>5 DEF OneNode
  <2> QED
    BY <2>1, <2>2, <2>6
<1>9. ASSUME NEW c, c # b PROVE Follows(c, n, c, m)
  <2>1. ASSUME NEW q \in n, c \in q.of
        PROVE  \E o \in m : /\ c \in o.of /\ o.at = q.at
                            /\ q.tag = o.tag \/ (q.tag # {} /\ q.tag = TagAt(c, o.at, m))
    <3>1. PICK o \in m : q = O(o)
      BY <1>4
    <3>2. c \in o.of /\ o.at = q.at /\ q.tag = o.tag
      BY <1>5, <1>9, <2>1, <3>1
    <3> QED
      BY <3>2
  <2>2. ASSUME NEW o \in m, c \in o.of PROVE \E q \in n : c \in q.of /\ q.at = o.at
    <3>1. O(o) \in n /\ c \in O(o).of /\ O(o).at = o.at
      BY <1>4, <1>5, <1>9, <2>2
    <3> QED
      BY <3>1
  <2> QED
    BY <2>1, <2>2 DEF Follows
<1>10. Follows(b, n, a, m)
  <2>1. ASSUME NEW q \in n, b \in q.of
        PROVE  \E o \in m : /\ a \in o.of /\ o.at = q.at
                            /\ q.tag = o.tag \/ (q.tag # {} /\ q.tag = TagAt(a, o.at, m))
    <3>1. PICK o \in m : q = O(o)
      BY <1>4
    <3>2. a \in o.of /\ o.at = q.at /\ q.tag = o.tag
      BY <1>5, <2>1, <3>1
    <3> QED
      BY <3>2
  <2>2. ASSUME NEW o \in m, a \in o.of PROVE \E q \in n : b \in q.of /\ q.at = o.at
    <3>1. O(o) \in n /\ b \in O(o).of /\ O(o).at = o.at
      BY <1>4, <1>5, <2>2
    <3> QED
      BY <3>1
  <2> QED
    BY <2>1, <2>2 DEF Follows
<1>11. ASSUME NEW c, c # b
       PROVE  /\ \A i \in Places : TagAt(c, i, n) = TagAt(c, i, m)
              /\ \A d : TreeOf(c, d, m) => TreeOf(c, d, n)
  <2>1. Follows(c, n, c, m)
    BY <1>9, <1>11
  <2>2. \A i \in Places : TagAt(c, i, n) = TagAt(c, i, m)
    BY <1>1, <1>7, <1>8, <2>1, TagsKept
  <2>3. \A d : TreeOf(c, d, m) => TreeOf(c, d, n)
    BY <2>1, TreeKept
  <2> QED
    BY <2>2, <2>3
<1>12. /\ \A i \in Places : TagAt(b, i, n) = TagAt(a, i, m)
       /\ \A d : TreeOf(a, d, m) => TreeOf(b, d, n)
  <2>2. \A i \in Places : TagAt(b, i, n) = TagAt(a, i, m)
    BY <1>1, <1>7, <1>8, <1>10, TagsKept
  <2>3. \A d : TreeOf(a, d, m) => TreeOf(b, d, n)
    BY <1>10, TreeKept
  <2> QED
    BY <2>2, <2>3
<1>13. Alike(n)
  <2> SUFFICES ASSUME NEW q \in n, NEW a1 \in q.of, NEW a2 \in q.of
               PROVE  TagAt(a1, q.at, n) = TagAt(a2, q.at, n)
    BY DEF Alike
  <2>1. PICK o \in m : q = O(o)
    BY <1>4
  <2>2. o.at = q.at /\ o.at \in Places
    BY <1>2, <1>5, <2>1
  <2>3. ASSUME NEW c \in q.of PROVE \E d \in o.of : TagAt(c, q.at, n) = TagAt(d, q.at, m)
    <3>1. CASE c = b
      <4>1. a \in o.of
        BY <1>5, <2>1, <2>3, <3>1
      <4> QED
        BY <1>12, <2>2, <3>1, <4>1
    <3>2. CASE c # b
      <4>1. c \in o.of
        BY <1>5, <2>1, <2>3, <3>2
      <4> QED
        BY <1>11, <2>2, <3>2, <4>1
    <3> QED
      BY <3>1, <3>2
  <2>4. PICK d1 \in o.of : TagAt(a1, q.at, n) = TagAt(d1, q.at, m)
    BY <2>3
  <2>5. PICK d2 \in o.of : TagAt(a2, q.at, n) = TagAt(d2, q.at, m)
    BY <2>3
  <2>6. TagAt(d1, o.at, m) = TagAt(d2, o.at, m)
    BY <1>1 DEF Alike
  <2> QED
    BY <2>2, <2>4, <2>5, <2>6
<1>14. Heap(n)
  BY <1>7, <1>8, <1>13 DEF Heap
<1>15. \A x \in 0 .. MaxCap - 1 : V(b, x, n) = V(a, x, m)
  BY <1>12, LeafIs DEF V
<1>16. \A c : c # b => \A x \in 0 .. MaxCap - 1 : V(c, x, n) = V(c, x, m)
  BY <1>11, LeafIs DEF V
<1> QED
  BY <1>11, <1>12, <1>14, <1>15, <1>16 DEF n, O

LEMMA CopyStep ==
  ASSUME RInv, NEW a \in Banks, NEW b \in Banks, Copy(a, b), words' = Words'
  PROVE  MInv' /\ Plain!Copy(a, b)
<1> DEFINE m == Release(b, nodes)
           n == {IF a \in o.of THEN [o EXCEPT !.of = @ \cup {b}] ELSE o : o \in m}
           w == [i \in Observed |-> V(b, i, nodes')]
<1>1. /\ MInv /\ words = Words
      /\ cap[a] \in {0} \cup Capacities /\ Heap(nodes) /\ TreeOf(a, cap[a], nodes)
      /\ size[a] \in 0 .. MaxCap /\ size[a] <= cap[a]
  BY BankIs DEF RInv
<1>2. /\ a # b /\ nodes' = n
      /\ size' = [size EXCEPT ![b] = size[a]] /\ cap' = [cap EXCEPT ![b] = cap[a]]
  BY DEF Copy
<1>3. /\ Heap(m) /\ \A o \in m : b \notin o.of
      /\ \A c : c # b =>
           /\ \A i \in Places : TagAt(c, i, m) = TagAt(c, i, nodes)
           /\ \A d : TreeOf(c, d, nodes) => TreeOf(c, d, m)
  BY <1>1, ReleaseIs
<1> HIDE DEF m
<1>4. \A c : c # b => \A x \in 0 .. MaxCap - 1 : V(c, x, m) = V(c, x, nodes)
  BY <1>3, LeafIs DEF V
<1>5. /\ Heap(n)
      /\ \A x \in 0 .. MaxCap - 1 : V(b, x, n) = V(a, x, m)
      /\ \A d : TreeOf(a, d, m) => TreeOf(b, d, n)
      /\ \A c : c # b =>
           /\ \A x \in 0 .. MaxCap - 1 : V(c, x, n) = V(c, x, m)
           /\ \A d : TreeOf(c, d, m) => TreeOf(c, d, n)
  BY <1>2, <1>3, CopyIs
<1> HIDE DEF n
<1>6. /\ Heap(nodes') /\ TreeOf(b, cap[a], nodes')
      /\ \A x \in 0 .. MaxCap - 1 : V(b, x, nodes') = V(a, x, nodes)
      /\ \A c : c # b =>
           /\ \A x \in 0 .. MaxCap - 1 : V(c, x, nodes') = V(c, x, nodes)
           /\ \A d : TreeOf(c, d, nodes) => TreeOf(c, d, nodes')
  BY <1>1, <1>2, <1>3, <1>4, <1>5
<1>7. MInv' /\ Words' = [Words EXCEPT ![b] = w]
  BY <1>1, <1>2, <1>6, OneBank
<1>8. words[a] = [i \in Observed |-> V(a, i, nodes)]
  BY <1>1, WordsAre DEF Read
<1>9. w = words[a]
  BY <1>6, <1>8, ObservedIs
<1> QED
  BY <1>1, <1>2, <1>7, <1>9 DEF Plain!Copy

\* A bank is read back as it was written, whatever bank reads it.
LEMMA SaveAndLoadStep ==
  ASSUME RInv, NEW a \in Banks, NEW b \in Banks, NEW blank \in Blank, SaveAndLoad(a, b, blank),
         words' = Words'
  PROVE  MInv' /\ Plain!SaveAndLoad(a, b)
<1> DEFINE s == size[a]
           D == Apply(a, nodes)
           c == NewCap(0, blank)
           d == NewCap(c, s)
           m0 == Release(b, nodes)
           m1 == Resized(b, 0, blank, m0)
           m2 == Resized(b, c, s, m1)
           m3 == Set_impl(b, d, 0, LastOf(s), {}, m2)
           m4 == SetAll(b, d, D, m3)
           w == [i \in Observed |-> V(b, i, nodes')]
           Others(m) == \A e : e # b =>
                          /\ \A x \in 0 .. MaxCap - 1 : V(e, x, m) = V(e, x, nodes)
                          /\ \A k : TreeOf(e, k, nodes) => TreeOf(e, k, m)
<1>1. /\ MInv /\ words = Words
      /\ cap[a] \in {0} \cup Capacities /\ Heap(nodes) /\ TreeOf(a, cap[a], nodes)
      /\ s \in 0 .. MaxCap /\ s <= cap[a] /\ s \in Nat /\ MaxCap \in Nat
  BY BankIs DEF RInv
<1>2. blank \in 0 .. MaxCap
  BY MemoryAssumption
<1>3. /\ nodes' = m4 /\ size' = [size EXCEPT ![b] = s] /\ cap' = [cap EXCEPT ![b] = d]
  BY DEF SaveAndLoad, Saved
<1> HIDE DEF s
<1>4. /\ Segments(D)
      /\ \A x \in 0 .. MaxCap - 1 :
           /\ \A o \in D : Covers(o, x) => V(a, x, nodes) = UNION o.tag
           /\ (\A o \in D : ~Covers(o, x)) => V(a, x, nodes) = {}
  BY <1>1, ApplyIs
<1> HIDE DEF D
<1>5. c \in {0} \cup Capacities
  <2>1. 0 \in {0} \cup Capacities
    OBVIOUS
  <2> QED
    BY <1>2, <2>1, NewCapIs
<1>6. d \in {0} \cup Capacities /\ s <= d
  <2> HIDE DEF c
  <2> QED
    BY <1>1, <1>5, NewCapIs
\* The bank lets go of its tree.
<1>7. /\ Heap(m0) /\ AloneIn(b, m0) /\ TreeOf(b, 0, m0) /\ Others(m0)
      /\ \A x \in 0 .. MaxCap - 1 : V(b, x, m0) = {}
  <2>1. /\ Heap(m0) /\ \A o \in m0 : b \notin o.of
        /\ \A e : e # b =>
             /\ \A i \in Places : TagAt(e, i, m0) = TagAt(e, i, nodes)
             /\ \A k : TreeOf(e, k, nodes) => TreeOf(e, k, m0)
    BY <1>1, ReleaseIs
  <2> HIDE DEF m0
  <2>2. AloneIn(b, m0) /\ TreeOf(b, 0, m0)
    BY <2>1 DEF AloneIn, TreeOf
  <2>3. \A x \in 0 .. MaxCap - 1 : V(b, x, m0) = {}
    <3>1. \A i \in Places : TagAt(b, i, m0) = {}
      BY <2>1, NoTag DEF Heap
    <3> QED
      BY <3>1, LeafIs DEF V
  <2>4. \A e : e # b => \A x \in 0 .. MaxCap - 1 : V(e, x, m0) = V(e, x, nodes)
    BY <2>1, LeafIs DEF V
  <2> QED
    BY <2>1, <2>2, <2>3, <2>4
<1> HIDE DEF m0
\* It gets a tree of the blank size, and then of the size that was saved.
<1>8. /\ Heap(m1) /\ AloneIn(b, m1) /\ TreeOf(b, c, m1) /\ Others(m1)
      /\ \A x \in 0 .. MaxCap - 1 : V(b, x, m1) = {}
  <2>1. 0 \in {0} \cup Capacities
    OBVIOUS
  <2>2. /\ Heap(m1) /\ TreeOf(b, c, m1) /\ (AloneIn(b, m0) => AloneIn(b, m1))
        /\ \A x \in 0 .. MaxCap - 1 : V(b, x, m1) = IF x < c THEN V(b, x, m0) ELSE {}
        /\ \A e : e # b =>
             /\ \A x \in 0 .. MaxCap - 1 : V(e, x, m1) = V(e, x, m0)
             /\ \A k : TreeOf(e, k, m0) => TreeOf(e, k, m1)
    BY <1>2, <1>7, <2>1, ResizedIs
  <2> HIDE DEF m1, c
  <2> QED
    BY <1>7, <2>2
<1> HIDE DEF m1, c
<1>9. /\ Heap(m2) /\ AloneIn(b, m2) /\ TreeOf(b, d, m2) /\ Others(m2)
      /\ \A x \in 0 .. MaxCap - 1 : V(b, x, m2) = {}
  <2>1. /\ Heap(m2) /\ TreeOf(b, d, m2) /\ (AloneIn(b, m1) => AloneIn(b, m2))
        /\ \A x \in 0 .. MaxCap - 1 : V(b, x, m2) = IF x < d THEN V(b, x, m1) ELSE {}
        /\ \A e : e # b =>
             /\ \A x \in 0 .. MaxCap - 1 : V(e, x, m2) = V(e, x, m1)
             /\ \A k : TreeOf(e, k, m1) => TreeOf(e, k, m2)
    BY <1>1, <1>5, <1>8, ResizedIs
  <2> HIDE DEF m2, d
  <2> QED
    BY <1>8, <2>1
<1> HIDE DEF m2, d
\* It is cleared.
<1>10. /\ Heap(m3) /\ AloneIn(b, m3) /\ TreeOf(b, d, m3) /\ Others(m3)
       /\ \A x \in 0 .. MaxCap - 1 : V(b, x, m3) = {}
  <2>1. {} \in Word /\ LastOf(s) \in Int /\ 0 \in Int
    BY <1>1 DEF Word, LastOf
  <2>2. Setting(b, d, 0, LastOf(s), {}, m2)
    BY <1>6, <1>9, <2>1 DEF Setting
  <2>3. /\ Heap(m3) /\ TreeOf(b, d, m3) /\ (AloneIn(b, m2) => AloneIn(b, m3))
        /\ \A x \in 0 .. MaxCap - 1 :
             V(b, x, m3) = IF x < d /\ 0 <= x /\ x <= LastOf(s) THEN {} ELSE V(b, x, m2)
        /\ \A e : e # b =>
             /\ \A x \in 0 .. MaxCap - 1 : V(e, x, m3) = V(e, x, m2)
             /\ \A k : TreeOf(e, k, m2) => TreeOf(e, k, m3)
    BY <2>2, SetWorks
  <2> HIDE DEF m3
  <2> QED
    BY <1>9, <2>3
<1> HIDE DEF m3
\* The segments of the file are set.
<1>11. /\ Rewritten(b, d, m3, m4)
       /\ \A x \in 0 .. MaxCap - 1 : x < d =>
            /\ \A o \in D : Covers(o, x) => V(b, x, m4) = UNION o.tag
            /\ (\A o \in D : ~Covers(o, x)) => V(b, x, m4) = V(b, x, m3)
  <2> HIDE DEF d, m3
  <2>1. /\ Rewritten(b, d, m3, SetAll(b, d, D, m3))
        /\ \A x \in 0 .. MaxCap - 1 : x < d =>
             /\ \A o \in D : Covers(o, x) => V(b, x, SetAll(b, d, D, m3)) = UNION o.tag
             /\ (\A o \in D : ~Covers(o, x)) => V(b, x, SetAll(b, d, D, m3)) = V(b, x, m3)
    BY <1>4, <1>6, <1>10, SetAllWorks
  <2> QED
    BY <2>1
<1> HIDE DEF m4
<1>12. Heap(m4) /\ TreeOf(b, d, m4) /\ Others(m4)
  BY <1>10, <1>11 DEF Rewritten
<1>13. ASSUME NEW x \in 0 .. MaxCap - 1
       PROVE  V(b, x, m4) = IF x < d THEN V(a, x, nodes) ELSE {}
  <2>1. CASE x < d
    BY <1>4, <1>10, <1>11, <2>1
  <2>2. CASE ~(x < d)
    BY <1>6, <1>12, <2>2, WordIs
  <2> QED
    BY <2>1, <2>2
<1>14. MInv' /\ Words' = [Words EXCEPT ![b] = w]
  BY <1>1, <1>3, <1>6, <1>12, OneBank
<1>15. words[a] = [i \in Observed |-> V(a, i, nodes)]
  BY <1>1, WordsAre DEF Read
<1>16. w = [i \in Observed |-> IF i < d THEN words[a][i] ELSE {}]
  BY <1>3, <1>13, <1>15, ObservedIs
<1>17. d \in Nat
  BY <1>6, CapacityIs
<1>18. w \in Plain!Forgetting(words[a], s)
  BY <1>1, <1>6, <1>16, <1>17, Forgotten
<1> HIDE DEF w
<1>19. words' = [words EXCEPT ![b] = w]
  BY <1>1, <1>14
<1> QED
  BY <1>3, <1>14, <1>18, <1>19 DEF Plain!SaveAndLoad, s

\* A field that is written leaves a word.
LEMMA PatchedIs ==
  ASSUME NEW word \in Word, NEW n, NEW width, NEW value
  PROVE  Patched(word, n, width, value) \in Word
  BY DEF Patched, Word

LEMMA WriteStep ==
  ASSUME RInv, NEW b \in Banks, NEW width \in Widths, NEW n \in Fields(width), NEW value \in Word,
         Write(b, n, width, value), words' = Words'
  PROVE  MInv' /\ (\/ \E x \in Observed, word \in Word : Plain!Write(b, x, word)
                   \/ UNCHANGED <<size, words>>)
<1> DEFINE i == WordOf(n, width)
           word == Patched(Value(b, i), n, width, value)
<1>1. i \in Cells
  BY DEF Fields
<1>2. MInv /\ cap[b] \in {0} \cup Capacities /\ Heap(nodes) /\ TreeOf(b, cap[b], nodes)
  BY BankIs DEF RInv
<1>3. Value(b, i) \in Word
  <2>1. i \in 0 .. MaxCap - 1
    BY <1>1, MemoryAssumption
  <2>2. V(b, i, nodes) \in Word
    BY <1>2, <2>1, WordIs
  <2> QED
    BY <2>2 DEF Value, V
<1>4. word \in Word
  BY <1>3, PatchedIs
<1>5. Set(b, i, word)
  BY DEF Write
<1> HIDE DEF i, word
<1>6. MInv' /\ ((i \in Observed /\ Plain!Write(b, i, word)) \/ UNCHANGED <<size, words>>)
  BY <1>1, <1>4, <1>5, CellStep
<1> QED
  BY <1>4, <1>6

LEMMA MInvInit == BankInit => MInv /\ Read(nodes) = [b \in Banks |-> Plain!Zero]
<1> SUFFICES ASSUME BankInit PROVE MInv /\ Read(nodes) = [b \in Banks |-> Plain!Zero]
  OBVIOUS
<1>1. 0 \in 0 .. MaxCap
  BY MemoryAssumption, PowersAre
<1>2. nodes = {} /\ size = [b \in Banks |-> 0] /\ cap = [b \in Banks |-> 0]
  BY DEF BankInit
<1>3. Typed(nodes) /\ OneNode(nodes) /\ Alike(nodes)
  BY <1>2 DEF Typed, OneNode, Alike
<1>4. \A b \in Banks : TreeOf(b, cap[b], nodes)
  BY <1>2 DEF TreeOf
<1>5. MInv
  BY <1>1, <1>2, <1>3, <1>4 DEF MInv, Heap
<1>6. ASSUME NEW b \in Banks, NEW i \in Observed PROVE V(b, i, nodes) = {}
  <2>1. Leaf(i) \in Places
    BY ObservedIs, LeafIs
  <2>2. TagAt(b, Leaf(i), nodes) = {}
    BY <1>2, <1>3, <2>1, NoTag
  <2> QED
    BY <2>2 DEF V
<1> QED
  BY <1>5, <1>6 DEF Read, Plain!Zero

\* Every operation of the banks is one of the plain memory, or changes nothing
\* that is observed.
LEMMA PlainStep ==
  ASSUME CarefulFills, RInv, ReadNext
  PROVE  RInv' /\ (Plain!Next \/ UNCHANGED <<size, words>>)
<1>0. BankNext /\ words' = Words'
  BY DEF ReadNext
<1>1. CASE \E b \in Banks, n \in Sizes : Resize(b, n)
  BY <1>0, <1>1, ResizeStep DEF RInv, Plain!Next
<1>2. CASE \E b \in Banks, i \in Cells, word \in Values : Set(b, i, word)
  <2>1. Values \subseteq Word
    BY MemoryAssumption
  <2> QED
    BY <1>0, <1>2, <2>1, CellStep DEF RInv, Plain!Next
<1>3. CASE \E b \in Banks, width \in Widths :
             \E n \in Fields(width), value \in Word : Write(b, n, width, value)
  BY <1>0, <1>3, WriteStep DEF RInv, Plain!Next
<1>4. CASE \E b \in Banks, r \in Ranges, word \in Values : Fill(b, r[1], r[2], word)
  <2>1. Values \subseteq Word
    BY MemoryAssumption
  <2> QED
    BY <1>0, <1>4, <2>1, FillStep DEF RInv, Plain!Next
<1>5. CASE \E a, b \in Banks : Copy(a, b)
  BY <1>0, <1>5, CopyStep DEF RInv, Plain!Next
<1>6. CASE \E a, b \in Banks, blank \in Blank : SaveAndLoad(a, b, blank)
  BY <1>0, <1>6, SaveAndLoadStep DEF RInv, Plain!Next
<1> QED
  BY <1>0, <1>1, <1>2, <1>3, <1>4, <1>5, <1>6 DEF BankNext

LEMMA PlainInit == ReadInit => RInv /\ Plain!Init
<1> SUFFICES ASSUME ReadInit PROVE RInv /\ Plain!Init
  OBVIOUS
<1>1. BankInit /\ words = Words
  BY DEF ReadInit
<1>2. MInv /\ Words = [b \in Banks |-> Plain!Zero]
  BY <1>1, MInvInit, WordsAre
<1> QED
  BY <1>1, <1>2 DEF RInv, BankInit, Plain!Init

LEMMA PlainNext ==
  ASSUME CarefulFills, RInv, [ReadNext]_<<mvars, words>>
  PROVE  RInv' /\ [Plain!Next]_Plain!pvars
<1>1. CASE ReadNext
  BY <1>1, PlainStep DEF Plain!pvars
<1>2. CASE UNCHANGED <<mvars, words>>
  <2>1. UNCHANGED <<size, cap, nodes, words>>
    BY <1>2 DEF mvars
  <2>2. MInv'
    BY <2>1 DEF RInv, MInv
  <2>3. Words' = Read(nodes') /\ Words = Read(nodes)
    BY <2>2, WordsAre, WordsAreNext DEF RInv
  <2> QED
    BY <2>1, <2>2, <2>3 DEF RInv, Plain!pvars
<1> QED
  BY <1>1, <1>2

\* Whatever is resized, written, filled, copied and loaded: a bank is never
\* larger than its tree, the nodes that a bank reaches are a tree without gaps
\* below its root, at each place one, and two banks that share a node find the
\* same tag on the way to it (DynamicStorage's Set_impl, Rebuild and Copy).
THEOREM TreesAreKept ==
  ASSUME CarefulFills
  PROVE  ReadSpec => []MInv
<1>1. RInv /\ [ReadNext]_<<mvars, words>> => RInv'
  BY PlainNext
<1>2. RInv => MInv
  BY DEF RInv
<1> QED
  BY PlainInit, <1>1, <1>2, PTL DEF ReadSpec

\* Used as the program uses them (CarefulFills), banks behave like arrays of
\* words: writing a word changes no other, a copy is independent of its
\* original, what is saved comes back, and reading comes to a null node
\* nowhere (memory.hpp:106: banks "can be trivally copied").
THEOREM BanksArePlain ==
  ASSUME CarefulFills
  PROVE  ReadSpec => ImplementsPlainMemory
<1>1. RInv /\ [ReadNext]_<<mvars, words>> => RInv' /\ [Plain!Next]_Plain!pvars
  BY PlainNext
<1> QED
  BY PlainInit, <1>1, PTL DEF ReadSpec, ImplementsPlainMemory, Plain!Spec

-----------------------------------------------------------------------------
(* The files: what the induction follows                                   *)

LEMMA SectionFacts ==
  /\ Len(Sections) = 4
  /\ Names = {"memory", "kidokus", "environment", "settings"}
  /\ \A i \in 1..4 : Sections[i] \in Names
  /\ \A s \in Names : \E i \in 1..4 : Sections[i] = s
  /\ \A i, j \in 1..4 : Sections[i] = Sections[j] => i = j
<1>1. Len(Sections) = 4 /\ DOMAIN Sections = 1..4
  BY DEF Sections
<1>2. Names = {"memory", "kidokus", "environment", "settings"}
  <2>1. ToSet(Sections) = {Sections[i] : i \in 1..4}
    BY <1>1 DEF ToSet
  <2> QED
    BY <2>1 DEF Names, Sections
<1>3. /\ Sections[1] = "memory" /\ Sections[2] = "kidokus"
      /\ Sections[3] = "environment" /\ Sections[4] = "settings"
  BY DEF Sections
<1> QED
  BY <1>1, <1>2, <1>3

Writing == phase \in {"writing", "halting"}

\* The save games and the durable memory only exist with a file.
FileIsThere ==
  ~global.exists => /\ durable = Fresh
                    /\ phase \in {"off", "playing"}

\* A whole file has what was last saved, apart from settings given up.
FileCovers ==
  global.exists /\ Whole(global) =>
    \A s \in Names : durable[s] <= IF Skipped(s) THEN 0 ELSE global.data[s]

\* While the file is written it agrees with the program.
WrittenSoFar ==
  Writing => /\ global.exists /\ global.version = Current
             /\ global.sections = next
             /\ \A i \in 1..next : global.data[Sections[i]] = live[Sections[i]]

\* While the file is read the program agrees with it.
ReadSoFar ==
  phase = "loading" =>
    /\ global.exists
    /\ next <= global.sections
    /\ \A s \in Names : live[s] >= 0
    /\ \A i \in 1..next :
         live[Sections[i]] >= IF Skipped(Sections[i]) THEN 0 ELSE global.data[Sections[i]]

\* The running program knows what was last saved.
LiveCovers ==
  phase \in {"playing", "writing", "halting", "slot"} =>
    \A s \in Names : durable[s] <= live[s]

\* The global memory was saved before the slot that is being written.
SlotIsCovered == phase = "slot" => durable["kidokus"] >= live["kidokus"]

DurableCovers == \A s \in Slots : saves[s].whole => saves[s].progress <= durable["kidokus"]

IInv ==
  /\ TypeOK
  /\ FileIsThere
  /\ FileCovers
  /\ WrittenSoFar
  /\ ReadSoFar
  /\ LiveCovers
  /\ SlotIsCovered
  /\ DurableCovers

USE DEF Writing

LEMMA InitInv == Init => IInv
<1> SUFFICES ASSUME Init PROVE IInv
  OBVIOUS
<1> USE SaveFilesAssumption, SectionFacts DEF Init
<1>0. Fresh \in [Names -> 0..MaxChanges] /\ [s \in Names |-> 1] \in [Names -> 0..MaxChanges]
  BY DEF Fresh
<1>1. TypeOK
  <2>1. global \in Files
    <3>1. NoFile \in Files
      BY <1>0 DEF Files, NoFile, Versions
    <3>2. [exists |-> TRUE, version |-> Outdated, sections |-> Len(Sections),
           data |-> [s \in Names |-> 1]] \in Files
      BY <1>0 DEF Files, Versions
    <3> QED
      BY <3>1, <3>2
  <2>2. durable \in [Names -> 0..MaxChanges]
    BY <1>0, <2>1 DEF Files
  <2> QED
    BY <1>0, <2>1, <2>2 DEF TypeOK, NoSave
<1>2. FileIsThere /\ FileCovers
  BY DEF FileIsThere, FileCovers, NoFile, Fresh, Skipped
<1>3. WrittenSoFar /\ ReadSoFar /\ LiveCovers /\ SlotIsCovered /\ DurableCovers
  BY DEF WrittenSoFar, ReadSoFar, LiveCovers, SlotIsCovered, DurableCovers, NoSave
<1> QED
  BY <1>1, <1>2, <1>3 DEF IInv

LEMMA NextInv == IInv /\ [Next]_vars => IInv'
<1> SUFFICES ASSUME IInv, [Next]_vars PROVE IInv'
  OBVIOUS
<1> USE SaveFilesAssumption, SectionFacts
<1> USE DEF IInv, TypeOK, Files, Versions
<1>1. CASE Start
  <2>1. TypeOK'
    BY <1>1 DEF Start, Fresh
  <2>2. (FileIsThere /\ FileCovers /\ WrittenSoFar /\ SlotIsCovered /\ DurableCovers)'
    BY <1>1 DEF Start, FileIsThere, FileCovers, WrittenSoFar, SlotIsCovered,
                DurableCovers, Skipped, Whole
  <2>3. (ReadSoFar /\ LiveCovers)'
    BY <1>1 DEF Start, ReadSoFar, LiveCovers, FileIsThere, Fresh
  <2> QED
    BY <2>1, <2>2, <2>3
<1>2. CASE LoadSection
  <2> DEFINE s == Sections[next + 1]
  <2>0. /\ next + 1 \in 1..4 /\ s \in Names
        /\ phase = "loading" /\ phase' = "loading" /\ next' = next + 1
        /\ next < global.sections
        /\ live' = IF Skipped(s) THEN live ELSE [live EXCEPT ![s] = global.data[s]]
        /\ UNCHANGED <<global, saves, target, durable>>
    BY <1>2 DEF LoadSection
  <2>1. TypeOK'
    BY <2>0 DEF LoadSection
  <2>2. (FileIsThere /\ FileCovers /\ WrittenSoFar /\ SlotIsCovered /\ DurableCovers
          /\ LiveCovers)'
    BY <2>0 DEF FileIsThere, FileCovers, WrittenSoFar, SlotIsCovered,
                DurableCovers, Skipped, Whole, LiveCovers
  <2>3. ASSUME NEW i \in 1..next + 1
        PROVE  live'[Sections[i]] >= IF Skipped(Sections[i]) THEN 0 ELSE global.data[Sections[i]]
    <3>1. CASE i = next + 1
      BY <2>0, <3>1 DEF Skipped
    <3>2. CASE i \in 1..next
      BY <2>0, <3>2 DEF ReadSoFar
    <3> QED
      BY <3>1, <3>2, <2>0
  <2>4. ReadSoFar'
    BY <2>0, <2>1, <2>3 DEF ReadSoFar, Skipped
  <2> QED
    BY <2>1, <2>2, <2>4
<1>3. CASE LoadDone
  <2>1. TypeOK' /\ (FileIsThere /\ FileCovers /\ WrittenSoFar /\ SlotIsCovered /\ DurableCovers
          /\ ReadSoFar)'
    BY <1>3 DEF LoadDone, FileIsThere, FileCovers, WrittenSoFar, SlotIsCovered,
                DurableCovers, Skipped, Whole, ReadSoFar
  <2>2. ASSUME NEW s \in Names PROVE durable[s] <= live[s]
    <3>1. PICK i \in 1..4 : Sections[i] = s
      OBVIOUS
    <3>2. live[s] >= IF Skipped(s) THEN 0 ELSE global.data[s]
      BY <1>3, <3>1 DEF LoadDone, ReadSoFar
    <3>3. durable[s] <= IF Skipped(s) THEN 0 ELSE global.data[s]
      BY <1>3 DEF LoadDone, ReadSoFar, FileCovers, Whole
    <3> QED
      BY <3>2, <3>3
  <2> QED
    BY <1>3, <2>1, <2>2 DEF LoadDone, LiveCovers
<1>4. CASE LoadThrows
  BY <1>4 DEF LoadThrows, Renames, OldCorruptedData, FileIsThere, FileCovers, WrittenSoFar,
              SlotIsCovered, DurableCovers, Skipped, Whole, ReadSoFar, LiveCovers
<1>5. CASE TryAgain
  BY <1>5 DEF TryAgain, FileIsThere, FileCovers, WrittenSoFar,
              SlotIsCovered, DurableCovers, Skipped, Whole, ReadSoFar, LiveCovers
<1>6. CASE \E s \in Names : Play(s)
  BY <1>6 DEF Play, FileIsThere, FileCovers, WrittenSoFar,
              SlotIsCovered, DurableCovers, Skipped, Whole, ReadSoFar, LiveCovers
<1>7. CASE Halt \/ \E s \in Slots : SaveOpcode(s)
  <2>0. Fresh \in [Names -> 0..MaxChanges]
    BY DEF Fresh
  <2>1. TypeOK'
    <3>0. [exists |-> TRUE, version |-> Current, sections |-> 0, data |-> Fresh] \in Files
      BY <2>0
    <3>1. global' \in Files /\ next' = 0 /\ UNCHANGED <<saves, live, durable>>
      BY <1>7, <3>0 DEF Halt, SaveOpcode, OpenGlobal
    <3>2. phase' \in {"writing", "halting"} /\ target' \in SUBSET Slots
      BY <1>7 DEF Halt, SaveOpcode
    <3> QED
      BY <3>1, <3>2
  <2>2. (FileIsThere /\ FileCovers /\ SlotIsCovered /\ DurableCovers
          /\ ReadSoFar /\ LiveCovers)'
    BY <1>7 DEF Halt, SaveOpcode, OpenGlobal, FileIsThere, FileCovers,
              SlotIsCovered, DurableCovers, Skipped, Whole, ReadSoFar, LiveCovers
  <2>3. WrittenSoFar'
    BY <1>7 DEF Halt, SaveOpcode, OpenGlobal, WrittenSoFar
  <2> QED
    BY <2>1, <2>2, <2>3
<1>8. CASE WriteSection
  <2> DEFINE s == Sections[next + 1]
  <2>0. /\ next + 1 \in 1..4 /\ s \in Names
        /\ Writing /\ phase' = phase /\ next' = next + 1
        /\ global' = [global EXCEPT !.sections = next + 1, !.data[s] = live[s]]
        /\ UNCHANGED <<saves, live, target, durable>>
    BY <1>8 DEF WriteSection
  <2>1. TypeOK'
    <3>1. global' = [exists |-> global.exists, version |-> global.version,
                     sections |-> next + 1, data |-> [global.data EXCEPT ![s] = live[s]]]
      BY <2>0
    <3>2. [global.data EXCEPT ![s] = live[s]] \in [Names -> 0..MaxChanges]
      BY <2>0
    <3>3. global' \in Files
      BY <2>0, <3>1, <3>2
    <3> QED
      BY <2>0, <3>3
  <2>2. \A i \in 1..next + 1 : global'.data[Sections[i]] = live[Sections[i]]
    BY <2>0 DEF WrittenSoFar
  <2>3. WrittenSoFar'
    BY <2>0, <2>2 DEF WrittenSoFar
  <2>4. FileCovers'
    <3> SUFFICES ASSUME Whole(global)', NEW t \in Names
                 PROVE  durable[t] <= IF Skipped(t)' THEN 0 ELSE global'.data[t]
      BY <2>0 DEF FileCovers
    <3>1. next + 1 = 4
      BY <2>0 DEF Whole
    <3>2. PICK i \in 1..4 : Sections[i] = t
      OBVIOUS
    <3>3. global'.data[t] = live[t] /\ ~Skipped(t)'
      BY <2>0, <2>2, <3>1, <3>2 DEF WrittenSoFar, Skipped
    <3> QED
      BY <2>0, <3>3 DEF LiveCovers
  <2>5. (FileIsThere /\ SlotIsCovered /\ DurableCovers /\ ReadSoFar /\ LiveCovers)'
    BY <2>0 DEF WrittenSoFar, FileIsThere, SlotIsCovered, DurableCovers, ReadSoFar, LiveCovers
  <2> QED
    BY <2>1, <2>3, <2>4, <2>5
<1>9. CASE GlobalSaved
  <2>a. /\ Writing /\ next = 4 /\ durable' = global.data
        /\ phase' \in {"off", "playing", "slot"}
        /\ UNCHANGED <<global, live, next, target>>
    BY <1>9 DEF GlobalSaved
  <2>b. ASSUME NEW s \in Slots
        PROVE  saves'[s].whole => saves[s].whole /\ saves'[s].progress = saves[s].progress
    <3>1. saves'[s] = IF s \in target THEN TornSave ELSE saves[s]
      BY <1>9 DEF GlobalSaved
    <3>2. ~TornSave.whole
      BY DEF TornSave
    <3> QED
      BY <3>1, <3>2
  <2>0. /\ Writing /\ next = 4 /\ durable' = global.data
        /\ phase' \in {"off", "playing", "slot"}
        /\ \A s \in Slots : saves'[s].whole =>
             saves[s].whole /\ saves'[s].progress = saves[s].progress
        /\ UNCHANGED <<global, live, next, target>>
    BY <2>a, <2>b
  <2>1. TypeOK'
    <3> DEFINE Saves == [exists : BOOLEAN, whole : BOOLEAN, progress : 0..MaxChanges]
    <3>1. TornSave \in Saves
      BY DEF TornSave
    <3>2. saves' \in [Slots -> Saves]
      BY <1>9, <3>1 DEF GlobalSaved
    <3> QED
      BY <2>a, <3>2
  <2>2. \A s \in Names : global.data[s] = live[s]
    BY <2>0 DEF WrittenSoFar
  <2>3. \A s \in Names : durable'[s] = live[s] /\ durable[s] <= durable'[s]
    BY <2>0, <2>2 DEF LiveCovers
  <2>4. (FileIsThere /\ WrittenSoFar /\ ReadSoFar /\ SlotIsCovered)'
    BY <2>0, <2>3 DEF WrittenSoFar, FileIsThere, ReadSoFar, SlotIsCovered
  <2>5. (FileCovers /\ LiveCovers)'
    BY <2>0, <2>1, <2>3 DEF FileCovers, LiveCovers, Skipped, WrittenSoFar
  <2>6. DurableCovers'
    BY <2>0, <2>1, <2>3 DEF DurableCovers
  <2> QED
    BY <2>1, <2>4, <2>5, <2>6
<1>10. CASE SlotSaved
  <2>1. TypeOK'
    BY <1>10 DEF SlotSaved
  <2>2. DurableCovers'
    BY <1>10 DEF SlotSaved, DurableCovers, SlotIsCovered
  <2> QED
    BY <1>10, <2>1, <2>2 DEF SlotSaved, FileIsThere, FileCovers, WrittenSoFar,
              SlotIsCovered, Skipped, Whole, ReadSoFar, LiveCovers
<1>11. CASE SlotThrows
  BY <1>11 DEF SlotThrows, FileIsThere, FileCovers, WrittenSoFar,
              SlotIsCovered, DurableCovers, Skipped, Whole, ReadSoFar, LiveCovers
<1>12. CASE GlobalThrows \/ Crash
  <2>0. /\ phase' \in {"off", "playing"}
        /\ phase' = "playing" => Writing
        /\ target' = {}
        /\ UNCHANGED <<saves, live, next, durable>>
        /\ TearGlobal
    BY <1>12 DEF GlobalThrows, Crash
  <2>1. \/ global' = global
        \/ Writing /\ \E n \in 0..next : global' = [global EXCEPT !.sections = n]
    BY <2>0 DEF TearGlobal
  <2>2. TypeOK'
    BY <2>0, <2>1
  <2>3. global'.exists = global.exists /\ Whole(global)' => Whole(global) /\ global'.data = global.data
    BY <2>1 DEF Whole, WrittenSoFar
  <2>4. global'.exists = global.exists /\ global'.version = global.version
    BY <2>1
  <2>5. FileCovers'
    BY <2>0, <2>3, <2>4 DEF FileCovers, Skipped
  <2>6. (FileIsThere /\ WrittenSoFar /\ ReadSoFar /\ SlotIsCovered /\ LiveCovers /\ DurableCovers)'
    BY <2>0, <2>4 DEF WrittenSoFar, FileIsThere, ReadSoFar, SlotIsCovered, LiveCovers, DurableCovers
  <2> QED
    BY <2>2, <2>5, <2>6
<1>13. CASE UNCHANGED vars
  BY <1>13 DEF vars, FileIsThere, FileCovers, WrittenSoFar,
              SlotIsCovered, DurableCovers, Skipped, Whole, ReadSoFar, LiveCovers
<1> QED
  BY <1>1, <1>2, <1>3, <1>4, <1>5, <1>6, <1>7, <1>8, <1>9, <1>10, <1>11, <1>12, <1>13 DEF Next

-----------------------------------------------------------------------------
(* The files: theorems                                                     *)

\* What the properties rest on, of starts, saves and crashes in any order.
THEOREM InductiveInvariant == Spec => []IInv
  BY InitInv, NextInv, PTL DEF Spec

\* The files and the program's memory keep their types.
THEOREM TypeCorrect == Spec => []TypeOK
  BY InductiveInvariant, PTL DEF IInv

\* A running game is never behind the last complete save.
THEOREM NothingIsLost == Spec => []NoProgressLost
<1>1. IInv => NoProgressLost
  BY SectionFacts DEF IInv, TypeOK, LiveCovers, NoProgressLost
<1> QED
  BY <1>1, InductiveInvariant, PTL

\* A running game is never behind a save game that can be loaded.
THEOREM SavesAreCovered == Spec => []GlobalsCoverSaves
<1>1. IInv => GlobalsCoverSaves
  BY SectionFacts DEF IInv, TypeOK, LiveCovers, DurableCovers, GlobalsCoverSaves
<1> QED
  BY <1>1, InductiveInvariant, PTL
=============================================================================
