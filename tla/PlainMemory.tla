----------------------------- MODULE PlainMemory -----------------------------
(***************************************************************************)
(* What banks of script memory promise: each is an array of words, and     *)
(* copying one, or writing it to a file and reading it back, makes an      *)
(* independent array.  Only what lies beyond the end of an array is left   *)
(* open: it may come back or be gone when the array grows again.           *)
(***************************************************************************)
EXTENDS Integers

CONSTANTS
  Banks,      \* arrays of words
  Word,       \* the words; {} is zero
  Cells,      \* the indices of the words
  Sizes,      \* the sizes a bank may be given
  Ranges      \* the ranges that are filled, as <<begin, end>>

VARIABLES
  size,       \* [Banks -> Nat]
  words       \* [Banks -> [Cells -> Word]], zero where never written

pvars == <<size, words>>

Zero == [i \in Cells |-> {}]

\* A word beyond the end may be forgotten; if so, all further out are.
Forgetting(w, n) ==
  {[i \in Cells |-> IF i < k THEN w[i] ELSE {}] :
     k \in {n} \cup {i + 1 : i \in {j \in Cells : j >= n}}}

Init ==
  /\ size = [b \in Banks |-> 0]
  /\ words = [b \in Banks |-> Zero]

Resize(b, n) ==
  /\ size' = [size EXCEPT ![b] = n]
  /\ \E w \in Forgetting(words[b], n) : words' = [words EXCEPT ![b] = w]

\* One word changes, all others of all banks stay.
Write(b, i, word) ==
  /\ i < size[b]
  /\ words' = [words EXCEPT ![b][i] = word]
  /\ UNCHANGED size

Fill(b, begin, end, word) ==
  /\ end <= size[b]
  /\ words' = [words EXCEPT ![b] =
                 [i \in Cells |-> IF begin <= i /\ i < end THEN word ELSE @[i]]]
  /\ UNCHANGED size

Copy(a, b) ==
  /\ size' = [size EXCEPT ![b] = size[a]]
  /\ words' = [words EXCEPT ![b] = words[a]]

SaveAndLoad(a, b) ==
  /\ size' = [size EXCEPT ![b] = size[a]]
  /\ \E w \in Forgetting(words[a], size[a]) : words' = [words EXCEPT ![b] = w]

Next ==
  \/ \E b \in Banks :
       \/ \E n \in Sizes : Resize(b, n)
       \/ \E i \in Cells, word \in Word : Write(b, i, word)
       \/ \E r \in Ranges, word \in Word : Fill(b, r[1], r[2], word)
  \/ \E a, b \in Banks : Copy(a, b) \/ SaveAndLoad(a, b)

Spec == Init /\ [][Next]_pvars
=============================================================================
