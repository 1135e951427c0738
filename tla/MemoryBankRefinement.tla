------------------------ MODULE MemoryBankRefinement ------------------------
(***************************************************************************)
(* Banks of script memory implement the arrays of PlainMemory.  words      *)
(* holds what the banks read as, so that TLC computes it once in a step;   *)
(* it adds no state.                                                       *)
(***************************************************************************)
EXTENDS MemoryBank

VARIABLE words

ReadInit == BankInit /\ words = Words
ReadNext == BankNext /\ words' = Words'
ReadSpec == ReadInit /\ [][ReadNext]_<<mvars, words>>

Plain == INSTANCE PlainMemory WITH Cells <- Observed

\* Every bank behaves like an array of its own: writing a word of one changes
\* no other word of it and nothing in its copies, what is saved comes back, and
\* reading comes to a null node nowhere (memory.hpp:106: banks support COW "and
\* can be trivally copied").
ImplementsPlainMemory == Plain!Spec

\* What the program never does: it fills no bank that shares nodes, and no
\* range that ends before the first cell.
CarefulFills == ~FillShared /\ \A r \in Ranges : r[2] > 0
=============================================================================
