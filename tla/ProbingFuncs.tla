---------------------------- MODULE ProbingFuncs ----------------------------
(***************************************************************************)
(* The two probing functions of hashtable/include/probing.hpp and the      *)
(* probe sequence the tables walk with them.                               *)
(***************************************************************************)
EXTENDS Integers

CONSTANTS
  N,           \* directory_size: the number of buckets
  Quadratic    \* which ProbingFn the table is instantiated with

ASSUME DirectoryAssumption ==
  /\ N \in Nat \ {0}
  /\ Quadratic \in BOOLEAN

Directory == 0 .. (N - 1)

\* Mutated form: the directory is not closed to a ring.
LinearUnwrapped(index, probing_step) == index + probing_step

\* Both tables keep directory_size far below 2^32, so index + step^2 does not
\* reach 2^64 and the unsigned arithmetic is that of the naturals.
LinearProbingFunc(index, probing_step) == (index + probing_step) % N

\* Mutated form: the reduction is forgotten.
QuadraticUnreduced(index, probing_step) == index + probing_step * probing_step

QuadraticProbingFunc(index, probing_step) ==
  (index + probing_step * probing_step) % N

probingfn(index, probing_step) ==
  IF Quadratic THEN QuadraticProbingFunc(index, probing_step)
               ELSE LinearProbingFunc(index, probing_step)

\* The bucket a key with this original slot index sees at a probing step: the
\* loops start at the original index and call probingfn from step 1 on.
BucketAt(orig_slot_index, probing_step) ==
  IF probing_step = 0 THEN orig_slot_index
                      ELSE probingfn(orig_slot_index, probing_step)

\* Steps 1 .. s of the walk did not come back to the start, so neither insert
\* nor lookup gives up before reaching step s.
NoReturnUpTo(orig_slot_index, s) ==
  \A t \in 1 .. s : probingfn(orig_slot_index, t) # orig_slot_index
=============================================================================
