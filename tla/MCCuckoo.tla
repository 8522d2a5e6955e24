----------------------------- MODULE MCCuckoo -----------------------------
(* Instances of Cuckoo for TLC; the keys are 1 .. 5. *)
EXTENDS Cuckoo

HomePair(a, b) == [i1 |-> a, i2 |-> b]

\* Hash functions under which five keys contend for two of the three buckets:
\* one with agreeing hashes (the secondary bucket is moved on), and one under
\* which a kicked key has its other bucket elsewhere than the key kicking it.
ContendedHomes ==
  {<<HomePair(0, 1), HomePair(0, 1), HomePair(1, 0), HomePair(0, 0), HomePair(1, 0)>>,
   <<HomePair(0, 2), HomePair(0, 1), HomePair(1, 0), HomePair(1, 0), HomePair(0, 1)>>}
=============================================================================
