----------------------------- MODULE MCHashJoin -----------------------------
(* Instances of HashJoin for TLC. *)
EXTENDS HashJoin

NoLane == [tuple |-> 0, head |-> 0, pos |-> 0]

Join(threads, n, bucketSize, model, idx, vidx) ==
  [threads |-> threads, n |-> n, bucketSize |-> bucketSize,
   model |-> model, idx |-> idx, vidx |-> vidx]

Indexes(n) == [1 .. n -> Heads]

\* One thread: enough tuples for both vector states and a leftover, every
\* distribution over the buckets, hashing and the models with one level or two.
OneThread ==
  {Join(1, 7, 1, "none", f, f) : f \in Indexes(7)}
  \union {Join(1, 5, 1, "leaves", f, f) : f \in Indexes(5)}
  \union {Join(1, 4, 2, "root", f, f) : f \in Indexes(4)}
  \union {Join(1, 3, 1, "none", f, g) : f \in Indexes(3), g \in Indexes(3)}
  \union {Join(1, 0, 1, "none", f, f) : f \in Indexes(0)}

\* Two threads that meet in the buckets, uneven parts.
OneBucket(n) == [x \in 1 .. n |-> 0]
Alternating(n) == [x \in 1 .. n |-> x % 2]
TwoThreads ==
  {Join(2, 3, 1, "none", f, f) : f \in Indexes(3)}
  \union {Join(2, 5, 2, "none", f, f) : f \in {OneBucket(5), Alternating(5)}}
  \union {Join(2, 4, 1, "leaves", f, f) : f \in {OneBucket(4), Alternating(4)}}

SomeJoins == OneThread \union TwoThreads

\* Hashing with murmur: the 32-bit hash of the key in the scalar functions,
\* the 64-bit one of the whole word in the vector functions.
MurmurJoins == {Join(1, 3, 1, "none", f, g) : f \in Indexes(3), g \in Indexes(3)}

-----------------------------------------------------------------------------
\* README of the join, line 26: "Set RUN_LEARNED_TECHNIQUES with 0, if you want
\* to run non-learned variations (both naive and vectorized)".  Both of them
\* join: each finds the partner of every tuple.
EveryVariationJoins ==
  \A t \in Threads : Probed(t) => num_results[t] = NumTuples(t)
=============================================================================
