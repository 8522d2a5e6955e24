----------------------------- MODULE MCProbing -----------------------------
(* Instances of Probing for TLC; the keys are 1 .. k. *)
EXTENDS Probing

\* One bucket attracts every key: the longest walks.
OneHome == [Keys -> {N - 1}]

\* Every distribution of the keys over the home buckets; which key has which
\* home does not matter, so the functions are the ascending ones.
AscendingHomes ==
  {h \in [Keys -> Directory] : \A j, k \in Keys : j <= k => h[j] <= h[k]}

-----------------------------------------------------------------------------
\* probing.hpp:76-77: insert "Will throw a runtime error iff the probing
\* function produces a cycle and all buckets along that cycle are full".  The
\* buckets of the cycle are all those the probing function gives for this key.
ThrowsOnFullCycle ==
  [][ret'.res = "thrown" /\ call # NoCall /\ call' = NoCall =>
       \A s \in 0 .. (N - 1) : Full(BucketAt(home[call.key], s))]_vars
=============================================================================
