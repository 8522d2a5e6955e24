----------------------------- MODULE MCRobinHood -----------------------------
(* Instances of RobinHood for TLC; the keys are 1 .. 5. *)
EXTENDS RobinHood

\* Home buckets whose quadratic ways overlap in part.  In the first function
\* an insert displaces an entry onto a full way while its own has room; the
\* others make one way attract most keys.
OverlappingHomes ==
  {<<0, 1, 1, 4, 4>>, <<0, 0, 0, 4, 4>>, <<4, 4, 4, 1, 0>>}

\* Six keys for ten buckets.
SparseHomes == {<<1, 1, 9, 1, 0, 9>>}

-----------------------------------------------------------------------------
\* probing.hpp:269-270: "Will throw a runtime error iff the probing
\* function produces a cycle and all buckets along that cycle are full", be it
\* the way of the argument, of the entry carried or of any other key.
ThrowsOnFullCycle ==
  [][Throws => \E k \in Keys : \E s \in 1 .. N : NoRoomFor(k, s)]_vars
=============================================================================
