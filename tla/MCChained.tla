------------------------------ MODULE MCChained -----------------------------
(* Instances of Chained for TLC. *)
EXTENDS Chained, TLC

\* Every hash function of the keys.
AllHomes == [Keys -> Directory]

Symmetry == Permutations(Keys) \cup Permutations(Payloads)

-----------------------------------------------------------------------------
\* chained.hpp:37-38: insert returns "whether or not the key, payload pair was
\* inserted. Insertion will fail iff the same key already exists or if
\* key == Sentinel value".
InsertFailsOnExisting ==
  [][\A k \in Keys :
       LookupResult(k) # Absent /\ <<first, chain>>' # <<first, chain>> =>
         ret' # Outcome("insert", k, "inserted")]_chainVars
=============================================================================
