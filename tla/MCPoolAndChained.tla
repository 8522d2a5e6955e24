-------------------------- MODULE MCPoolAndChained -------------------------
(***************************************************************************)
(* The benchmark pool and the chained table in one instance, one of them   *)
(* per behaviour: beside a pool nobody calls the table, and beside a table *)
(* the program is not started.                                             *)
(***************************************************************************)
EXTENDS MCBenchmarkPool, MCChained

VARIABLE part

bothVars == <<programVars, chainVars, part>>

BothInit ==
  /\ PoolInit /\ ChainInit
  /\ \/ part = "pool" /\ home = (CHOOSE h \in Homes : TRUE)
     \/ part = "table" /\ low_memory = (CHOOSE b \in LowMemorySettings : TRUE) /\ unloadable = {}

BothNext ==
  \/ part = "pool" /\ PoolNext /\ UNCHANGED <<chainVars, part>>
  \/ part = "table" /\ ChainNext /\ UNCHANGED <<programVars, part>>

\* Fairness is owed to the pool alone: no call of the table has to be made, and
\* what is said of it holds step by step, in behaviours that are fair or not.
BothSpec == BothInit /\ [][BothNext]_bothVars /\ PoolFairness
=============================================================================
