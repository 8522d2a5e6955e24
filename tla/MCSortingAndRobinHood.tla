------------------------ MODULE MCSortingAndRobinHood ----------------------
(***************************************************************************)
(* The sorting procedures and the Robin Hood table in one instance: a call *)
(* of one of the procedures, and where there was nothing to be sorted,     *)
(* calls of a table after it.                                              *)
(***************************************************************************)
EXTENDS MCSorting, MCRobinHood

bothVars == <<sortingVars, vars>>

\* The aligned sort of an empty array has returned as soon as it is called.
NothingSorted == sortPc = "done" /\ given = <<>> /\ isaligned

BothInit ==
  /\ SortingInit /\ Init
  /\ ~NothingSorted => home = (CHOOSE h \in Homes : TRUE)

BothNext ==
  \/ SortingNext /\ UNCHANGED vars
  \/ NothingSorted /\ Next /\ UNCHANGED sortingVars

\* What the two components assume of the scheduler, each for itself.
BothSpec == BothInit /\ [][BothNext]_bothVars /\ SortingFairness /\ WF_vars(Step)
=============================================================================
