------------------------------ MODULE Semaphore ------------------------------
(***************************************************************************)
(* std_ext::counting_semaphore (convenience/include/semaphore.hpp) and the *)
(* benchmark threads that take one permit each and give it back.           *)
(*                                                                         *)
(* Both operations run under the semaphore's mutex, so each is a step; the *)
(* wait on the condition variable splits aquire into the test before the   *)
(* wait and the test after it.  A notification moves one waiting thread to *)
(* "woken", and a thread may also wake up without one.  A woken thread     *)
(* tests the counter again, and a newcomer may have been faster.           *)
(***************************************************************************)
EXTENDS Integers, FiniteSets

CONSTANTS
  Workers,      \* the benchmark threads of one run
  MaxThreads    \* max_value, from --max-threads

\* With no permit at all every thread waits for ever.
ASSUME SemaphoreAssumption ==
  /\ IsFiniteSet(Workers)
  /\ MaxThreads \in Nat \ {0}

VARIABLES
  counter,   \* permits left
  thread     \* where each thread is

Statuses == {"unborn", "started", "waiting", "woken", "holding", "finished"}
Threads(status) == {w \in Workers : thread[w] = status}

SemaphoreInit ==
  /\ counter = MaxThreads
  /\ thread = [w \in Workers |-> "unborn"]

Spawn(w) ==
  /\ thread[w] = "unborn"
  /\ thread' = [thread EXCEPT ![w] = "started"]
  /\ UNCHANGED counter

AtTest(w) == thread[w] \in {"started", "woken"}

\* Mutated form: a woken thread does not test the counter again.
MayTakeWoken(w) == counter > 0 \/ thread[w] = "woken"

MayTake(w) == counter > 0

\* Mutated form: the permit is not counted.
TakenUncounted == counter

Taken == counter - 1

Aquire(w) ==
  /\ AtTest(w)
  /\ MayTake(w)
  /\ counter' = Taken
  /\ thread' = [thread EXCEPT ![w] = "holding"]

Block(w) ==
  /\ AtTest(w)
  /\ ~MayTake(w)
  /\ thread' = [thread EXCEPT ![w] = "waiting"]
  /\ UNCHANGED counter

SpuriousWake(w) ==
  /\ thread[w] = "waiting"
  /\ thread' = [thread EXCEPT ![w] = "woken"]
  /\ UNCHANGED counter

\* Mutated form: nobody is notified.
NotifiedNobody(w) == {[thread EXCEPT ![w] = "finished"]}

\* notify_one: one of the waiting threads, if there is one.
Notified(w) ==
  IF Threads("waiting") = {}
  THEN {[thread EXCEPT ![w] = "finished"]}
  ELSE {[thread EXCEPT ![w] = "finished", ![v] = "woken"] :
          v \in Threads("waiting")}

\* release of one permit; it throws when there is no room for it.
Release(w) ==
  /\ thread[w] = "holding"
  /\ 1 <= MaxThreads - counter
  /\ counter' = counter + 1
  /\ thread' \in Notified(w)

\* The process ends and is started again.
SemaphoreRestart ==
  /\ counter' = MaxThreads
  /\ thread' = [w \in Workers |-> "unborn"]

SemaphoreNext ==
  \/ \E w \in Workers : \/ Spawn(w) \/ Aquire(w) \/ Block(w)
                        \/ SpuriousWake(w) \/ Release(w)
  \/ SemaphoreRestart

SemaphoreSpec == SemaphoreInit /\ [][SemaphoreNext]_<<counter, thread>>

-----------------------------------------------------------------------------
SemaphoreTypeOK ==
  /\ counter \in 0 .. MaxThreads
  /\ thread \in [Workers -> Statuses]

\* Permits are neither lost nor made: what is not in the counter is held.  So
\* at most MaxThreads threads run a benchmark at a time (args.hpp: "only
\* max-threads will actually execute at the same time") and release never
\* throws.
PermitsBalanced == counter + Cardinality(Threads("holding")) = MaxThreads

\* No wakeup is lost: while a thread waits, every free permit has a woken
\* thread on its way to it.
NoLostWakeup ==
  Threads("waiting") # {} => counter <= Cardinality(Threads("woken"))
=============================================================================
