---------------------------- MODULE BenchmarkPool ----------------------------
(***************************************************************************)
(* main of collisions_hash.cpp: a thread per dataset and load factor, held *)
(* back by the semaphore, each measuring its combinations of hash function *)
(* and reducer into the result file; and the runs after it, which skip     *)
(* what the file has.                                                      *)
(***************************************************************************)
EXTENDS Semaphore, ResultFile

CONSTANTS
  D, F,               \* datasets and load factors of the command line
  C,                  \* measurements per thread
  Sessions,           \* bound: how often the program is started
  LowMemorySettings   \* which builds are considered: with LOW_MEMORY or not

ASSUME PoolAssumption ==
  /\ D \in Nat \ {0} /\ F \in Nat \ {0} /\ C \in Nat \ {0}
  /\ Workers = (1 .. D) \X (1 .. F)
  /\ Rows = Workers \X (1 .. C)
  /\ NoWriter \notin Rows
  /\ Sessions \in Nat \ {0}
  /\ LowMemorySettings \subseteq BOOLEAN

VARIABLES
  low_memory,   \* LOW_MEMORY is defined
  unloadable,   \* datasets whose load throws
  main,         \* where main is
  d, f,         \* its loop variables
  combo,        \* the measurement each thread is at
  session

poolVars == <<low_memory, unloadable, main, d, f, combo, session>>
programVars == <<counter, thread, header, lines, cut_line, existing, writing,
          low_memory, unloadable, main, d, f, combo, session>>

Ended == {"done", "failed", "terminated"}

PoolInit ==
  /\ SemaphoreInit /\ FileInit
  /\ low_memory \in LowMemorySettings
  /\ unloadable \in SUBSET (1 .. D)
  /\ main = "open" /\ d = 1 /\ f = 1
  /\ combo = [w \in Workers |-> 1]
  /\ session = 1

-----------------------------------------------------------------------------
(* main                                                                     *)

MainOpens ==
  /\ main = "open"
  /\ \/ OpenFile /\ main' = "load"
     \/ RefuseFile /\ main' = "failed"
  /\ UNCHANGED <<counter, thread, low_memory, unloadable, d, f, combo, session>>

MainLoads ==
  /\ main = "load" /\ d \notin unloadable
  /\ main' = "spawn" /\ f' = 1
  /\ UNCHANGED <<counter, thread, fileVars, low_memory, unloadable, d, combo, session>>

\* The vector of threads still to be joined.
Unjoined == IF low_memory THEN {} ELSE Workers \ Threads("unborn")

\* load throws: main returns -1, unless the stack holds threads to be joined,
\* whose destructors terminate the process.
LoadThrows ==
  /\ main = "load" /\ d \in unloadable
  /\ main' = IF Unjoined = {} THEN "failed" ELSE "terminated"
  /\ UNCHANGED <<counter, thread, fileVars, low_memory, unloadable, d, f, combo, session>>

NextDataset ==
  IF d = D THEN main' = "done" /\ UNCHANGED <<d, f>>
           ELSE main' = "load" /\ d' = d + 1 /\ UNCHANGED f

MainSpawns ==
  /\ main = "spawn"
  /\ Spawn(<<d, f>>)
  /\ IF f < F THEN f' = f + 1 /\ UNCHANGED <<main, d>>
     ELSE IF low_memory \/ d = D THEN main' = "join" /\ UNCHANGED <<d, f>>
     ELSE NextDataset
  /\ UNCHANGED <<fileVars, low_memory, unloadable, combo, session>>

\* Mutated form: the threads of the last dataset only are joined.
AllJoinedButEarlier == \A n \in 1 .. F : thread[<<d, n>>] = "finished"

AllJoined == Workers \ Threads("unborn") = Threads("finished")

MainJoins ==
  /\ main = "join" /\ AllJoined
  /\ NextDataset
  /\ UNCHANGED <<counter, thread, fileVars, low_memory, unloadable, combo, session>>

MainStep == MainOpens \/ MainLoads \/ LoadThrows \/ MainSpawns \/ MainJoins

-----------------------------------------------------------------------------
(* the threads                                                              *)

Row(w) == <<w, combo[w]>>
Running(w) == main \notin Ended /\ thread[w] = "holding" /\ combo[w] <= C

NextCombo(w) == combo' = [combo EXCEPT ![w] = @ + 1]

WorkerSkips(w) ==
  /\ Running(w) /\ exists(Row(w))
  /\ NextCombo(w)
  /\ UNCHANGED <<counter, thread, fileVars, low_memory, unloadable, main, d, f, session>>

\* The measurement itself touches nothing shared; then its row is written.
WorkerWrites(w) ==
  /\ Running(w) /\ ~exists(Row(w))
  /\ BeginRow(Row(w))
  /\ UNCHANGED <<counter, thread, poolVars>>

WorkerWrote(w) ==
  /\ Running(w)
  /\ EndRow(Row(w))
  /\ NextCombo(w)
  /\ UNCHANGED <<counter, thread, low_memory, unloadable, main, d, f, session>>

SemaphoreStep(w) ==
  /\ main \notin Ended
  /\ \/ Aquire(w) \/ Block(w)
     \/ combo[w] = C + 1 /\ Release(w)
  /\ UNCHANGED <<fileVars, poolVars>>

WakesUp(w) ==
  /\ main \notin Ended
  /\ SpuriousWake(w)
  /\ UNCHANGED <<fileVars, poolVars>>

WorkerStep(w) == WorkerSkips(w) \/ WorkerWrites(w) \/ WorkerWrote(w)
                   \/ SemaphoreStep(w)

-----------------------------------------------------------------------------
(* The program is started once more: after it has ended, or after it was    *)
(* killed, or after the machine went down with it.                          *)
Restart ==
  /\ session < Sessions
  /\ session' = session + 1
  /\ \/ FileClosed
     \/ main = "open" /\ HeaderTorn
     \/ main \notin Ended /\ RowTorn
  /\ SemaphoreRestart
  /\ unloadable' \in SUBSET (1 .. D)
  /\ main' = "open" /\ d' = 1 /\ f' = 1
  /\ combo' = [w \in Workers |-> 1]
  /\ UNCHANGED low_memory

PoolNext ==
  \/ MainStep
  \/ \E w \in Workers : WorkerStep(w) \/ WakesUp(w)
  \/ Restart

PoolSpec == PoolInit /\ [][PoolNext]_programVars

\* Every thread is run by the scheduler; nothing else is promised.
PoolFairness ==
  /\ WF_programVars(MainStep)
  /\ \A w \in Workers : WF_programVars(WorkerStep(w))

PoolFairSpec == PoolSpec /\ PoolFairness

-----------------------------------------------------------------------------
PoolTypeOK ==
  /\ SemaphoreTypeOK /\ FileTypeOK
  /\ low_memory \in BOOLEAN
  /\ unloadable \subseteq 1 .. D
  /\ main \in {"open", "load", "spawn", "join"} \cup Ended
  /\ d \in 1 .. D /\ f \in 1 .. F
  /\ combo \in [Workers -> 1 .. (C + 1)]
  /\ session \in 1 .. Sessions

\* Before the file is opened nothing runs and nothing is written.
FreshAtOpen ==
  main = "open" => Threads("unborn") = Workers /\ writing = NoWriter

\* While the program works on an opened file, what the file has was there when
\* it was opened or was written by a thread that has gone past it.
FileAccountedFor ==
  main \notin Ended \cup {"open"} =>
    \A r \in Indexed : exists(r) \/ r[2] < combo[r[1]]

\* The row under way is that of a thread with a permit, which has found it
\* missing and is still at it.
WriterAtRow ==
  main \notin Ended /\ writing # NoWriter =>
    \E w \in Workers : /\ thread[w] = "holding" /\ combo[w] <= C
                       /\ writing = Row(w) /\ ~exists(Row(w))

\* The inductive invariant behind RowsOnce.
PoolInv == PoolTypeOK /\ LinesBegun /\ RowsOnce /\ FreshAtOpen
             /\ FileAccountedFor /\ WriterAtRow

\* A run that ends well has left no measurement out: each one is in the file,
\* with its results or (a row cut by an earlier run) without.
RunCovers ==
  main = "done" =>
    \A r \in Rows : \E n \in DOMAIN lines : \E i \in DOMAIN lines[n] :
      lines[n][i].row = r /\ lines[n][i].cut # "early"

\* Every run comes to its end: threads get their permits, are joined, and no
\* wakeup is waited for in vain.
PoolEnds == <>[](main \in Ended)
=============================================================================
