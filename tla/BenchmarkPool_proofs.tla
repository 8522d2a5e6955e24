------------------------ MODULE BenchmarkPool_proofs ------------------------
(***************************************************************************)
(* The semaphore for any number of threads and permits: its counter and    *)
(* the threads that hold a permit always balance, release always has room  *)
(* for the permit, and no wakeup is lost.                                  *)
(*                                                                         *)
(* The pool for any number of datasets, load factors, measurements, permits *)
(* and starts: it uses its semaphore as the semaphore's specification says, *)
(* no measurement is ever in the result file twice, and a run that ends     *)
(* well has left none out.                                                  *)
(***************************************************************************)
EXTENDS BenchmarkPool, FiniteSetTheorems, TLAPS

(* The semaphore.                                                          *)

\* The inductive invariant.
SemaphoreInv == SemaphoreTypeOK /\ PermitsBalanced /\ NoLostWakeup

LEMMA ThreadsCount ==
  ASSUME NEW status
  PROVE  /\ IsFiniteSet(Threads(status))
         /\ Cardinality(Threads(status)) \in Nat
         /\ Cardinality(Threads(status)) = 0 <=> Threads(status) = {}
<1>1. IsFiniteSet(Threads(status))
  <2>1. Threads(status) \in SUBSET Workers
    BY DEF Threads
  <2> QED BY <2>1, SemaphoreAssumption, FS_Subset
<1> QED BY <1>1, FS_CardinalityType, FS_EmptySet

\* One thread leaves a set of threads, or joins it.
LEMMA OneLess ==
  ASSUME NEW S, IsFiniteSet(S), NEW w \in S
  PROVE  Cardinality(S \ {w}) = Cardinality(S) - 1
BY FS_RemoveElement

LEMMA OneMore ==
  ASSUME NEW S, IsFiniteSet(S), NEW w, w \notin S
  PROVE  Cardinality(S \cup {w}) = Cardinality(S) + 1
BY FS_AddElement

LEMMA OneLessAtMost ==
  ASSUME NEW S, IsFiniteSet(S), NEW w
  PROVE  /\ Cardinality(S \ {w}) \in Nat
         /\ Cardinality(S \ {w}) >= Cardinality(S) - 1
<1>1. /\ Cardinality(S) \in Nat
      /\ Cardinality(S \ {w}) =
            IF w \in S THEN Cardinality(S) - 1 ELSE Cardinality(S)
  BY FS_RemoveElement, FS_CardinalityType
<1>2. Cardinality(S \ {w}) \in Nat
  BY FS_RemoveElement, FS_CardinalityType
<1> QED BY <1>1, <1>2

LEMMA InitSemaphoreInv == SemaphoreInit => SemaphoreInv
<1> SUFFICES ASSUME SemaphoreInit PROVE SemaphoreInv
  OBVIOUS
<1>1. SemaphoreTypeOK
  BY SemaphoreAssumption DEF SemaphoreInit, SemaphoreTypeOK, Statuses
<1>2. Threads("holding") = {} /\ Threads("waiting") = {}
  BY DEF SemaphoreInit, Threads
<1>3. Cardinality(Threads("holding")) = 0
  BY <1>2, FS_EmptySet
<1>4. PermitsBalanced
  BY <1>3, SemaphoreAssumption DEF SemaphoreInit, PermitsBalanced
<1> QED BY <1>1, <1>2, <1>4 DEF SemaphoreInv, NoLostWakeup

LEMMA NextSemaphoreInv ==
  SemaphoreInv /\ [SemaphoreNext]_<<counter, thread>> => SemaphoreInv'
<1> SUFFICES ASSUME SemaphoreInv, [SemaphoreNext]_<<counter, thread>>
             PROVE  SemaphoreInv'
  OBVIOUS
<1> USE SemaphoreAssumption
<1> DEFINE Holding == Threads("holding")
           Waiting == Threads("waiting")
           Woken == Threads("woken")
<1>0. /\ SemaphoreTypeOK /\ PermitsBalanced /\ NoLostWakeup
      /\ counter \in Nat /\ MaxThreads \in Nat
      /\ IsFiniteSet(Holding) /\ Cardinality(Holding) \in Nat
      /\ IsFiniteSet(Woken) /\ Cardinality(Woken) \in Nat
  BY ThreadsCount DEF SemaphoreInv, SemaphoreTypeOK
<1>1. ASSUME NEW w \in Workers, Spawn(w)
      PROVE  SemaphoreInv'
  <2>1. Holding' = Holding /\ Waiting' = Waiting /\ Woken' = Woken
    BY <1>0, <1>1 DEF Spawn, Threads, SemaphoreTypeOK
  <2>2. SemaphoreTypeOK'
    BY <1>0, <1>1 DEF Spawn, SemaphoreTypeOK, Statuses
  <2> QED
    BY <1>0, <1>1, <2>1, <2>2
       DEF Spawn, SemaphoreInv, PermitsBalanced, NoLostWakeup
<1>2. ASSUME NEW w \in Workers, Aquire(w)
      PROVE  SemaphoreInv'
  <2>1. /\ Holding' = Holding \cup {w} /\ w \notin Holding
        /\ Waiting' = Waiting
        /\ Woken' = Woken \ {w}
    BY <1>0, <1>2 DEF Aquire, AtTest, Threads, SemaphoreTypeOK
  <2>2. counter' = counter - 1 /\ counter' \in 0 .. MaxThreads
    BY <1>0, <1>2 DEF Aquire, MayTake, Taken, SemaphoreTypeOK
  <2>3. SemaphoreTypeOK'
    BY <1>0, <1>2, <2>2 DEF Aquire, SemaphoreTypeOK, Statuses
  <2>4. Cardinality(Holding') = Cardinality(Holding) + 1
    BY <1>0, <2>1, OneMore
  <2>5. PermitsBalanced'
    BY <1>0, <2>2, <2>4 DEF PermitsBalanced
  <2>6. Cardinality(Woken') \in Nat /\ Cardinality(Woken') >= Cardinality(Woken) - 1
    BY <1>0, <2>1, OneLessAtMost
  <2>7. NoLostWakeup'
    BY <1>0, <2>1, <2>2, <2>6 DEF NoLostWakeup
  <2> QED BY <2>3, <2>5, <2>7 DEF SemaphoreInv
<1>3. ASSUME NEW w \in Workers, Block(w)
      PROVE  SemaphoreInv'
  <2>1. Holding' = Holding /\ counter' = counter /\ counter = 0
    BY <1>0, <1>3 DEF Block, AtTest, MayTake, Threads, SemaphoreTypeOK
  <2>2. SemaphoreTypeOK'
    BY <1>0, <1>3 DEF Block, SemaphoreTypeOK, Statuses
  <2>3. Woken' = Woken \ {w}
    BY <1>0, <1>3 DEF Block, Threads, SemaphoreTypeOK
  <2>4. Cardinality(Woken') \in Nat
    BY <1>0, <2>3, OneLessAtMost
  <2> QED
    BY <1>0, <2>1, <2>2, <2>4 DEF SemaphoreInv, PermitsBalanced, NoLostWakeup
<1>4. ASSUME NEW w \in Workers, SpuriousWake(w)
      PROVE  SemaphoreInv'
  <2>1. /\ Holding' = Holding /\ counter' = counter
        /\ Waiting' \subseteq Waiting
        /\ Woken' = Woken \cup {w} /\ w \notin Woken
    BY <1>0, <1>4 DEF SpuriousWake, Threads, SemaphoreTypeOK
  <2>2. SemaphoreTypeOK'
    BY <1>0, <1>4 DEF SpuriousWake, SemaphoreTypeOK, Statuses
  <2>3. Cardinality(Woken') = Cardinality(Woken) + 1
    BY <1>0, <2>1, OneMore
  <2> QED
    BY <1>0, <2>1, <2>2, <2>3 DEF SemaphoreInv, PermitsBalanced, NoLostWakeup
<1>5. ASSUME NEW w \in Workers, Release(w)
      PROVE  SemaphoreInv'
  <2>1. counter' = counter + 1 /\ counter' \in 0 .. MaxThreads
    BY <1>0, <1>5 DEF Release
  <2>2. Holding' = Holding \ {w} /\ w \in Holding
    BY <1>0, <1>5 DEF Release, Notified, Threads, SemaphoreTypeOK
  <2>3. SemaphoreTypeOK'
    BY <1>0, <1>5, <2>1
       DEF Release, Notified, Threads, SemaphoreTypeOK, Statuses
  <2>4. PermitsBalanced'
    BY <1>0, <2>1, <2>2, OneLess DEF PermitsBalanced
  <2>5. CASE Waiting = {}
    <3>1. Waiting' = {}
      BY <1>0, <1>5, <2>5 DEF Release, Notified, Threads, SemaphoreTypeOK
    <3> QED BY <2>3, <2>4, <3>1 DEF SemaphoreInv, NoLostWakeup
  <2>6. CASE Waiting # {}
    <3>1. PICK v \in Waiting :
            thread' = [thread EXCEPT ![w] = "finished", ![v] = "woken"]
      BY <1>5, <2>6 DEF Release, Notified
    <3>2. Woken' = Woken \cup {v} /\ v \notin Woken
      BY <1>0, <1>5, <3>1 DEF Release, Threads, SemaphoreTypeOK
    <3>3. Cardinality(Woken') = Cardinality(Woken) + 1
      BY <1>0, <3>2, OneMore
    <3>4. NoLostWakeup'
      BY <1>0, <2>1, <2>6, <3>3 DEF NoLostWakeup
    <3> QED BY <2>3, <2>4, <3>4 DEF SemaphoreInv
  <2> QED BY <2>5, <2>6
<1>6. ASSUME SemaphoreRestart
      PROVE  SemaphoreInv'
  <2>1. SemaphoreTypeOK'
    BY <1>6 DEF SemaphoreRestart, SemaphoreTypeOK, Statuses
  <2>2. Holding' = {} /\ Waiting' = {} /\ counter' = MaxThreads
    BY <1>6 DEF SemaphoreRestart, Threads
  <2>3. Cardinality(Holding') = 0
    BY <2>2, FS_EmptySet
  <2> QED
    BY <1>0, <2>1, <2>2, <2>3 DEF SemaphoreInv, PermitsBalanced, NoLostWakeup
<1>7. ASSUME UNCHANGED <<counter, thread>>
      PROVE  SemaphoreInv'
  BY <1>0, <1>7
     DEF SemaphoreInv, SemaphoreTypeOK, PermitsBalanced, NoLostWakeup, Threads
<1> QED
  BY <1>1, <1>2, <1>3, <1>4, <1>5, <1>6, <1>7 DEF SemaphoreNext

-----------------------------------------------------------------------------
\* Permits are neither lost nor made, for any number of threads and permits.
THEOREM AlwaysBalanced == SemaphoreSpec => []PermitsBalanced
<1>1. SemaphoreInv => PermitsBalanced
  BY DEF SemaphoreInv
<1> QED BY <1>1, InitSemaphoreInv, NextSemaphoreInv, PTL DEF SemaphoreSpec

\* While a thread waits, every free permit has a woken thread on its way.
THEOREM WakeupsArrive == SemaphoreSpec => []NoLostWakeup
<1>1. SemaphoreInv => NoLostWakeup
  BY DEF SemaphoreInv
<1> QED BY <1>1, InitSemaphoreInv, NextSemaphoreInv, PTL DEF SemaphoreSpec

\* A thread that holds a permit can give it back: release does not throw.
HasRoom ==
  \A w \in Workers : thread[w] = "holding" => 1 <= MaxThreads - counter

THEOREM ReleaseHasRoom == SemaphoreSpec => []HasRoom
<1>1. SemaphoreInv => HasRoom
  <2> SUFFICES ASSUME SemaphoreInv, NEW w \in Workers, thread[w] = "holding"
               PROVE  1 <= MaxThreads - counter
    BY DEF HasRoom
  <2>1. /\ Cardinality(Threads("holding")) \in Nat
        /\ Cardinality(Threads("holding")) # 0
    <3>1. w \in Threads("holding")
      BY DEF Threads
    <3> QED BY <3>1, ThreadsCount
  <2>2. /\ counter \in Nat /\ MaxThreads \in Nat
        /\ counter + Cardinality(Threads("holding")) = MaxThreads
    BY SemaphoreAssumption DEF SemaphoreInv, SemaphoreTypeOK, PermitsBalanced
  <2> QED BY <2>1, <2>2
<1> QED BY <1>1, InitSemaphoreInv, NextSemaphoreInv, PTL DEF SemaphoreSpec

-----------------------------------------------------------------------------
(* The result file.                                                         *)

\* A line continued keeps its first piece.
LEMMA AppendKeepsFirst ==
  ASSUME NEW S, NEW line \in Seq(S), line # <<>>, NEW p \in S
  PROVE  /\ Append(line, p) \in Seq(S)
         /\ Append(line, p) # <<>>
         /\ Append(line, p)[1] = line[1]
<1>1. Len(line) \in Nat /\ Len(line) # 0
  OBVIOUS
<1>2. 1 \in 1 .. Len(line)
  BY <1>1
<1>3. Append(line, p) \in Seq(S) /\ Len(Append(line, p)) = Len(line) + 1
  OBVIOUS
<1>4. Append(line, p)[1] = line[1]
  BY <1>2
<1>5. Append(line, p) # <<>>
  BY <1>1, <1>3
<1> QED BY <1>3, <1>4, <1>5

\* What appending a piece changes: it begins a new line with itself, or no
\* line's first piece.
LEMMA AppendedLines ==
  ASSUME FileTypeOK, LinesBegun, NEW p \in Pieces, lines' = Appended(p)
  PROVE  /\ lines' \in Seq(Seq(Pieces))
         /\ LinesBegun'
         /\ \/ /\ DOMAIN lines' = DOMAIN lines
               /\ \A n \in DOMAIN lines : lines'[n][1] = lines[n][1]
            \/ \E new : /\ DOMAIN lines' = DOMAIN lines \cup {new}
                        /\ new \notin DOMAIN lines
                        /\ lines'[new][1] = p
                        /\ \A n \in DOMAIN lines : lines'[n][1] = lines[n][1]
<1>0. /\ lines \in Seq(Seq(Pieces)) /\ Len(lines) \in Nat
      /\ DOMAIN lines = 1 .. Len(lines)
      /\ \A n \in DOMAIN lines : lines[n] \in Seq(Pieces) /\ lines[n] # <<>>
  BY DEF FileTypeOK, LinesBegun
<1>1. CASE cut_line
  <2> DEFINE last == Append(lines[Len(lines)], p)
  <2>1. lines' = [lines EXCEPT ![Len(lines)] = last]
    BY <1>1 DEF Appended
  <2>2. CASE lines = <<>>
    <3>1. lines' = lines
      BY <1>0, <2>1, <2>2
    <3> QED BY <1>0, <3>1 DEF LinesBegun
  <2>3. CASE lines # <<>>
    <3>1. Len(lines) \in DOMAIN lines
      BY <1>0, <2>3
    <3>2. last \in Seq(Pieces) /\ last # <<>> /\ last[1] = lines[Len(lines)][1]
      BY <1>0, <3>1, AppendKeepsFirst
    <3> HIDE DEF last
    <3>3. lines' \in Seq(Seq(Pieces)) /\ DOMAIN lines' = DOMAIN lines
      BY <1>0, <2>1, <3>1, <3>2
    <3>4. \A n \in DOMAIN lines : lines'[n] # <<>> /\ lines'[n][1] = lines[n][1]
      BY <1>0, <2>1, <3>2
    <3> QED BY <3>3, <3>4 DEF LinesBegun
  <2> QED BY <2>2, <2>3
<1>2. CASE ~cut_line
  <2>1. lines' = Append(lines, <<p>>)
    BY <1>2 DEF Appended
  <2>2. <<p>> \in Seq(Pieces) /\ <<p>> # <<>> /\ <<p>>[1] = p
    OBVIOUS
  <2>3. /\ lines' \in Seq(Seq(Pieces))
        /\ DOMAIN lines' = DOMAIN lines \cup {Len(lines) + 1}
        /\ lines'[Len(lines) + 1] = <<p>>
        /\ \A n \in DOMAIN lines : lines'[n] = lines[n]
    BY <1>0, <2>1, <2>2
  <2>4. Len(lines) + 1 \notin DOMAIN lines
    BY <1>0
  <2> QED BY <1>0, <2>2, <2>3, <2>4 DEF LinesBegun
<1> QED BY <1>1, <1>2

LEMMA IndexedAreRows ==
  ASSUME FileTypeOK, LinesBegun
  PROVE  Indexed \subseteq Rows
<1>1. \A n \in DOMAIN lines : lines[n][1] \in Pieces
  BY DEF FileTypeOK, LinesBegun
<1>2. \A n \in DOMAIN lines : ReadAs(lines[n]) \subseteq Rows
  BY <1>1 DEF ReadAs, Pieces
<1> QED BY <1>2 DEF Indexed

LEMMA IndexedOfLine ==
  ASSUME NEW r
  PROVE  r \in Indexed <=> \E n \in DOMAIN lines : r \in ReadAs(lines[n])
BY DEF Indexed

\* What appending a row that is not read from the file yet keeps.
LEMMA AppendedRow ==
  ASSUME FileTypeOK, LinesBegun, RowsOnce,
         NEW r \in Rows, NEW cut \in {"early", "late", "whole"},
         r \notin Indexed, lines' = Appended(Piece(r, cut))
  PROVE  /\ lines' \in Seq(Seq(Pieces))
         /\ LinesBegun'
         /\ RowsOnce'
         /\ Indexed' \subseteq Indexed \cup {r}
<1> DEFINE p == Piece(r, cut)
<1>1. p \in Pieces /\ p.row = r
  BY DEF Piece, Pieces
<1> HIDE DEF p
<1>2. lines' = Appended(p)
  BY DEF p
<1>3. \A n \in DOMAIN lines : r \notin ReadAs(lines[n])
  BY IndexedOfLine
<1>4. CASE /\ DOMAIN lines' = DOMAIN lines
           /\ \A n \in DOMAIN lines : lines'[n][1] = lines[n][1]
  <2>1. \A n \in DOMAIN lines : ReadAs(lines'[n]) = ReadAs(lines[n])
    BY <1>4 DEF ReadAs
  <2>2. RowsOnce'
    BY <1>4, <2>1 DEF RowsOnce
  <2>3. Indexed' = Indexed
    BY <1>4, <2>1 DEF Indexed
  <2> QED BY <1>1, <1>2, <2>2, <2>3, AppendedLines
<1>5. ASSUME NEW new, /\ DOMAIN lines' = DOMAIN lines \cup {new}
                      /\ new \notin DOMAIN lines
                      /\ lines'[new][1] = p
                      /\ \A n \in DOMAIN lines : lines'[n][1] = lines[n][1]
      PROVE  RowsOnce' /\ Indexed' \subseteq Indexed \cup {r}
  <2>1. \A n \in DOMAIN lines : ReadAs(lines'[n]) = ReadAs(lines[n])
    BY <1>5 DEF ReadAs
  <2>2. ReadAs(lines'[new]) \subseteq {r}
    BY <1>1, <1>5 DEF ReadAs
  <2>3. RowsOnce'
    BY <1>3, <1>5, <2>1, <2>2 DEF RowsOnce
  <2>4. Indexed' \subseteq Indexed \cup {r}
    <3>1. ASSUME NEW q \in Indexed' PROVE q \in Indexed \cup {r}
      <4>1. PICK n \in DOMAIN lines' : q \in ReadAs(lines'[n])
        BY DEF Indexed
      <4> QED BY <1>5, <2>1, <2>2, <4>1, IndexedOfLine
    <3> QED BY <3>1
  <2> QED BY <2>3, <2>4
<1> QED BY <1>1, <1>2, <1>4, <1>5, AppendedLines

-----------------------------------------------------------------------------
(* Types, and the use of the semaphore.                                     *)

PoolTyped == PoolTypeOK /\ SemaphoreInv

\* The thread main is about to start is one of the run's.
LEMMA SpawnedIsWorker ==
  ASSUME PoolTypeOK
  PROVE  <<d, f>> \in Workers
BY PoolAssumption DEF PoolTypeOK

LEMMA StepUsesSemaphore ==
  ASSUME PoolTypeOK, [PoolNext]_programVars
  PROVE  [SemaphoreNext]_<<counter, thread>>
<1>1. CASE MainSpawns
  BY <1>1, SpawnedIsWorker DEF MainSpawns, SemaphoreNext
<1>2. CASE MainOpens \/ MainLoads \/ LoadThrows \/ MainJoins
  BY <1>2 DEF MainOpens, MainLoads, LoadThrows, MainJoins
<1>3. ASSUME NEW w \in Workers, WorkerStep(w) \/ WakesUp(w)
      PROVE  [SemaphoreNext]_<<counter, thread>>
  <2>1. CASE SemaphoreStep(w)
    BY <2>1 DEF SemaphoreStep, SemaphoreNext
  <2>2. CASE WakesUp(w)
    BY <2>2 DEF WakesUp, SemaphoreNext
  <2>3. CASE WorkerSkips(w) \/ WorkerWrites(w) \/ WorkerWrote(w)
    BY <2>3 DEF WorkerSkips, WorkerWrites, WorkerWrote
  <2> QED BY <1>3, <2>1, <2>2, <2>3 DEF WorkerStep
<1>4. CASE Restart
  BY <1>4 DEF Restart, SemaphoreNext
<1>5. CASE UNCHANGED programVars
  BY <1>5 DEF programVars
<1> QED BY <1>1, <1>2, <1>3, <1>4, <1>5 DEF PoolNext, MainStep

LEMMA InitPoolTyped == PoolInit => PoolTyped
<1> SUFFICES ASSUME PoolInit PROVE PoolTyped
  OBVIOUS
<1>1. SemaphoreInv
  BY InitSemaphoreInv DEF PoolInit
<1>2. FileTypeOK
  <2>1. \A S : <<>> \in Seq(S)
    OBVIOUS
  <2> QED BY <2>1 DEF PoolInit, FileInit, FileTypeOK
<1>3. /\ low_memory \in BOOLEAN
      /\ unloadable \subseteq 1 .. D
      /\ main \in {"open", "load", "spawn", "join"} \cup Ended
      /\ d \in 1 .. D /\ f \in 1 .. F
      /\ combo \in [Workers -> 1 .. (C + 1)]
      /\ session \in 1 .. Sessions
  BY PoolAssumption DEF PoolInit
<1> QED BY <1>1, <1>2, <1>3 DEF PoolTyped, SemaphoreInv, PoolTypeOK

\* A worker's row is one of the run's.
LEMMA RowTyped ==
  ASSUME PoolTypeOK, NEW w \in Workers, combo[w] <= C
  PROVE  Row(w) \in Rows /\ Row(w) # NoWriter
BY PoolAssumption DEF PoolTypeOK, Row

LEMMA NextPoolTyped ==
  ASSUME PoolTyped, LinesBegun, RowsOnce, [PoolNext]_programVars
  PROVE  PoolTyped'
<1> USE PoolAssumption
<1>1. PoolTypeOK /\ FileTypeOK
  BY DEF PoolTyped, PoolTypeOK
<1>2. SemaphoreInv' /\ SemaphoreTypeOK'
  BY <1>1, StepUsesSemaphore, NextSemaphoreInv DEF PoolTyped, SemaphoreInv
<1>3. CASE MainOpens
  <2>1. Indexed \subseteq Rows
    BY <1>1, IndexedAreRows
  <2>2. FileTypeOK'
    BY <1>1, <1>3, <2>1
       DEF MainOpens, OpenFile, RefuseFile, fileVars, FileTypeOK
  <2> QED BY <1>1, <1>2, <1>3, <2>2 DEF MainOpens, PoolTyped, PoolTypeOK, Ended
<1>4. CASE MainLoads \/ LoadThrows \/ MainSpawns \/ MainJoins
  <2>1. UNCHANGED <<fileVars, low_memory, unloadable, combo, session>>
    BY <1>4 DEF MainLoads, LoadThrows, MainSpawns, MainJoins
  <2>2. FileTypeOK'
    BY <1>1, <2>1 DEF fileVars, FileTypeOK
  <2>3. /\ main' \in {"open", "load", "spawn", "join"} \cup Ended
        /\ d' \in 1 .. D /\ f' \in 1 .. F
    BY <1>1, <1>4 DEF MainLoads, LoadThrows, MainSpawns, MainJoins,
                      NextDataset, PoolTypeOK, Ended
  <2> QED BY <1>1, <1>2, <2>1, <2>2, <2>3 DEF PoolTyped, PoolTypeOK
<1>5. ASSUME NEW w \in Workers, WorkerSkips(w)
      PROVE  PoolTyped'
  <2>1. FileTypeOK'
    BY <1>1, <1>5 DEF WorkerSkips, fileVars, FileTypeOK
  <2>2. combo' \in [Workers -> 1 .. (C + 1)]
    BY <1>1, <1>5 DEF WorkerSkips, Running, NextCombo, PoolTypeOK
  <2> QED BY <1>1, <1>2, <1>5, <2>1, <2>2 DEF WorkerSkips, PoolTyped, PoolTypeOK
<1>6. ASSUME NEW w \in Workers, WorkerWrites(w)
      PROVE  PoolTyped'
  <2>1. Row(w) \in Rows
    BY <1>1, <1>6, RowTyped DEF WorkerWrites, Running
  <2>2. FileTypeOK'
    BY <1>1, <1>6, <2>1 DEF WorkerWrites, BeginRow, FileTypeOK
  <2> QED
    BY <1>1, <1>2, <1>6, <2>2 DEF WorkerWrites, poolVars, PoolTyped, PoolTypeOK
<1>7. ASSUME NEW w \in Workers, WorkerWrote(w)
      PROVE  PoolTyped'
  <2>1. Row(w) \in Rows
    BY <1>1, <1>7, RowTyped DEF WorkerWrote, Running
  <2>2. lines' \in Seq(Seq(Pieces))
    <3>1. Piece(Row(w), "whole") \in Pieces
      BY <2>1 DEF Piece, Pieces
    <3> QED BY <1>1, <1>7, <3>1, AppendedLines DEF WorkerWrote, EndRow
  <2>3. FileTypeOK'
    BY <1>1, <1>7, <2>2 DEF WorkerWrote, EndRow, FileTypeOK
  <2>4. combo' \in [Workers -> 1 .. (C + 1)]
    BY <1>1, <1>7 DEF WorkerWrote, Running, NextCombo, PoolTypeOK
  <2> QED BY <1>1, <1>2, <1>7, <2>3, <2>4 DEF WorkerWrote, PoolTyped, PoolTypeOK
<1>8. ASSUME NEW w \in Workers, SemaphoreStep(w) \/ WakesUp(w)
      PROVE  PoolTyped'
  <2>1. UNCHANGED <<fileVars, poolVars>>
    BY <1>8 DEF SemaphoreStep, WakesUp
  <2>2. FileTypeOK'
    BY <1>1, <2>1 DEF fileVars, FileTypeOK
  <2> QED BY <1>1, <1>2, <2>1, <2>2 DEF poolVars, PoolTyped, PoolTypeOK
<1>9. CASE Restart
  <2>1. FileTypeOK'
    <3>1. CASE FileClosed \/ HeaderTorn
      BY <1>1, <3>1 DEF FileClosed, HeaderTorn, FileTypeOK
    <3>2. CASE RowTorn
      <4>1. PICK cut \in {"early", "late"} : lines' = Appended(Piece(writing, cut))
        BY <3>2 DEF RowTorn
      <4>2. Piece(writing, cut) \in Pieces
        BY <1>1, <3>2 DEF RowTorn, FileTypeOK, Piece, Pieces
      <4>3. lines' \in Seq(Seq(Pieces))
        BY <1>1, <4>1, <4>2, AppendedLines
      <4> QED BY <1>1, <3>2, <4>3 DEF RowTorn, FileTypeOK
    <3> QED BY <1>9, <3>1, <3>2 DEF Restart
  <2>2. /\ low_memory' \in BOOLEAN
        /\ unloadable' \subseteq 1 .. D
        /\ main' = "open" /\ d' \in 1 .. D /\ f' \in 1 .. F
        /\ combo' \in [Workers -> 1 .. (C + 1)]
        /\ session' \in 1 .. Sessions
    BY <1>1, <1>9 DEF Restart, PoolTypeOK
  <2> QED BY <1>2, <2>1, <2>2 DEF PoolTyped, PoolTypeOK
<1>10. CASE UNCHANGED programVars
  <2>1. FileTypeOK'
    BY <1>1, <1>10 DEF programVars, FileTypeOK
  <2> QED BY <1>1, <1>2, <1>10, <2>1 DEF programVars, PoolTyped, PoolTypeOK
<1> QED
  BY <1>3, <1>4, <1>5, <1>6, <1>7, <1>8, <1>9, <1>10
     DEF PoolNext, MainStep, WorkerStep

-----------------------------------------------------------------------------
(* No measurement twice.  Only WorkerWrote and a restart that tears a row   *)
(* append to the file, both the row under way; it is in the file at most if *)
(* it was there when the file was opened, or its thread has gone past it.   *)

PoolInvariant == PoolTyped /\ PoolInv

LEMMA InitPoolInvariant == PoolInit => PoolInvariant
<1> SUFFICES ASSUME PoolInit PROVE PoolInvariant
  OBVIOUS
<1>1. PoolTyped
  BY InitPoolTyped
<1>2. lines = <<>> /\ writing = NoWriter /\ main = "open" /\ DOMAIN lines = {}
  BY DEF PoolInit, FileInit
<1>3. Threads("unborn") = Workers
  BY DEF PoolInit, SemaphoreInit, Threads
<1> QED
  BY <1>1, <1>2, <1>3
     DEF PoolInvariant, PoolTyped, PoolInv, LinesBegun, RowsOnce, FreshAtOpen,
         FileAccountedFor, WriterAtRow

LEMMA RowAccountedFor ==
  ASSUME FileAccountedFor, main \notin Ended, main # "open", NEW r \in Indexed
  PROVE  exists(r) \/ r[2] < combo[r[1]]
<1>1. main \notin Ended \cup {"open"}
  OBVIOUS
<1> QED BY <1>1 DEF FileAccountedFor

LEMMA RowParts ==
  ASSUME NEW r \in Rows
  PROVE  r[1] \in Workers /\ r[2] \in Nat
BY PoolAssumption

\* A thread that goes on to its next measurement leaves the file accounted for.
LEMMA StillAccountedFor ==
  ASSUME PoolTypeOK, FileAccountedFor, LinesBegun, main \notin Ended, main # "open",
         NEW w \in Workers, combo' = [combo EXCEPT ![w] = @ + 1],
         NEW r \in Indexed
  PROVE  exists(r) \/ r[2] < combo'[r[1]]
<1>1. r \in Rows
  BY IndexedAreRows DEF PoolTypeOK
<1>2. PICK v \in Workers, c \in Nat : v = r[1] /\ c = r[2]
  BY <1>1, RowParts
<1>3. exists(r) \/ c < combo[v]
  BY <1>2, RowAccountedFor
<1>4. combo[v] \in Nat /\ combo'[v] \in Nat /\ combo'[v] >= combo[v]
  BY PoolAssumption DEF PoolTypeOK
<1>5. ASSUME c < combo[v] PROVE c < combo'[v]
  BY <1>4, <1>5
<1> QED BY <1>2, <1>3, <1>5

\* The row under way is not read from the file.
LEMMA WrittenIsNew ==
  ASSUME PoolInvariant, writing # NoWriter, main \notin Ended
  PROVE  writing \in Rows /\ writing \notin Indexed
<1>1. main # "open"
  BY DEF PoolInvariant, PoolInv, FreshAtOpen
<1>2. PICK w \in Workers : /\ combo[w] <= C /\ writing = Row(w)
                           /\ ~exists(Row(w))
  BY DEF PoolInvariant, PoolInv, WriterAtRow
<1>3. writing \in Rows
  BY <1>2, RowTyped DEF PoolInvariant, PoolInv
<1>4. writing[1] = w /\ writing[2] = combo[w] /\ combo[w] \in Nat
  BY <1>2 DEF Row, PoolInvariant, PoolInv, PoolTypeOK
<1>5. writing \notin Indexed
  <2> SUFFICES ASSUME writing \in Indexed PROVE FALSE
    OBVIOUS
  <2>1. exists(writing) \/ writing[2] < combo[writing[1]]
    BY <1>1, RowAccountedFor DEF PoolInvariant, PoolInv
  <2>2. ~exists(writing)
    BY <1>2 DEF exists
  <2>3. combo[w] < combo[w]
    BY <1>4, <2>1, <2>2
  <2> QED BY <1>4, <2>3
<1> QED BY <1>3, <1>5

\* The parts of the invariant about the file alone.
FileParts == LinesBegun /\ RowsOnce

LEMMA SameLines ==
  ASSUME FileParts, lines' = lines
  PROVE  FileParts' /\ Indexed' = Indexed
BY DEF FileParts, LinesBegun, RowsOnce, Indexed

LEMMA NextFileParts ==
  ASSUME PoolInvariant, [PoolNext]_programVars
  PROVE  FileParts'
<1>1. FileTypeOK /\ FileParts
  BY DEF PoolInvariant, PoolInv, PoolTypeOK, FileParts
<1>2. ASSUME lines' = lines PROVE FileParts'
  BY <1>1, <1>2, SameLines
<1>3. ASSUME NEW w \in Workers, WorkerWrote(w)
      PROVE  FileParts'
  <2>1. /\ writing = Row(w) /\ main \notin Ended /\ combo[w] <= C
        /\ lines' = Appended(Piece(Row(w), "whole"))
    BY <1>3 DEF WorkerWrote, Running, EndRow
  <2>2. Row(w) \in Rows /\ Row(w) \notin Indexed
    BY <2>1, RowTyped, WrittenIsNew DEF PoolInvariant, PoolInv
  <2> QED BY <1>1, <2>1, <2>2, AppendedRow DEF FileParts
<1>4. CASE Restart
  <2>1. CASE main \notin Ended /\ RowTorn
    <3>1. PICK cut \in {"early", "late"} :
            writing # NoWriter /\ lines' = Appended(Piece(writing, cut))
      BY <2>1 DEF RowTorn
    <3> QED BY <1>1, <2>1, <3>1, WrittenIsNew, AppendedRow DEF FileParts
  <2>2. CASE FileClosed \/ HeaderTorn
    BY <1>2, <2>2 DEF FileClosed, HeaderTorn
  <2> QED BY <1>4, <2>1, <2>2 DEF Restart
<1>5. CASE MainOpens
  BY <1>2, <1>5 DEF MainOpens, OpenFile, RefuseFile, fileVars
<1>6. CASE MainLoads \/ LoadThrows \/ MainSpawns \/ MainJoins
  BY <1>2, <1>6 DEF MainLoads, LoadThrows, MainSpawns, MainJoins, fileVars
<1>7. ASSUME NEW w \in Workers,
             WorkerSkips(w) \/ WorkerWrites(w) \/ SemaphoreStep(w) \/ WakesUp(w)
      PROVE  FileParts'
  BY <1>2, <1>7
     DEF WorkerSkips, WorkerWrites, BeginRow, SemaphoreStep, WakesUp, fileVars
<1>8. CASE UNCHANGED programVars
  BY <1>2, <1>8 DEF programVars
<1> QED
  BY <1>3, <1>4, <1>5, <1>6, <1>7, <1>8 DEF PoolNext, MainStep, WorkerStep

\* The parts about the threads and the file.
WorkParts == FreshAtOpen /\ FileAccountedFor /\ WriterAtRow

LEMMA NextWorkParts ==
  ASSUME PoolInvariant, [PoolNext]_programVars
  PROVE  WorkParts'
<1> USE PoolAssumption
<1>1. /\ PoolTypeOK /\ FileTypeOK /\ FileParts /\ WorkParts
      /\ thread \in [Workers -> Statuses]
      /\ combo \in [Workers -> 1 .. (C + 1)]
  BY DEF PoolInvariant, PoolInv, PoolTypeOK, SemaphoreTypeOK, FileParts, WorkParts
<1>2. CASE MainOpens
  <2>1. lines' = lines /\ writing' = writing /\ writing = NoWriter
    BY <1>1, <1>2 DEF MainOpens, OpenFile, RefuseFile, fileVars,
                      WorkParts, FreshAtOpen
  <2>2. Indexed' = Indexed
    BY <1>1, <2>1, SameLines
  <2>3. CASE OpenFile /\ main' = "load"
    <3>1. existing' = Indexed'
      BY <2>2, <2>3 DEF OpenFile
    <3>2. FileAccountedFor'
      BY <3>1 DEF FileAccountedFor, exists
    <3> QED
      BY <2>1, <2>3, <3>2 DEF WorkParts, FreshAtOpen, WriterAtRow
  <2>4. CASE main' = "failed"
    BY <2>4 DEF WorkParts, FreshAtOpen, FileAccountedFor, WriterAtRow, Ended
  <2> QED BY <1>2, <2>3, <2>4 DEF MainOpens
<1>3. CASE MainLoads \/ LoadThrows \/ MainSpawns \/ MainJoins
  <2>1. /\ UNCHANGED <<lines, existing, writing, combo>>
        /\ main' # "open" /\ main \notin Ended \cup {"open"}
        /\ \A w \in Workers : thread[w] = "holding" => thread'[w] = "holding"
    <3>1. UNCHANGED <<lines, existing, writing, combo>>
      BY <1>3 DEF MainLoads, LoadThrows, MainSpawns, MainJoins, fileVars
    <3>2. main' # "open" /\ main \notin Ended \cup {"open"}
      BY <1>1, <1>3 DEF MainLoads, LoadThrows, MainSpawns, MainJoins,
                        NextDataset, Ended
    <3>3. \A w \in Workers : thread[w] = "holding" => thread'[w] = "holding"
      <4>1. CASE MainSpawns
        BY <1>1, <4>1 DEF MainSpawns, Spawn
      <4>2. CASE MainLoads \/ LoadThrows \/ MainJoins
        BY <4>2 DEF MainLoads, LoadThrows, MainJoins
      <4> QED BY <1>3, <4>1, <4>2
    <3> QED BY <3>1, <3>2, <3>3
  <2>2. Indexed' = Indexed
    BY <1>1, <2>1, SameLines
  <2>3. FileAccountedFor'
    BY <1>1, <2>1, <2>2 DEF WorkParts, FileAccountedFor, exists
  <2>4. WriterAtRow'
    BY <1>1, <2>1 DEF WorkParts, WriterAtRow, Row, exists
  <2> QED BY <2>1, <2>3, <2>4 DEF WorkParts, FreshAtOpen
<1>4. ASSUME NEW w \in Workers, WorkerSkips(w) PROVE WorkParts'
  <2>1. /\ UNCHANGED <<lines, existing, writing, thread, main>>
        /\ main # "open" /\ main \notin Ended
        /\ combo' = [combo EXCEPT ![w] = @ + 1] /\ exists(Row(w))
    BY <1>1, <1>4 DEF WorkerSkips, Running, NextCombo, fileVars, Threads,
                      WorkParts, FreshAtOpen
  <2>2. Indexed' = Indexed
    BY <1>1, <2>1, SameLines
  <2>4. FileAccountedFor'
    <3>1. \A r \in Indexed : exists(r) \/ r[2] < combo'[r[1]]
      BY <1>1, <2>1, StillAccountedFor DEF FileParts, WorkParts
    <3> QED BY <2>1, <2>2, <3>1 DEF FileAccountedFor, exists
  <2>5. WriterAtRow'
    <3> SUFFICES ASSUME writing # NoWriter
                 PROVE  \E v \in Workers :
                          /\ thread'[v] = "holding" /\ combo'[v] <= C
                          /\ writing' = Row(v)' /\ ~exists(Row(v))'
      BY <2>1 DEF WriterAtRow
    <3>1. PICK v \in Workers : /\ thread[v] = "holding" /\ combo[v] <= C
                               /\ writing = Row(v) /\ ~exists(Row(v))
      BY <1>1, <2>1 DEF WorkParts, WriterAtRow
    <3>2. v # w
      BY <2>1, <3>1
    <3>3. combo'[v] = combo[v] /\ Row(v)' = Row(v)
      BY <1>1, <2>1, <3>2 DEF Row
    <3> QED BY <2>1, <3>1, <3>3 DEF exists
  <2> QED BY <2>1, <2>4, <2>5 DEF WorkParts, FreshAtOpen
<1>5. ASSUME NEW w \in Workers, WorkerWrites(w) PROVE WorkParts'
  <2>1. /\ UNCHANGED <<lines, existing, thread, main, combo>>
        /\ main # "open" /\ writing' = Row(w) /\ ~exists(Row(w))
        /\ thread[w] = "holding" /\ combo[w] <= C
    BY <1>1, <1>5 DEF WorkerWrites, BeginRow, Running, poolVars, Threads,
                      WorkParts, FreshAtOpen
  <2>2. Indexed' = Indexed
    BY <1>1, <2>1, SameLines
  <2>3. FileAccountedFor'
    BY <1>1, <2>1, <2>2 DEF WorkParts, FileAccountedFor, exists
  <2>4. WriterAtRow'
    BY <2>1 DEF WriterAtRow, Row, exists
  <2> QED BY <2>1, <2>3, <2>4 DEF WorkParts, FreshAtOpen
<1>6. ASSUME NEW w \in Workers, WorkerWrote(w) PROVE WorkParts'
  <2>1. /\ UNCHANGED <<existing, thread, main>>
        /\ main # "open" /\ main \notin Ended
        /\ combo' = [combo EXCEPT ![w] = @ + 1] /\ combo[w] <= C
        /\ writing = Row(w) /\ writing' = NoWriter
        /\ lines' = Appended(Piece(Row(w), "whole"))
    BY <1>1, <1>6 DEF WorkerWrote, Running, NextCombo, EndRow, Threads,
                      WorkParts, FreshAtOpen
  <2>2. Row(w) \in Rows /\ Row(w) \notin Indexed
    BY <1>1, <2>1, RowTyped, WrittenIsNew
  <2>3. Indexed' \subseteq Indexed \cup {Row(w)}
    BY <1>1, <2>1, <2>2, AppendedRow DEF FileParts
  <2>5. FileAccountedFor'
    <3>2. \A r \in Indexed : exists(r) \/ r[2] < combo'[r[1]]
      BY <1>1, <2>1, StillAccountedFor DEF FileParts, WorkParts
    <3>3. Row(w)[2] < combo'[Row(w)[1]]
      BY <1>1, <2>1 DEF Row
    <3> QED BY <2>1, <2>3, <3>2, <3>3 DEF FileAccountedFor, exists
  <2>6. WriterAtRow'
    BY <2>1 DEF WriterAtRow
  <2> QED BY <2>1, <2>5, <2>6 DEF WorkParts, FreshAtOpen
<1>7. ASSUME NEW w \in Workers, SemaphoreStep(w) \/ WakesUp(w)
      PROVE  WorkParts'
  <2>1. UNCHANGED <<lines, existing, writing, main, combo>>
    BY <1>7 DEF SemaphoreStep, WakesUp, fileVars, poolVars
  <2>2. thread[w] # "unborn"
    BY <1>7 DEF SemaphoreStep, WakesUp, Aquire, Block, Release, SpuriousWake,
                AtTest
  <2>3. main # "open"
    BY <1>1, <2>2 DEF WorkParts, FreshAtOpen, Threads
  <2>4. \A v \in Workers : thread[v] = "holding" /\ combo[v] <= C
                             => thread'[v] = "holding"
    <3>1. CASE Aquire(w) \/ Block(w) \/ SpuriousWake(w)
      BY <1>1, <3>1 DEF Aquire, Block, SpuriousWake, AtTest
    <3>2. CASE combo[w] = C + 1 /\ Release(w)
      <4>1. ASSUME NEW v \in Workers, thread[v] = "holding", combo[v] <= C
            PROVE  thread'[v] = "holding"
        <5>1. v # w /\ v \notin Threads("waiting")
          BY <3>2, <4>1 DEF Threads
        <5> QED BY <1>1, <3>2, <4>1, <5>1 DEF Release, Notified
      <4> QED BY <4>1
    <3> QED BY <1>7, <3>1, <3>2 DEF SemaphoreStep, WakesUp
  <2>5. Indexed' = Indexed
    BY <1>1, <2>1, SameLines
  <2>6. FileAccountedFor'
    BY <1>1, <2>1, <2>5 DEF WorkParts, FileAccountedFor, exists
  <2>7. WriterAtRow'
    BY <1>1, <2>1, <2>4 DEF WorkParts, WriterAtRow, Row, exists
  <2> QED BY <2>1, <2>3, <2>6, <2>7 DEF WorkParts, FreshAtOpen
<1>8. CASE Restart
  <2>1. main' = "open" /\ writing' = NoWriter
    BY <1>8 DEF Restart, FileClosed, HeaderTorn, RowTorn
  <2>2. Threads("unborn")' = Workers
    BY <1>8 DEF Restart, SemaphoreRestart, Threads
  <2> QED
    BY <2>1, <2>2 DEF WorkParts, FreshAtOpen, FileAccountedFor, WriterAtRow
<1>9. CASE UNCHANGED programVars
  <2>1. UNCHANGED <<lines, existing, writing, main, combo, thread>>
    BY <1>9 DEF programVars
  <2>2. Indexed' = Indexed
    BY <1>1, <2>1, SameLines
  <2> QED
    BY <1>1, <2>1, <2>2 DEF WorkParts, FreshAtOpen, FileAccountedFor,
       WriterAtRow, Threads, Row, exists
<1> QED
  BY <1>2, <1>3, <1>4, <1>5, <1>6, <1>7, <1>8, <1>9
     DEF PoolNext, MainStep, WorkerStep

LEMMA NextPoolInvariant == PoolInvariant /\ [PoolNext]_programVars => PoolInvariant'
<1> SUFFICES ASSUME PoolInvariant, [PoolNext]_programVars PROVE PoolInvariant'
  OBVIOUS
<1>1. PoolTyped'
  BY NextPoolTyped DEF PoolInvariant, PoolInv
<1> QED
  BY <1>1, NextFileParts, NextWorkParts
     DEF PoolInvariant, PoolInv, PoolTyped, FileParts, WorkParts

-----------------------------------------------------------------------------
(* No measurement left out.  A thread goes past a measurement when its row   *)
(* is in the file, and main ends well after every thread has ended.          *)

InFile(r) ==
  \E n \in DOMAIN lines : \E i \in DOMAIN lines[n] :
    lines[n][i].row = r /\ lines[n][i].cut # "early"

CutHasLine == cut_line => lines # <<>>

PassedInFile ==
  /\ \A r \in existing : InFile(r)
  /\ \A w \in Workers, c \in 1 .. C : c < combo[w] => InFile(<<w, c>>)

\* The threads main has been past in its loops.
Before(w) ==
  \/ w[1] < d
  \/ main = "spawn" /\ w[1] = d /\ w[2] < f
  \/ main = "join" /\ w[1] = d

ThreadsCover ==
  /\ main = "open" => d = 1
  /\ \A w \in Workers : thread[w] = "finished" => combo[w] = C + 1
  /\ main \in {"load", "spawn", "join"} =>
       \A w \in Workers : Before(w) => thread[w] # "unborn"
  /\ main = "done" => \A w \in Workers : thread[w] = "finished"

CoverInv == CutHasLine /\ PassedInFile /\ ThreadsCover

\* Appending a piece keeps what is in the file and adds the piece.
LEMMA AppendedHas ==
  ASSUME FileTypeOK, CutHasLine, NEW p \in Pieces, lines' = Appended(p)
  PROVE  /\ lines' # <<>>
         /\ \A r : InFile(r) => InFile(r)'
         /\ p.cut # "early" => InFile(p.row)'
<1>0. /\ lines \in Seq(Seq(Pieces)) /\ Len(lines) \in Nat
      /\ DOMAIN lines = 1 .. Len(lines)
      /\ \A n \in DOMAIN lines : lines[n] \in Seq(Pieces)
  BY DEF FileTypeOK
\* The line the piece goes to, and its place there.
<1>1. \E m, k : /\ m \in DOMAIN lines' /\ DOMAIN lines \subseteq DOMAIN lines'
                /\ k \in DOMAIN lines'[m] /\ lines'[m][k] = p
                /\ \A n \in DOMAIN lines :
                     /\ DOMAIN lines[n] \subseteq DOMAIN lines'[n]
                     /\ \A i \in DOMAIN lines[n] : lines'[n][i] = lines[n][i]
  <2>1. CASE cut_line
    <3> DEFINE m == Len(lines)
               old == lines[m]
               k == Len(old) + 1
    <3>1. m \in DOMAIN lines /\ lines' = [lines EXCEPT ![m] = Append(old, p)]
      BY <1>0, <2>1 DEF Appended, CutHasLine
    <3>2. old \in Seq(Pieces)
      BY <1>0, <3>1
    <3>3. /\ k \in DOMAIN Append(old, p) /\ Append(old, p)[k] = p
          /\ DOMAIN old \subseteq DOMAIN Append(old, p)
          /\ \A i \in DOMAIN old : Append(old, p)[i] = old[i]
      <4> HIDE DEF old
      <4> QED BY <3>2 DEF k
    <3>4. /\ DOMAIN lines' = DOMAIN lines /\ lines'[m] = Append(old, p)
          /\ \A n \in DOMAIN lines : n # m => lines'[n] = lines[n]
      BY <1>0, <3>1
    <3> HIDE DEF m, k
    <3> QED BY <3>1, <3>3, <3>4 DEF old
  <2>2. CASE ~cut_line
    <3> DEFINE m == Len(lines) + 1
    <3>1. lines' = Append(lines, <<p>>)
      BY <2>2 DEF Appended
    <3>2. <<p>> \in Seq(Pieces) /\ 1 \in DOMAIN <<p>> /\ <<p>>[1] = p
      OBVIOUS
    <3>3. /\ m \in DOMAIN lines' /\ DOMAIN lines \subseteq DOMAIN lines'
          /\ lines'[m] = <<p>>
          /\ \A n \in DOMAIN lines : lines'[n] = lines[n]
      BY <1>0, <3>1, <3>2
    <3> HIDE DEF m
    <3> QED BY <3>2, <3>3
  <2> QED BY <2>1, <2>2
<1>2. \A r : InFile(r) => InFile(r)'
  BY <1>1 DEF InFile
<1>3. p.cut # "early" => InFile(p.row)'
  BY <1>1 DEF InFile
<1>4. lines' # <<>>
  BY <1>1
<1> QED BY <1>2, <1>3, <1>4

\* What is indexed is in the file.
LEMMA IndexedInFile ==
  ASSUME FileTypeOK, LinesBegun, NEW r \in Indexed
  PROVE  InFile(r)
<1>1. PICK n \in DOMAIN lines : r \in ReadAs(lines[n])
  BY DEF Indexed
<1>2. lines[n] \in Seq(Pieces) /\ lines[n] # <<>>
  BY <1>1 DEF FileTypeOK, LinesBegun
<1>3. 1 \in DOMAIN lines[n]
  BY <1>2
<1>4. lines[n][1].cut # "early" /\ lines[n][1].row = r
  BY <1>1 DEF ReadAs
<1> QED BY <1>3, <1>4 DEF InFile

LEMMA InitCoverInv == PoolInit => CoverInv
<1> SUFFICES ASSUME PoolInit PROVE CoverInv
  OBVIOUS
<1>1. /\ cut_line = FALSE /\ existing = {} /\ main = "open" /\ d = 1
      /\ \A w \in Workers : combo[w] = 1 /\ thread[w] = "unborn"
  BY DEF PoolInit, FileInit, SemaphoreInit
<1>2. PassedInFile
  BY <1>1 DEF PassedInFile
<1> QED BY <1>1, <1>2 DEF CoverInv, CutHasLine, ThreadsCover

LEMMA NextFileCovers ==
  ASSUME PoolInvariant, CoverInv, [PoolNext]_programVars
  PROVE  CutHasLine' /\ PassedInFile'
<1> USE PoolAssumption
<1>1. /\ PoolTypeOK /\ FileTypeOK /\ LinesBegun /\ CutHasLine /\ PassedInFile
      /\ combo \in [Workers -> 1 .. (C + 1)]
  BY DEF PoolInvariant, PoolInv, PoolTypeOK, CoverInv
<1>2. ASSUME lines' = lines PROVE \A r : InFile(r)' <=> InFile(r)
  BY <1>2 DEF InFile
<1>3. ASSUME UNCHANGED <<lines, cut_line, existing, combo>>
      PROVE  CutHasLine' /\ PassedInFile'
  BY <1>1, <1>2, <1>3 DEF CutHasLine, PassedInFile
\* A thread goes on when its row is in the file.
<1>4. ASSUME NEW w \in Workers, NextCombo(w), existing' = existing,
             \A r : InFile(r) => InFile(r)',
             NEW own, own = Row(w), InFile(own)'
      PROVE  PassedInFile'
  <2>1. ASSUME NEW v \in Workers, NEW c \in 1 .. C, c < combo'[v]
        PROVE  InFile(<<v, c>>)'
    <3>1. combo[v] \in Nat /\ combo'[v] = IF v = w THEN combo[v] + 1 ELSE combo[v]
      BY <1>1, <1>4 DEF NextCombo
    <3>2. c < combo[v] \/ <<v, c>> = own
      BY <1>4, <2>1, <3>1 DEF Row
    <3>3. CASE c < combo[v]
      <4>1. InFile(<<v, c>>)
        BY <1>1, <3>3 DEF PassedInFile
      <4> QED BY <1>4, <4>1
    <3>4. CASE <<v, c>> = own
      BY <1>4, <3>4
    <3> QED BY <3>2, <3>3, <3>4
  <2>2. \A r \in existing' : InFile(r)'
    BY <1>1, <1>4 DEF PassedInFile
  <2> QED BY <2>1, <2>2 DEF PassedInFile
<1>5. ASSUME NEW w \in Workers, WorkerSkips(w)
      PROVE  CutHasLine' /\ PassedInFile'
  <2>1. /\ UNCHANGED <<lines, cut_line, existing>> /\ NextCombo(w)
        /\ InFile(Row(w))
    BY <1>1, <1>5 DEF WorkerSkips, Running, fileVars, exists, PassedInFile
  <2>2. PICK own : own = Row(w)
    OBVIOUS
  <2>3. InFile(own)'
    BY <1>2, <2>1, <2>2
  <2>4. PassedInFile'
    BY <1>2, <1>4, <2>1, <2>2, <2>3
  <2> QED BY <1>1, <2>1, <2>4 DEF CutHasLine
<1>6. ASSUME NEW w \in Workers, WorkerWrote(w)
      PROVE  CutHasLine' /\ PassedInFile'
  <2>1. PICK own, p : own = Row(w) /\ p = Piece(own, "whole")
    OBVIOUS
  <2>2. /\ lines' = Appended(p) /\ cut_line' = FALSE /\ existing' = existing
        /\ combo[w] <= C /\ NextCombo(w)
    BY <1>6, <2>1 DEF WorkerWrote, EndRow, Running
  <2>3. p \in Pieces /\ p.cut # "early" /\ p.row = own
    BY <1>1, <2>1, <2>2, RowTyped DEF Piece, Pieces
  <2>4. (\A r : InFile(r) => InFile(r)') /\ InFile(own)'
    BY <1>1, <2>2, <2>3, AppendedHas
  <2>5. PassedInFile'
    BY <1>4, <2>1, <2>2, <2>4
  <2> QED BY <2>2, <2>5 DEF CutHasLine
<1>7. CASE MainOpens
  <2>1. UNCHANGED <<lines, cut_line, combo>> /\ existing' \in {existing, Indexed}
    BY <1>7 DEF MainOpens, OpenFile, RefuseFile, fileVars
  <2>2. \A r \in existing' : InFile(r)
    BY <1>1, <2>1, IndexedInFile DEF PassedInFile
  <2> QED BY <1>1, <1>2, <2>1, <2>2 DEF PassedInFile, CutHasLine
<1>8. CASE Restart
  <2>1. existing' = {} /\ \A w \in Workers : combo'[w] = 1
    BY <1>8 DEF Restart, FileClosed, HeaderTorn, RowTorn
  <2>2. PassedInFile'
    BY <2>1 DEF PassedInFile
  <2>3. CASE FileClosed \/ HeaderTorn
    BY <1>1, <2>2, <2>3 DEF FileClosed, HeaderTorn, CutHasLine
  <2>4. CASE RowTorn
    <3>1. PICK cut \in {"early", "late"} : lines' = Appended(Piece(writing, cut))
      BY <2>4 DEF RowTorn
    <3>2. Piece(writing, cut) \in Pieces
      BY <1>1, <2>4 DEF RowTorn, FileTypeOK, Piece, Pieces
    <3>3. lines' # <<>>
      BY <1>1, <3>1, <3>2, AppendedHas
    <3> QED BY <2>2, <3>3 DEF CutHasLine
  <2> QED BY <1>8, <2>3, <2>4 DEF Restart
<1>9. CASE MainLoads \/ LoadThrows \/ MainSpawns \/ MainJoins
  BY <1>3, <1>9 DEF MainLoads, LoadThrows, MainSpawns, MainJoins, fileVars
<1>10. ASSUME NEW w \in Workers, WorkerWrites(w) \/ SemaphoreStep(w) \/ WakesUp(w)
       PROVE  CutHasLine' /\ PassedInFile'
  BY <1>3, <1>10
     DEF WorkerWrites, BeginRow, SemaphoreStep, WakesUp, fileVars, poolVars
<1>11. CASE UNCHANGED programVars
  BY <1>3, <1>11 DEF programVars
<1> QED
  BY <1>5, <1>6, <1>7, <1>8, <1>9, <1>10, <1>11 DEF PoolNext, MainStep, WorkerStep

LEMMA NextThreadsCover ==
  ASSUME PoolInvariant, CoverInv, [PoolNext]_programVars
  PROVE  ThreadsCover'
<1> USE PoolAssumption
<1>1. /\ PoolTypeOK /\ ThreadsCover /\ FreshAtOpen
      /\ thread \in [Workers -> Statuses] /\ combo \in [Workers -> 1 .. (C + 1)]
      /\ d \in 1 .. D /\ f \in 1 .. F
      /\ \A w \in Workers : w[1] \in 1 .. D /\ w[2] \in 1 .. F /\ w = <<w[1], w[2]>>
  BY DEF PoolInvariant, PoolInv, PoolTypeOK, SemaphoreTypeOK, CoverInv
<1>2. CASE MainOpens
  <2>1. UNCHANGED <<thread, combo, d>> /\ main' \in {"load", "failed"} /\ d = 1
    BY <1>1, <1>2 DEF MainOpens, ThreadsCover
  <2> QED BY <1>1, <2>1 DEF ThreadsCover, Before
<1>3. CASE MainLoads
  <2>1. UNCHANGED <<thread, combo, d>> /\ main = "load" /\ main' = "spawn" /\ f' = 1
    BY <1>3 DEF MainLoads
  <2>2. \A w \in Workers : Before(w)' => Before(w)
    BY <1>1, <2>1 DEF Before
  <2> QED BY <1>1, <2>1, <2>2 DEF ThreadsCover
<1>4. CASE LoadThrows
  <2>1. UNCHANGED <<thread, combo>> /\ main' \in {"failed", "terminated"}
    BY <1>4 DEF LoadThrows
  <2> QED BY <1>1, <2>1 DEF ThreadsCover
<1>5. CASE MainSpawns
  <2>1. /\ main = "spawn" /\ combo' = combo /\ thread[<<d, f>>] = "unborn"
        /\ thread' = [thread EXCEPT ![<<d, f>>] = "started"]
        /\ \/ f < F /\ f' = f + 1 /\ main' = main /\ d' = d
           \/ f = F /\ main' = "join" /\ d' = d
           \/ f = F /\ main' = "load" /\ d' = d + 1
    BY <1>1, <1>5 DEF MainSpawns, Spawn, NextDataset
  <2>2. \A w \in Workers :
          /\ thread[w] # "unborn" => thread'[w] # "unborn"
          /\ thread'[w] = "finished" => thread[w] = "finished"
          /\ w = <<d, f>> => thread'[w] # "unborn"
    BY <1>1, <2>1
  <2>3. \A w \in Workers : Before(w)' => Before(w) \/ w = <<d, f>>
    BY <1>1, <2>1 DEF Before
  <2> QED BY <1>1, <2>1, <2>2, <2>3 DEF ThreadsCover
<1>6. CASE MainJoins
  <2>1. /\ main = "join" /\ AllJoined /\ UNCHANGED <<thread, combo>>
        /\ \/ main' = "load" /\ d' = d + 1
           \/ main' = "done" /\ d = D
    BY <1>6 DEF MainJoins, NextDataset
  <2>2. \A w \in Workers : w[1] < d + 1 => Before(w)
    BY <1>1, <2>1 DEF Before
  <2>3. \A w \in Workers : w[1] < d + 1 => thread[w] # "unborn"
    BY <1>1, <2>1, <2>2 DEF ThreadsCover
  <2>4. d = D => \A w \in Workers : thread[w] = "finished"
    BY <1>1, <2>1, <2>3 DEF AllJoined, Threads
  <2> QED BY <1>1, <2>1, <2>3, <2>4 DEF ThreadsCover, Before
<1>7. ASSUME NEW w \in Workers, WorkerSkips(w) \/ WorkerWrote(w)
      PROVE  ThreadsCover'
  <2>1. /\ UNCHANGED <<thread, main, d, f>> /\ thread[w] = "holding"
        /\ combo' = [combo EXCEPT ![w] = @ + 1]
    BY <1>7 DEF WorkerSkips, WorkerWrote, Running, NextCombo
  <2>2. \A v \in Workers : thread[v] = "finished" => combo'[v] = combo[v]
    BY <1>1, <2>1
  <2>3. \A v \in Workers : Before(v)' <=> Before(v)
    BY <2>1 DEF Before
  <2> QED BY <1>1, <2>1, <2>2, <2>3 DEF ThreadsCover
<1>8. ASSUME UNCHANGED <<thread, main, d, f, combo>> PROVE ThreadsCover'
  BY <1>1, <1>8 DEF ThreadsCover, Before
<1>9. ASSUME NEW w \in Workers, WorkerWrites(w) PROVE ThreadsCover'
  BY <1>8, <1>9 DEF WorkerWrites, poolVars
<1>10. ASSUME NEW w \in Workers, SemaphoreStep(w) \/ WakesUp(w)
       PROVE  ThreadsCover'
  <2>1. UNCHANGED <<main, d, f, combo>> /\ main \notin Ended
    BY <1>10 DEF SemaphoreStep, WakesUp, poolVars
  <2>2. \A v \in Workers :
          /\ thread[v] # "unborn" => thread'[v] # "unborn"
          /\ thread'[v] = "finished" => thread[v] = "finished" \/ combo[v] = C + 1
    <3>1. CASE Aquire(w) \/ Block(w) \/ SpuriousWake(w)
      BY <1>1, <3>1 DEF Aquire, Block, SpuriousWake
    <3>2. CASE combo[w] = C + 1 /\ Release(w)
      BY <1>1, <3>2 DEF Release, Notified, Threads
    <3> QED BY <1>10, <3>1, <3>2 DEF SemaphoreStep, WakesUp
  <2>3. \A v \in Workers : Before(v)' <=> Before(v)
    BY <2>1 DEF Before
  <2> QED BY <1>1, <2>1, <2>2, <2>3 DEF ThreadsCover, Ended
<1>11. CASE Restart
  <2>1. main' = "open" /\ d' = 1 /\ \A w \in Workers : thread'[w] = "unborn"
    BY <1>11 DEF Restart, SemaphoreRestart
  <2> QED BY <2>1 DEF ThreadsCover
<1>12. CASE UNCHANGED programVars
  BY <1>8, <1>12 DEF programVars
<1> QED
  BY <1>2, <1>3, <1>4, <1>5, <1>6, <1>7, <1>9, <1>10, <1>11, <1>12
     DEF PoolNext, MainStep, WorkerStep

LEMMA NextCovers ==
  PoolInvariant /\ CoverInv /\ [PoolNext]_programVars => PoolInvariant' /\ CoverInv'
BY NextPoolInvariant, NextFileCovers, NextThreadsCover DEF CoverInv

LEMMA CoversAtEnd ==
  ASSUME PoolInvariant, CoverInv
  PROVE  RunCovers
<1> SUFFICES ASSUME main = "done", NEW r \in Rows PROVE InFile(r)
  BY DEF RunCovers, InFile
<1>1. PICK w \in Workers, c \in 1 .. C : r = <<w, c>>
  BY PoolAssumption
<1>2. c < combo[w]
  BY <1>1, PoolAssumption DEF CoverInv, ThreadsCover
<1> QED BY <1>1, <1>2 DEF CoverInv, PassedInFile

-----------------------------------------------------------------------------
\* Every variable of the pool keeps its type.
THEOREM PoolTypeCorrect == PoolSpec => []PoolTypeOK
<1>1. PoolInvariant => PoolTypeOK
  BY DEF PoolInvariant, PoolInv
<1> QED BY <1>1, InitPoolInvariant, NextPoolInvariant, PTL DEF PoolSpec

\* No measurement is read from two lines of the result file, however often the
\* program is stopped and started.
THEOREM AlwaysRowsOnce == PoolSpec => []RowsOnce
<1>1. PoolInvariant => RowsOnce
  BY DEF PoolInvariant, PoolInv
<1> QED BY <1>1, InitPoolInvariant, NextPoolInvariant, PTL DEF PoolSpec

\* A run that ends well (main of collisions_hash.cpp returns 0) has left no
\* measurement out, whichever earlier runs were stopped and wherever.
THEOREM AlwaysCovers == PoolSpec => []RunCovers
<1>1. PoolInit => PoolInvariant /\ CoverInv
  BY InitPoolInvariant, InitCoverInv
<1> QED BY <1>1, NextCovers, CoversAtEnd, PTL DEF PoolSpec

\* The threads of the pool use the semaphore as its specification says: what
\* holds of every behaviour of the semaphore holds in the pool.
THEOREM PoolUsesSemaphore == PoolSpec => SemaphoreSpec
<1>1. PoolInit => SemaphoreInit
  BY DEF PoolInit
<1>2. PoolInvariant => PoolTypeOK
  BY DEF PoolInvariant, PoolInv
<1>3. PoolTypeOK /\ [PoolNext]_programVars => [SemaphoreNext]_<<counter, thread>>
  BY StepUsesSemaphore
<1> QED
  BY <1>1, <1>2, <1>3, InitPoolInvariant, NextPoolInvariant, PTL
     DEF PoolSpec, SemaphoreSpec

\* So in the pool, too, permits are neither lost nor made.
COROLLARY PoolBalanced == PoolSpec => []PermitsBalanced
BY PoolUsesSemaphore, AlwaysBalanced, PTL

\* And no wakeup of a benchmark thread is lost.
COROLLARY PoolWakeups == PoolSpec => []NoLostWakeup
BY PoolUsesSemaphore, WakeupsArrive, PTL
=============================================================================
