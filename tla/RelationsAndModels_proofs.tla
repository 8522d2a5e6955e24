--------------------- MODULE RelationsAndModels_proofs ----------------------
(***************************************************************************)
(* Proofs about Relations, for every size of relation, block, page and     *)
(* number of threads, about LearnedModels, for every sorted sample of      *)
(* 64-bit keys, every error, radix and number of models, and about         *)
(* SampleTraining, for every relation and number of threads and runs.      *)
(*                                                                         *)
(* The relations.  An exchange keeps the tuples of its block (Whole), so   *)
(* that a key has a place in every block large enough for it and in no     *)
(* other one, and its copies are counted by counting blocks.               *)
(*                                                                         *)
(* The radix spline.  All slopes are compared by cross products.  The      *)
(* corridor from the last spline point stays within the limits of every    *)
(* key since (Corridor), so the line to a new point misses no key by more  *)
(* than the error (WithinError); the radix table holds how many points     *)
(* have a smaller prefix (Indexed), so that it encloses a key's segment.   *)
(*                                                                         *)
(* The RMI.  A bucket spans the keys the root predicts it for and begins   *)
(* at or behind every key of the buckets before (BucketInv), and so does   *)
(* its model, whose right end is the last key up to its bucket             *)
(* (TrainedInv); hence no model ends above the one behind it begins.       *)
(*                                                                         *)
(* The sample of the threads.  The barriers part the phases of a run       *)
(* (PhaseInv): while a thread samples, no other is between two runs, so    *)
(* that the clearing of the counts comes before the first tuple and their  *)
(* sum after the last (CountsInv).  Shares the parts fill exactly lie one  *)
(* behind the other (SharesLie), so what a thread stores is in no other's  *)
(* share (ShareInv) and every run trains the same model (OneModelInv).     *)
(***************************************************************************)
EXTENDS Relations, LearnedModels, SampleTraining, FiniteSetTheorems, SequenceTheorems,
        WellFoundedInduction, TLAPS

RelPcs == {"idle", "generate", "shuffle", "scan", "load", "done", "localize"}
RelValue == Nat \cup {UnsetKey}
RelTuple == [key : RelValue, payload : RelValue]

RelationTypes ==
  /\ relPc \in RelPcs
  /\ tuples \in Seq(RelTuple)
  /\ maxid \in Nat \ {0} /\ block \in Nat /\ place \in Nat
  /\ zeroed \in BOOLEAN /\ printable \in BOOLEAN
  /\ file \in Seq(RelTuple)
  /\ relPc \notin {"idle", "done"} => num_tuples > 0
  /\ relPc # "idle" => touched \in [1 .. LocalThreads -> BOOLEAN]

\* The tuple at a place of a block, counted from one.
BlockTuple(b, x) == tuples[BlockStart(b) + x]
BlockKey(b, x) == BlockTuple(b, x).key

\* The block has each of its keys once, with its payload.
Whole(b) ==
  /\ \A x \in 1 .. BlockSize(b) :
       /\ BlockKey(b, x) \in 1 .. BlockSize(b)
       /\ BlockTuple(b, x) = NewTuple(BlockKey(b, x))
  /\ \A x, y \in 1 .. BlockSize(b) : BlockKey(b, x) = BlockKey(b, y) => x = y
  /\ \A k \in 1 .. BlockSize(b) : \E x \in 1 .. BlockSize(b) : BlockKey(b, x) = k

\* The blocks before this one are finished.
Finished ==
  \A b \in 0 .. (block - 1) : BlockStart(b) < num_tuples /\ Whole(b)

\* All of the relation is generated.
Generated == Finished /\ BlockStart(block) >= num_tuples

RelationInv ==
  /\ relPc = "generate" => Finished
  /\ relPc = "shuffle" =>
       /\ Finished
       /\ BlockStart(block) < num_tuples /\ place < BlockSize(block)
       /\ Whole(block)
  /\ relPc = "scan" => Generated /\ file \in {tuples, <<>>}
  /\ relPc = "load" => Generated /\ file = tuples
  /\ relPc = "done" /\ file # <<>> =>
       \A i \in DOMAIN tuples : tuples[i] = file[IF i <= Len(file) THEN i ELSE Len(file)]
  /\ relPc = "localize" => file = <<>>
  /\ relPc \in {"localize", "done"} /\ file = <<>> =>
       \A t \in 1 .. LocalThreads : touched[t] => \A i \in PartOf(t) : tuples[i].key = 0
  /\ relPc = "done" /\ file = <<>> => \A t \in 1 .. LocalThreads : touched[t]

-----------------------------------------------------------------------------
\* Every variable keeps its type.
LEMMA TupleTypes ==
  ASSUME RelationTypes
  PROVE  /\ num_tuples \in Nat
         /\ DOMAIN tuples = 1 .. num_tuples
         /\ \A i \in 1 .. num_tuples : tuples[i] \in RelTuple
BY DEF RelationTypes, num_tuples

LEMMA RelationInitTypes == RelationInit \/ RelationIdle => RelationTypes
<1> USE RelationsAssumption
<1>1. RelationIdle => RelationTypes
  BY DEF RelationIdle, RelationTypes, RelPcs
<1>2. ASSUME RelationInit PROVE RelationTypes
  <2>1. PICK n \in RelationSizes : tuples = Unwritten(n)
    BY <1>2 DEF RelationInit
  <2>2. n \in Nat \ {0} /\ tuples \in Seq(RelTuple) /\ Len(tuples) = n
    BY <2>1 DEF Unwritten, RelTuple, RelValue
  <2> QED
    BY <1>2, <2>2 DEF RelationInit, RelationTypes, RelPcs, num_tuples
<1> QED
  BY <1>1, <1>2

\* A step that writes tuples in place.
LEMMA SameLength ==
  ASSUME RelationTypes, DOMAIN tuples' = DOMAIN tuples, tuples' = [i \in DOMAIN tuples' |-> tuples'[i]],
         \A i \in DOMAIN tuples : tuples'[i] \in RelTuple
  PROVE  tuples' \in Seq(RelTuple) /\ num_tuples' = num_tuples
BY DEF RelationTypes, num_tuples

LEMMA NewTupleTyped ==
  ASSUME NEW k \in Nat
  PROVE  NewTuple(k) \in RelTuple
BY DEF NewTuple, RelTuple, RelValue

LEMMA SmallerOf ==
  ASSUME NEW a \in Int, NEW b \in Int
  PROVE  Min({a, b}) = IF a <= b THEN a ELSE b
<1>1. Min({a, b}) \in {a, b} /\ \A y \in {a, b} : Min({a, b}) <= y
  <2>1. \E x \in {a, b} : \A y \in {a, b} : x <= y
    OBVIOUS
  <2> QED
    BY <2>1 DEF Min
<1> QED
  BY <1>1

-----------------------------------------------------------------------------
(* The blocks of a relation.                                               *)

LEMMA Starts ==
  ASSUME RelationTypes, NEW b \in Nat
  PROVE  /\ BlockStart(b) \in Nat
         /\ BlockStart(b + 1) = BlockStart(b) + maxid
         /\ b = 0 => BlockStart(b) = 0
BY DEF RelationTypes, BlockStart

LEMMA StartsGrow ==
  ASSUME RelationTypes, NEW b \in Nat, NEW c \in Nat, b < c
  PROVE  BlockStart(b) + maxid <= BlockStart(c)
<1> DEFINE d == c - (b + 1)
<1>1. d \in Nat /\ c = (b + 1) + d
  OBVIOUS
<1>2. maxid \in Nat /\ maxid * d \in Nat
  BY <1>1 DEF RelationTypes
<1> HIDE DEF d
<1>3. maxid * ((b + 1) + d) = maxid * b + maxid + maxid * d
  BY <1>1, <1>2
<1> QED
  BY <1>1, <1>2, <1>3, Starts DEF BlockStart

LEMMA Sizes ==
  ASSUME RelationTypes, NEW b \in Nat
  PROVE  /\ BlockSize(b) = IF maxid <= num_tuples - BlockStart(b)
                           THEN maxid ELSE num_tuples - BlockStart(b)
         /\ BlockSize(b) \in Int /\ BlockSize(b) <= maxid
         /\ BlockStart(b) < num_tuples => BlockSize(b) > 0
         /\ BlockStart(b) + BlockSize(b) <= num_tuples
<1>1. BlockStart(b) \in Nat /\ maxid \in Nat \ {0} /\ num_tuples \in Nat
  BY Starts, TupleTypes DEF RelationTypes
<1>2. Min({maxid, num_tuples - BlockStart(b)})
        = IF maxid <= num_tuples - BlockStart(b) THEN maxid ELSE num_tuples - BlockStart(b)
  BY <1>1, SmallerOf
<1> QED
  BY <1>1, <1>2 DEF BlockSize

\* The tuples of a block are tuples of the relation, those of another block
\* other ones.
LEMMA InBlock ==
  ASSUME RelationTypes, NEW b \in Nat, NEW x \in 1 .. BlockSize(b)
  PROVE  BlockStart(b) + x \in 1 .. num_tuples
<1>1. BlockStart(b) \in Nat /\ num_tuples \in Nat /\ BlockSize(b) \in Int
  BY Starts, Sizes, TupleTypes
<1>2. BlockStart(b) + BlockSize(b) <= num_tuples
  BY Sizes
<1> QED
  BY <1>1, <1>2

LEMMA BlocksApart ==
  ASSUME RelationTypes, NEW b \in Nat, NEW c \in Nat, b < c,
         NEW x \in 1 .. BlockSize(b)
  PROVE  BlockStart(b) + x \in Nat /\ BlockStart(b) + x <= BlockStart(c)
<1>1. BlockStart(b) \in Nat /\ BlockStart(c) \in Nat /\ maxid \in Nat
  BY Starts DEF RelationTypes
<1> QED
  BY <1>1, Sizes, StartsGrow

LEMMA SameBlocks ==
  ASSUME num_tuples' = num_tuples, maxid' = maxid, NEW b
  PROVE  BlockStart(b)' = BlockStart(b) /\ BlockSize(b)' = BlockSize(b)
BY DEF BlockStart, BlockSize

\* A step that leaves the tuples of a block alone leaves it finished.
LEMMA BlockKept ==
  ASSUME num_tuples' = num_tuples, maxid' = maxid, zeroed' = zeroed, NEW b,
         \A x \in 1 .. BlockSize(b) : BlockTuple(b, x)' = BlockTuple(b, x)
  PROVE  Whole(b) => Whole(b)'
<1>1. \A x \in 1 .. BlockSize(b) : BlockKey(b, x)' = BlockKey(b, x)
  BY DEF BlockKey
<1>2. BlockSize(b)' = BlockSize(b)
  BY SameBlocks
<1>3. \A k : NewTuple(k)' = NewTuple(k)
  BY DEF NewTuple
<1> QED
  BY <1>1, <1>2, <1>3 DEF Whole

-----------------------------------------------------------------------------
(* Types, step by step.                                                    *)

LEMMA GenerateEffect ==
  ASSUME RelationTypes, GenerateBlock
  PROVE  /\ tuples' \in Seq(RelTuple) /\ num_tuples' = num_tuples
         /\ BlockSize(block) \in Nat \ {0} /\ place' = BlockSize(block) - 1
         /\ \A x \in 1 .. BlockSize(block) : BlockTuple(block, x)' = NewTuple(x)
         /\ \A b \in 0 .. (block - 1) : \A x \in 1 .. BlockSize(b) :
              BlockTuple(b, x)' = BlockTuple(b, x)
<1> DEFINE first == BlockStart(block)
           last == first + BlockSize(block)
           g == [i \in DOMAIN tuples |->
                   IF i \in first + 1 .. last THEN NewTuple(i - first) ELSE tuples[i]]
<1>1. tuples' = g
  BY DEF GenerateBlock
<1>2. first \in Nat /\ BlockSize(block) \in Int /\ BlockSize(block) > 0 /\ block \in Nat
  BY Starts, Sizes DEF RelationTypes, GenerateBlock
<1>3. DOMAIN tuples = 1 .. num_tuples /\ \A i \in 1 .. num_tuples : tuples[i] \in RelTuple
  BY TupleTypes
<1> HIDE DEF first
<1>4. \A i \in DOMAIN tuples : g[i] \in RelTuple
  <2> SUFFICES ASSUME NEW i \in DOMAIN tuples PROVE g[i] \in RelTuple
    OBVIOUS
  <2>1. CASE i \in first + 1 .. last
    <3>1. i - first \in Nat
      BY <1>2, <2>1
    <3> QED
      BY <2>1, <3>1, NewTupleTyped
  <2>2. CASE i \notin first + 1 .. last
    BY <1>3, <2>2
  <2> QED
    BY <2>1, <2>2
<1>5. tuples' \in Seq(RelTuple) /\ num_tuples' = num_tuples
  <2> HIDE DEF last
  <2>1. DOMAIN tuples' = DOMAIN tuples
    BY <1>1
  <2>2. \A i \in DOMAIN tuples : tuples'[i] \in RelTuple
    BY <1>1, <1>4
  <2>3. tuples' = [i \in DOMAIN tuples' |-> tuples'[i]]
    BY <1>1
  <2> QED
    BY <2>1, <2>2, <2>3, SameLength
<1>6. maxid' = maxid /\ block' = block /\ zeroed' = zeroed /\ place' = BlockSize(block) - 1
  BY DEF GenerateBlock, relationKept
<1>7. \A b : BlockStart(b)' = BlockStart(b)
  BY <1>5, <1>6, SameBlocks
<1>8. ASSUME NEW x \in 1 .. BlockSize(block)
      PROVE  BlockTuple(block, x)' = NewTuple(x)
  <2>1. first + x \in DOMAIN tuples
    BY <1>2, <1>3, InBlock DEF first
  <2>2. first + x \in first + 1 .. last /\ (first + x) - first = x
    BY <1>2
  <2>3. tuples'[first + x] = NewTuple(x)
    BY <1>1, <2>1, <2>2
  <2>4. BlockTuple(block, x)' = tuples'[first + x]
    BY <1>6, <1>7 DEF BlockTuple, first
  <2> QED
    BY <2>3, <2>4
<1>9. ASSUME NEW b \in 0 .. (block - 1), NEW x \in 1 .. BlockSize(b)
      PROVE  BlockTuple(b, x)' = BlockTuple(b, x)
  <2>1. b \in Nat /\ b < block
    BY <1>2
  <2>2. BlockStart(b) + x \in DOMAIN tuples
    BY <1>3, <2>1, InBlock
  <2>3. BlockStart(b) + x \in Nat /\ BlockStart(b) + x <= first
    BY <1>2, <2>1, BlocksApart DEF first
  <2>4. BlockStart(b) + x \notin first + 1 .. last
    BY <1>2, <2>3
  <2>5. tuples'[BlockStart(b) + x] = tuples[BlockStart(b) + x]
    BY <1>1, <2>2, <2>4
  <2> QED
    BY <1>7, <2>5 DEF BlockTuple
<1> QED
  BY <1>2, <1>5, <1>6, <1>8, <1>9

\* An exchange of two tuples of the block: a is the place that is done after
\* it, b a place below.
LEMMA ExchangeEffect ==
  ASSUME RelationTypes, Exchange, BlockStart(block) < num_tuples, place < BlockSize(block)
  PROVE  /\ tuples' \in Seq(RelTuple) /\ num_tuples' = num_tuples
         /\ place' \in Nat /\ place = place' + 1
         /\ \E y \in 1 .. place :
              \A x \in 1 .. BlockSize(block) :
                BlockTuple(block, x)' = IF x = place + 1 THEN BlockTuple(block, y)
                                        ELSE IF x = y THEN BlockTuple(block, place + 1)
                                        ELSE BlockTuple(block, x)
         /\ \A b \in 0 .. (block - 1) : \A x \in 1 .. BlockSize(b) :
              BlockTuple(b, x)' = BlockTuple(b, x)
<1> DEFINE first == BlockStart(block)
<1>1. PICK j \in RAND_RANGE(place) :
        tuples' = [tuples EXCEPT ![first + place + 1] = tuples[first + j + 1],
                                 ![first + j + 1] = tuples[first + place + 1]]
  BY DEF Exchange
<1>2. /\ first \in Nat /\ BlockSize(block) \in Int /\ block \in Nat
      /\ place \in Nat /\ place > 0 /\ place' = place - 1
  BY Starts, Sizes DEF RelationTypes, Exchange
<1>3. DOMAIN tuples = 1 .. num_tuples /\ \A i \in 1 .. num_tuples : tuples[i] \in RelTuple
  BY TupleTypes
<1>4. j \in Nat /\ j < place
  BY <1>1, <1>2 DEF RAND_RANGE
<1> DEFINE a == place + 1
           y == j + 1
<1>5. a \in 1 .. BlockSize(block) /\ y \in 1 .. BlockSize(block) /\ y \in 1 .. place /\ y # a
  BY <1>2, <1>4
<1>6. first + place + 1 = first + a /\ first + j + 1 = first + y
  BY <1>2, <1>4
<1>7. first + a \in DOMAIN tuples /\ first + y \in DOMAIN tuples
  BY <1>2, <1>3, <1>5, InBlock
<1> HIDE DEF first, a, y
<1>8. tuples' = [tuples EXCEPT ![first + a] = tuples[first + y], ![first + y] = tuples[first + a]]
  BY <1>1, <1>6
<1>9. /\ DOMAIN tuples' = DOMAIN tuples
      /\ tuples' = [i \in DOMAIN tuples' |-> tuples'[i]]
      /\ \A i \in DOMAIN tuples :
           tuples'[i] = IF i = first + y THEN tuples[first + a]
                        ELSE IF i = first + a THEN tuples[first + y] ELSE tuples[i]
  <2>1. tuples = [i \in DOMAIN tuples |-> tuples[i]]
    BY DEF RelationTypes
  <2> QED
    BY <1>7, <1>8, <2>1
<1>10. tuples' \in Seq(RelTuple) /\ num_tuples' = num_tuples
  <2>1. \A i \in DOMAIN tuples : tuples'[i] \in RelTuple
    BY <1>3, <1>7, <1>9
  <2> QED
    BY <1>9, <2>1, SameLength
<1>11. maxid' = maxid /\ block' = block
  BY DEF Exchange, relationKept
<1>12. \A b : BlockStart(b)' = BlockStart(b)
  BY <1>10, <1>11, SameBlocks
<1>13. ASSUME NEW x \in 1 .. BlockSize(block)
       PROVE  BlockTuple(block, x)' = IF x = a THEN BlockTuple(block, y)
                                      ELSE IF x = y THEN BlockTuple(block, a)
                                      ELSE BlockTuple(block, x)
  <2>1. first + x \in DOMAIN tuples
    BY <1>2, <1>3, InBlock DEF first
  <2>2. (first + x = first + a) = (x = a) /\ (first + x = first + y) = (x = y)
    BY <1>2, <1>5
  <2>3. BlockTuple(block, x)' = tuples'[first + x]
    BY <1>11, <1>12 DEF BlockTuple, first
  <2>4. /\ BlockTuple(block, x) = tuples[first + x]
        /\ BlockTuple(block, a) = tuples[first + a]
        /\ BlockTuple(block, y) = tuples[first + y]
    BY DEF BlockTuple, first
  <2> QED
    BY <1>5, <1>9, <2>1, <2>2, <2>3, <2>4
<1>14. ASSUME NEW b \in 0 .. (block - 1), NEW x \in 1 .. BlockSize(b)
       PROVE  BlockTuple(b, x)' = BlockTuple(b, x)
  <2>1. b \in Nat /\ b < block
    BY <1>2
  <2>2. BlockStart(b) + x \in DOMAIN tuples
    BY <1>3, <2>1, InBlock
  <2>3. BlockStart(b) + x \in Nat /\ BlockStart(b) + x <= first
    BY <1>2, <2>1, BlocksApart DEF first
  <2>4. BlockStart(b) + x # first + a /\ BlockStart(b) + x # first + y
    BY <1>2, <1>5, <2>3
  <2>5. tuples'[BlockStart(b) + x] = tuples[BlockStart(b) + x]
    BY <1>9, <2>2, <2>4
  <2> QED
    BY <1>12, <2>5 DEF BlockTuple
<1>15. place' \in Nat /\ place = place' + 1
  BY <1>2
<1> QED
  BY <1>5, <1>10, <1>13, <1>14, <1>15 DEF a

LEMMA LoadEffect ==
  ASSUME RelationTypes, LoadRelation, file # <<>>
  PROVE  /\ tuples' \in Seq(RelTuple)
         /\ \A i \in DOMAIN tuples' :
              tuples'[i] = file[IF i <= Len(file) THEN i ELSE Len(file)]
<1>1. PICK n \in LoadSizes : tuples' = [i \in 1 .. n |-> file[Min({i, Len(file)})]]
  BY DEF LoadRelation
<1>2. n \in Nat /\ Len(file) \in Nat /\ Len(file) > 0
  BY <1>1, RelationsAssumption DEF RelationTypes
<1>3. ASSUME NEW i \in 1 .. n
      PROVE  /\ Min({i, Len(file)}) = IF i <= Len(file) THEN i ELSE Len(file)
             /\ Min({i, Len(file)}) \in 1 .. Len(file)
  BY <1>2, SmallerOf
<1>4. \A i \in 1 .. n : file[Min({i, Len(file)})] \in RelTuple
  BY <1>3 DEF RelationTypes
<1> QED
  BY <1>1, <1>2, <1>3, <1>4

LEMMA LocalizeEffect ==
  ASSUME RelationTypes, NEW t \in 1 .. LocalThreads, LocalizeThread(t)
  PROVE  /\ tuples' \in Seq(RelTuple) /\ num_tuples' = num_tuples
         /\ \A i \in DOMAIN tuples :
              /\ i \in PartOf(t) => tuples'[i].key = 0
              /\ tuples[i].key = 0 => tuples'[i].key = 0
<1> DEFINE g == [i \in DOMAIN tuples |->
                   IF i \in PartOf(t) THEN [tuples[i] EXCEPT !.key = 0] ELSE tuples[i]]
<1>1. tuples' = g
  BY DEF LocalizeThread
<1>2. DOMAIN tuples = 1 .. num_tuples /\ \A i \in 1 .. num_tuples : tuples[i] \in RelTuple
  BY TupleTypes
<1>3. ASSUME NEW i \in DOMAIN tuples
      PROVE  /\ g[i] \in RelTuple
             /\ i \in PartOf(t) => g[i].key = 0
             /\ tuples[i].key = 0 => g[i].key = 0
  BY <1>2 DEF RelTuple, RelValue
<1> QED
  BY <1>1, <1>3, SameLength

LEMMA RelationNextTypes ==
  ASSUME RelationTypes, RelationInv, [RelationNext]_relationVars
  PROVE  RelationTypes'
<1>1. CASE GenerateBlock
  <2>1. place' \in Nat
    BY <1>1, GenerateEffect
  <2> QED
    BY <1>1, <2>1, GenerateEffect DEF GenerateBlock, RelationTypes, RelPcs, relationKept
<1>2. CASE Exchange
  <2>1. BlockStart(block) < num_tuples /\ place < BlockSize(block)
    BY <1>2 DEF RelationInv, Exchange
  <2> QED
    BY <1>2, <2>1, ExchangeEffect DEF Exchange, RelationTypes, RelPcs, relationKept
<1>3. CASE EndBlock
  BY <1>3 DEF EndBlock, RelationTypes, RelPcs, relationKept, num_tuples
<1>4. CASE WriteRelation
  BY <1>4 DEF WriteRelation, RelationTypes, RelPcs, relationKept, num_tuples
<1>5. CASE ScanFirstLine
  BY <1>5 DEF ScanFirstLine, RelationTypes, RelPcs, relationKept, num_tuples
<1>6. CASE LoadRelation
  <2>1. file # <<>>
    BY <1>6 DEF LoadRelation, RelationInv, RelationTypes, num_tuples
  <2> QED
    BY <1>6, <2>1, LoadEffect DEF LoadRelation, RelationTypes, RelPcs, relationKept
<1>7. ASSUME NEW t \in 1 .. LocalThreads, LocalizeThread(t) PROVE RelationTypes'
  BY <1>7, LocalizeEffect DEF LocalizeThread, RelationTypes, RelPcs, relationKept
<1>8. CASE LocalizeEnds
  BY <1>8 DEF LocalizeEnds, RelationTypes, RelPcs, relationKept
<1>9. CASE UNCHANGED relationVars
  BY <1>9 DEF relationVars, RelationTypes, num_tuples
<1> QED
  BY <1>1, <1>2, <1>3, <1>4, <1>5, <1>6, <1>7, <1>8, <1>9 DEF RelationNext

-----------------------------------------------------------------------------
(* The blocks, step by step.                                               *)

\* The blocks that were finished are finished after the step.
LEMMA FinishedKept ==
  ASSUME RelationTypes, Finished, block' = block,
         num_tuples' = num_tuples, maxid' = maxid, zeroed' = zeroed,
         \A b \in 0 .. (block - 1) : \A x \in 1 .. BlockSize(b) :
           BlockTuple(b, x)' = BlockTuple(b, x)
  PROVE  Finished'
<1> SUFFICES ASSUME NEW b \in 0 .. (block - 1)
             PROVE  (BlockStart(b) < num_tuples)' /\ Whole(b)'
  BY DEF Finished
<1>1. BlockStart(b) < num_tuples /\ Whole(b)
  BY DEF Finished
<1>2. Whole(b)'
  BY <1>1, BlockKept
<1>3. (BlockStart(b) < num_tuples)'
  BY <1>1, SameBlocks
<1> QED
  BY <1>2, <1>3

LEMMA GenerateKeeps ==
  ASSUME RelationTypes, RelationInv, GenerateBlock
  PROVE  RelationInv'
<1>1. /\ num_tuples' = num_tuples /\ maxid' = maxid /\ zeroed' = zeroed
      /\ block' = block /\ relPc' = "shuffle" /\ BlockStart(block) < num_tuples
      /\ block \in Nat
  BY GenerateEffect DEF GenerateBlock, relationKept, RelationTypes
<1>2. Finished'
  BY <1>1, GenerateEffect, FinishedKept DEF RelationInv, GenerateBlock
<1>3. BlockStart(block)' = BlockStart(block) /\ BlockSize(block)' = BlockSize(block)
  BY <1>1, SameBlocks
<1>4. \A x : NewTuple(x)' = NewTuple(x)
  BY <1>1 DEF NewTuple
<1>5. Whole(block)'
  <2>1. \A x \in 1 .. BlockSize(block) :
          BlockTuple(block, x)' = NewTuple(x) /\ BlockKey(block, x)' = x
    BY GenerateEffect DEF BlockKey, NewTuple
  <2> QED
    BY <1>3, <1>4, <2>1 DEF Whole
<1>6. place' = BlockSize(block)' - 1 /\ BlockSize(block) \in Nat
  BY <1>3, GenerateEffect
<1> QED
  BY <1>1, <1>2, <1>3, <1>5, <1>6 DEF RelationInv

LEMMA ExchangeKeeps ==
  ASSUME RelationTypes, RelationInv, Exchange
  PROVE  RelationInv'
<1>1. /\ BlockStart(block) < num_tuples /\ place < BlockSize(block)
      /\ Finished /\ Whole(block)
  BY DEF RelationInv, Exchange
<1>2. /\ num_tuples' = num_tuples /\ maxid' = maxid /\ zeroed' = zeroed
      /\ block' = block /\ relPc' = "shuffle" /\ block \in Nat
      /\ place \in Nat /\ place' \in Nat /\ place = place' + 1
  BY <1>1, ExchangeEffect DEF Exchange, relationKept, RelationTypes
<1>3. Finished'
  BY <1>1, <1>2, ExchangeEffect, FinishedKept
<1>4. BlockStart(block)' = BlockStart(block) /\ BlockSize(block)' = BlockSize(block)
  BY <1>2, SameBlocks
<1>5. \A x : NewTuple(x)' = NewTuple(x)
  BY <1>2 DEF NewTuple
<1>6. BlockSize(block) \in Int
  BY <1>2, Sizes
<1>7. PICK p \in Nat, Size \in Nat :
        /\ p = place /\ Size = BlockSize(block) /\ p + 1 <= Size /\ p = place' + 1
        /\ Size = BlockSize(block)'
  <2>1. BlockSize(block) \in Nat /\ place + 1 <= BlockSize(block)
    BY <1>1, <1>2, <1>6
  <2> QED
    BY <1>2, <1>4, <2>1
<1>8. PICK y \in 1 .. p :
        \A x \in 1 .. Size :
          BlockTuple(block, x)' = IF x = p + 1 THEN BlockTuple(block, y)
                                  ELSE IF x = y THEN BlockTuple(block, p + 1)
                                  ELSE BlockTuple(block, x)
  BY <1>1, <1>7, ExchangeEffect
<1>9. y \in 1 .. Size /\ p + 1 \in 1 .. Size /\ y # p + 1 /\ y \in Nat
  BY <1>7
\* Where the tuple comes from that is at a place after the exchange.
<1>10. PICK from \in [1 .. Size -> 1 .. Size] :
         /\ from[p + 1] = y /\ from[y] = p + 1
         /\ \A x \in 1 .. Size : x # y /\ x # p + 1 => from[x] = x
  <2> DEFINE g == [x \in 1 .. Size |-> IF x = p + 1 THEN y ELSE IF x = y THEN p + 1 ELSE x]
  <2>1. g \in [1 .. Size -> 1 .. Size]
    BY <1>9
  <2>2. /\ g[p + 1] = y /\ g[y] = p + 1
        /\ \A x \in 1 .. Size : x # y /\ x # p + 1 => g[x] = x
    BY <1>9
  <2> QED
    BY <2>1, <2>2
<1>11. ASSUME NEW x \in 1 .. Size
       PROVE  /\ from[x] \in 1 .. Size /\ from[from[x]] = x
              /\ BlockTuple(block, x)' = BlockTuple(block, from[x])
              /\ BlockKey(block, x)' = BlockKey(block, from[x])
  <2>1. from[x] \in 1 .. Size /\ from[from[x]] = x
    BY <1>9, <1>10
  <2>2. BlockTuple(block, x)' = BlockTuple(block, from[x])
    <3>1. CASE x = p + 1
      BY <1>8, <1>10, <3>1
    <3>2. CASE x # p + 1 /\ x = y
      BY <1>8, <1>10, <3>2
    <3>3. CASE x # p + 1 /\ x # y
      BY <1>8, <1>10, <3>3
    <3> QED
      BY <3>1, <3>2, <3>3
  <2> QED
    BY <2>1, <2>2 DEF BlockKey
<1>12. Whole(block)'
  <2> DEFINE K(x) == BlockKey(block, x)
             T(x) == BlockTuple(block, x)
  <2>0. /\ \A x \in 1 .. Size : K(x) \in 1 .. Size /\ T(x) = NewTuple(K(x))
        /\ \A x, z \in 1 .. Size : K(x) = K(z) => x = z
    BY <1>1, <1>7 DEF Whole
  <2>1. \A x \in 1 .. Size : /\ BlockKey(block, x)' \in 1 .. Size
                             /\ BlockTuple(block, x)' = NewTuple(BlockKey(block, x)')
    BY <1>11, <2>0
  <2>2. \A x, z \in 1 .. Size : BlockKey(block, x)' = BlockKey(block, z)' => x = z
    <3> SUFFICES ASSUME NEW x \in 1 .. Size, NEW z \in 1 .. Size,
                        BlockKey(block, x)' = BlockKey(block, z)'
                 PROVE  x = z
      OBVIOUS
    <3>1. from[x] \in 1 .. Size /\ BlockKey(block, x)' = K(from[x]) /\ from[from[x]] = x
      BY <1>11
    <3>2. from[z] \in 1 .. Size /\ BlockKey(block, z)' = K(from[z]) /\ from[from[z]] = z
      BY <1>11
    <3>3. K(from[x]) = K(from[z])
      BY <3>1, <3>2
    <3> HIDE DEF K
    <3>4. from[x] = from[z]
      BY <2>0, <3>1, <3>2, <3>3
    <3> QED
      BY <3>1, <3>2, <3>4
  <2>3. ASSUME NEW k \in 1 .. Size
        PROVE  \E x \in 1 .. Size : BlockKey(block, x)' = k
    <3>1. PICK x \in 1 .. Size : BlockKey(block, x) = k
      BY <1>1, <1>7 DEF Whole
    <3>2. PICK z \in 1 .. Size : z = from[x]
      BY <1>11
    <3>3. BlockKey(block, z)' = k
      BY <1>11, <3>1, <3>2
    <3> QED
      BY <3>3
  <2>4. \A t : NewTuple(t)' = NewTuple(t)
    BY <1>5
  <2> QED
    BY <1>7, <2>1, <2>2, <2>3, <2>4 DEF Whole
<1>13. (BlockStart(block) < num_tuples)' /\ place' < BlockSize(block)'
  BY <1>1, <1>2, <1>4, <1>6
<1> QED
  BY <1>2, <1>3, <1>12, <1>13 DEF RelationInv

LEMMA EndBlockKeeps ==
  ASSUME RelationTypes, RelationInv, EndBlock
  PROVE  RelationInv'
<1>1. /\ Finished /\ BlockStart(block) < num_tuples
      /\ Whole(block) /\ block \in Nat
  BY DEF RelationInv, EndBlock, RelationTypes
<1>2. /\ num_tuples' = num_tuples /\ maxid' = maxid /\ zeroed' = zeroed
      /\ tuples' = tuples /\ relPc' = "generate" /\ block' = block + 1
  BY DEF EndBlock, relationKept, num_tuples
<1>3. ASSUME NEW b \in 0 .. block
      PROVE  (BlockStart(b) < num_tuples)' /\ Whole(b)'
  <2>1. BlockStart(b) < num_tuples /\ Whole(b)
    BY <1>1 DEF Finished
  <2>2. BlockStart(b)' = BlockStart(b) /\ BlockSize(b)' = BlockSize(b)
    BY <1>2, SameBlocks
  <2>3. \A x \in 1 .. BlockSize(b) : BlockTuple(b, x)' = BlockTuple(b, x)
    BY <1>2, <2>2 DEF BlockTuple
  <2>4. Whole(b)'
    BY <1>2, <2>1, <2>3, BlockKept
  <2> QED
    BY <1>2, <2>1, <2>2, <2>4
<1>4. Finished'
  BY <1>1, <1>2, <1>3 DEF Finished
<1> QED
  BY <1>2, <1>4 DEF RelationInv

\* Once all is generated, the relation and its blocks stay.
LEMMA GeneratedKept ==
  ASSUME RelationTypes, Generated, UNCHANGED <<tuples, maxid, zeroed, block>>
  PROVE  Generated'
<1>1. num_tuples' = num_tuples
  BY DEF num_tuples
<1>2. \A b : BlockStart(b)' = BlockStart(b)
  BY <1>1, SameBlocks
<1>3. \A b, x : BlockTuple(b, x)' = BlockTuple(b, x)
  BY <1>2 DEF BlockTuple
<1>4. Finished'
  BY <1>1, <1>3, FinishedKept DEF Generated
<1>5. (BlockStart(block) >= num_tuples)'
  BY <1>1, <1>2 DEF Generated
<1> QED
  BY <1>4, <1>5 DEF Generated

LEMMA FileKeeps ==
  ASSUME RelationTypes, RelationInv, WriteRelation \/ ScanFirstLine \/ LoadRelation
  PROVE  RelationInv'
<1>1. CASE WriteRelation
  <2>1. Generated
    BY <1>1 DEF WriteRelation, RelationInv, Generated
  <2>2. Generated'
    BY <1>1, <2>1, GeneratedKept DEF WriteRelation, relationKept
  <2> QED
    BY <1>1, <2>2 DEF WriteRelation, RelationInv
<1>2. CASE ScanFirstLine
  <2>1. Generated /\ file = tuples
    BY <1>2 DEF ScanFirstLine, ScansForever, RelationInv
  <2>2. Generated'
    BY <1>2, <2>1, GeneratedKept DEF ScanFirstLine, relationKept
  <2> QED
    BY <1>2, <2>1, <2>2 DEF ScanFirstLine, RelationInv
<1>3. CASE LoadRelation
  <2>1. file # <<>>
    BY <1>3 DEF LoadRelation, RelationInv, RelationTypes, num_tuples
  <2>2. relPc' = "done" /\ file' = file
    BY <1>3 DEF LoadRelation
  <2> QED
    BY <1>3, <2>1, <2>2, LoadEffect DEF RelationInv
<1> QED
  BY <1>1, <1>2, <1>3

LEMMA PartKept ==
  ASSUME num_tuples' = num_tuples, NEW t
  PROVE  PartOf(t)' = PartOf(t)
BY DEF PartOf, ntuples_perthr

-----------------------------------------------------------------------------
(* The parts of numa_localize.                                             *)

LEMMA PerThread ==
  ASSUME RelationTypes
  PROVE  /\ ntuples_perthr \in Nat
         /\ ntuples_perthr * (LocalThreads - 1) <= num_tuples
<1> DEFINE pages == num_tuples \div PageTuples
           each == (pages + 1) \div LocalThreads
<1>1. /\ num_tuples \in Nat /\ PageTuples \in Nat \ {0} /\ LocalThreads \in Nat \ {0}
  BY TupleTypes, RelationsAssumption
<1>2. pages \in Nat /\ pages * PageTuples <= num_tuples
  BY <1>1
<1> HIDE DEF pages
<1>3. each \in Nat /\ each * LocalThreads <= pages + 1
  BY <1>1, <1>2
<1> HIDE DEF each
<1>4. ntuples_perthr = each * PageTuples
  BY DEF ntuples_perthr, each, pages
<1>5. each * (LocalThreads - 1) \in Nat /\ each * (LocalThreads - 1) <= pages
  <2>1. each * (LocalThreads - 1) = each * LocalThreads - each
    BY <1>1, <1>3
  <2>2. LocalThreads - 1 \in Nat
    BY <1>1
  <2>3. each * (LocalThreads - 1) \in Nat
    BY <1>3, <2>2
  <2>4. CASE each = 0
    BY <1>1, <1>2, <2>4
  <2>5. CASE each # 0
    <3>1. each * LocalThreads \in Nat
      BY <1>1, <1>3
    <3> QED
      BY <1>2, <1>3, <2>1, <2>3, <2>5, <3>1
  <2> QED
    BY <2>3, <2>4, <2>5
<1> DEFINE before == each * (LocalThreads - 1)
<1>6. ntuples_perthr * (LocalThreads - 1) = before * PageTuples
  BY <1>1, <1>3, <1>4
<1>7. before * PageTuples <= pages * PageTuples
  <2> HIDE DEF before
  <2>1. PICK d \in Nat : pages = before + d
    <3>1. before \in Nat /\ before <= pages
      BY <1>5 DEF before
    <3>2. pages - before \in Nat /\ pages = before + (pages - before)
      BY <1>2, <3>1
    <3> QED
      BY <3>2
  <2>2. before \in Nat
    BY <1>5 DEF before
  <2>3. pages * PageTuples = before * PageTuples + d * PageTuples
    BY <1>1, <2>1, <2>2
  <2>4. d * PageTuples \in Nat /\ before * PageTuples \in Nat
    BY <1>1, <2>2
  <2> QED
    BY <2>3, <2>4
<1>8. before * PageTuples \in Int /\ pages * PageTuples \in Int
  BY <1>1, <1>2, <1>5
<1> HIDE DEF before
<1> QED
  BY <1>1, <1>2, <1>3, <1>4, <1>6, <1>7, <1>8

LEMMA TimesGrows ==
  ASSUME NEW m \in Nat, NEW a \in Nat, NEW b \in Nat, a <= b
  PROVE  m * a \in Nat /\ m * b \in Nat /\ m * a <= m * b
<1>1. PICK d \in Nat : b = a + d
  <2>1. b - a \in Nat /\ b = a + (b - a)
    OBVIOUS
  <2> QED
    BY <2>1
<1>2. m * a \in Nat /\ m * d \in Nat /\ m * b \in Nat
  OBVIOUS
<1>3. m * b = m * a + m * d
  BY <1>1
<1> QED
  BY <1>2, <1>3

\* Where a part begins and ends.
LEMMA PartEnds ==
  ASSUME RelationTypes, NEW t \in 1 .. LocalThreads
  PROVE  /\ ntuples_perthr * (t - 1) \in Nat
         /\ t # LocalThreads => ntuples_perthr * (t - 1) + ntuples_perthr = ntuples_perthr * t
         /\ PartOf(t) = ntuples_perthr * (t - 1) + 1
                          .. (IF t = LocalThreads THEN num_tuples ELSE ntuples_perthr * t)
<1>1. ntuples_perthr \in Nat /\ t \in Nat /\ t - 1 \in Nat
  BY PerThread, RelationsAssumption
<1>2. ntuples_perthr * (t - 1) \in Nat
  BY <1>1
<1>3. ntuples_perthr * (t - 1) + ntuples_perthr = ntuples_perthr * t
  BY <1>1
<1> QED
  BY <1>2, <1>3 DEF PartOf

\* No tuple is left out, and none is in two parts.
LEMMA PartsPartition ==
  ASSUME RelationTypes
  PROVE  /\ \A t, u \in 1 .. LocalThreads : t # u => PartOf(t) \cap PartOf(u) = {}
         /\ UNION {PartOf(t) : t \in 1 .. LocalThreads} = 1 .. num_tuples
<1> DEFINE m == ntuples_perthr
           L == LocalThreads
<1>1. m \in Nat /\ num_tuples \in Nat /\ L \in Nat \ {0} /\ m * (L - 1) <= num_tuples
  BY PerThread, TupleTypes, RelationsAssumption
<1> HIDE DEF m
<1> DEFINE lo(t) == m * (t - 1)
           hi(t) == m * t
<1>2. ASSUME NEW t \in 1 .. L
      PROVE  /\ lo(t) \in Nat /\ hi(t) \in Nat
             /\ PartOf(t) = lo(t) + 1 .. (IF t = L THEN num_tuples ELSE hi(t))
             /\ \A u \in 1 .. L : t < u => hi(t) <= lo(u)
  <2>1. t \in Nat /\ t - 1 \in Nat /\ m * t \in Nat /\ m * (t - 1) \in Nat
    BY <1>1
  <2>2. PartOf(t) = m * (t - 1) + 1 .. (IF t = L THEN num_tuples ELSE m * t)
    BY PartEnds DEF m
  <2>3. ASSUME NEW u \in 1 .. L, t < u PROVE m * t <= m * (u - 1)
    <3>1. u - 1 \in Nat /\ t <= u - 1
      BY <1>1, <2>1, <2>3
    <3> QED
      BY <1>1, <2>1, <3>1, TimesGrows
  <2> QED
    BY <2>1, <2>2, <2>3
<1>0. lo(L) <= num_tuples
  BY <1>1
<1> HIDE DEF lo, hi
<1>3. ASSUME NEW t \in 1 .. L, NEW u \in 1 .. L, t < u
      PROVE  PartOf(t) \cap PartOf(u) = {}
  <2>1. t # L /\ u \in Nat
    BY <1>1, <1>3
  <2>2. ASSUME NEW i \in PartOf(t), i \in PartOf(u) PROVE FALSE
    <3>1. i \in Int /\ i <= hi(t)
      BY <1>2, <2>1
    <3>2. i >= lo(u) + 1
      <4>1. PICK e \in Int : PartOf(u) = lo(u) + 1 .. e
        BY SMTT(30), <1>2, TupleTypes
      <4> QED
        BY <1>2, <2>2, <4>1
    <3> QED
      BY <1>2, <1>3, <3>1, <3>2
  <2> QED
    BY <2>2
<1>4. ASSUME NEW t \in 1 .. L PROVE PartOf(t) \subseteq 1 .. num_tuples
  <2>1. CASE t = L
    BY <1>1, <1>2, <2>1
  <2>2. CASE t # L
    <3>1. L \in 1 .. L /\ t < L
      BY <1>1, <2>2
    <3>2. hi(t) <= lo(L) /\ hi(t) \in Nat /\ lo(L) \in Nat
      BY <1>2, <3>1
    <3>3. hi(t) <= num_tuples
      BY <1>1, <1>0, <3>2
    <3> QED
      BY <1>1, <1>2, <2>2, <3>2, <3>3
  <2> QED
    BY <2>1, <2>2
<1>5. ASSUME NEW i \in 1 .. num_tuples PROVE \E t \in 1 .. L : i \in PartOf(t)
  <2>1. m * (L - 1) \in Nat /\ L - 1 \in Nat
    BY <1>1
  <2>2. CASE i > m * (L - 1)
    <3>1. L \in 1 .. L /\ i \in PartOf(L)
      BY <1>1, <1>2, <2>1, <2>2 DEF lo
    <3> QED
      BY <3>1
  <2>3. CASE i <= m * (L - 1)
    <3>1. m # 0
      <4> SUFFICES ASSUME m = 0 PROVE FALSE
        OBVIOUS
      <4>1. m * (L - 1) = 0
        BY <2>1
      <4> QED
        BY <1>1, <2>3, <4>1
    <3>2. PICK q \in Nat : m * q <= i - 1 /\ i - 1 < m * q + m
      <4>1. i - 1 \in Nat
        BY <1>1
      <4>2. /\ (i - 1) \div m \in Nat /\ m * ((i - 1) \div m) <= i - 1
            /\ i - 1 < m * ((i - 1) \div m) + m
        BY <1>1, <3>1, <4>1
      <4> QED
        BY <4>2
    <3>3. q < L - 1
      <4> SUFFICES ASSUME L - 1 <= q PROVE FALSE
        BY <2>1
      <4>1. m * (L - 1) <= m * q /\ m * q \in Nat
        BY <1>1, <2>1, TimesGrows
      <4> QED
        BY <1>1, <2>1, <2>3, <3>2, <4>1
    <3>4. q + 1 \in 1 .. L /\ q + 1 # L /\ (q + 1) - 1 = q
      BY <1>1, <3>3
    <3>5. m * (q + 1) = m * q + m /\ m * q \in Nat
      BY <1>1
    <3>6. PartOf(q + 1) = m * q + 1 .. m * q + m
      BY <1>2, <3>4, <3>5 DEF lo, hi
    <3>7. i \in PartOf(q + 1)
      BY <1>1, <3>2, <3>5, <3>6
    <3> QED
      BY <3>4, <3>7
  <2>4. i \in Int
    BY <1>1
  <2> QED
    BY <2>1, <2>2, <2>3, <2>4
<1>6. \A t, u \in 1 .. L : t # u => t < u \/ u < t
  BY <1>1
<1> QED
  BY <1>3, <1>4, <1>5, <1>6

LEMMA LocalizeKeeps ==
  ASSUME RelationTypes, RelationInv,
         (\E t \in 1 .. LocalThreads : LocalizeThread(t)) \/ LocalizeEnds
  PROVE  RelationInv'
<1>1. ASSUME NEW t \in 1 .. LocalThreads, LocalizeThread(t) PROVE RelationInv'
  <2>1. /\ relPc = "localize" /\ relPc' = relPc /\ file' = file /\ file = <<>>
        /\ touched' = [touched EXCEPT ![t] = TRUE]
        /\ touched \in [1 .. LocalThreads -> BOOLEAN]
    BY <1>1 DEF LocalizeThread, RelationInv, RelationTypes
  <2>2. num_tuples' = num_tuples
    BY <1>1, LocalizeEffect
  <2>3. ASSUME NEW u \in 1 .. LocalThreads, touched'[u], NEW i \in PartOf(u)
        PROVE  tuples'[i].key = 0
    <3>1. i \in DOMAIN tuples
      BY PartsPartition, TupleTypes
    <3>2. CASE u = t
      BY <1>1, <3>1, <3>2, LocalizeEffect
    <3>3. CASE u # t
      <4>1. touched[u]
        BY <2>1, <2>3, <3>3
      <4>2. tuples[i].key = 0
        BY <2>1, <4>1 DEF RelationInv
      <4> QED
        BY <1>1, <3>1, <4>2, LocalizeEffect
    <3> QED
      BY <3>2, <3>3
  <2>4. \A u \in 1 .. LocalThreads : PartOf(u)' = PartOf(u)
    BY <2>2, PartKept
  <2>5. \A u \in 1 .. LocalThreads : touched'[u] => \A i \in PartOf(u)' : tuples'[i].key = 0
    BY <2>3, <2>4
  <2> QED
    BY <2>1, <2>5 DEF RelationInv
<1>2. CASE LocalizeEnds
  <2>1. /\ file = <<>> /\ file' = file /\ touched' = touched /\ tuples' = tuples
        /\ relPc' = "done" /\ num_tuples' = num_tuples
        /\ relPc = "localize" /\ DOMAIN touched = 1 .. LocalThreads
        /\ \A t \in DOMAIN touched : touched[t]
    BY <1>2 DEF LocalizeEnds, RelationInv, RelationTypes, num_tuples
  <2>2. \A u \in 1 .. LocalThreads : PartOf(u)' = PartOf(u)
    BY <2>1, PartKept
  <2> QED
    BY <2>1, <2>2 DEF RelationInv
<1> QED
  BY <1>1, <1>2

LEMMA RelationInitInv == RelationInit \/ RelationIdle => RelationInv
<1>1. RelationIdle => RelationInv
  BY DEF RelationIdle, RelationInv
<1>2. ASSUME RelationInit PROVE RelationInv
  <2>1. /\ relPc \in {"generate", "localize"} /\ block = 0 /\ file = <<>>
        /\ \A t \in 1 .. LocalThreads : ~touched[t]
    BY <1>2 DEF RelationInit
  <2>2. Finished
    BY <2>1 DEF Finished
  <2> QED
    BY <2>1, <2>2 DEF RelationInv
<1> QED
  BY <1>1, <1>2

LEMMA RelationNextInv ==
  ASSUME RelationTypes, RelationInv, [RelationNext]_relationVars
  PROVE  RelationInv'
<1>1. CASE RelationNext
  BY <1>1, GenerateKeeps, ExchangeKeeps, EndBlockKeeps, FileKeeps, LocalizeKeeps DEF RelationNext
<1>2. CASE UNCHANGED relationVars
  <2>1. /\ UNCHANGED <<relPc, tuples, maxid, block, place, zeroed, file, touched>>
        /\ num_tuples' = num_tuples
    BY <1>2 DEF relationVars, num_tuples
  <2>2. \A b : BlockStart(b)' = BlockStart(b) /\ BlockSize(b)' = BlockSize(b)
    BY <2>1, SameBlocks
  <2>3. \A b, x : BlockTuple(b, x)' = BlockTuple(b, x) /\ BlockKey(b, x)' = BlockKey(b, x)
    BY <2>1, <2>2 DEF BlockTuple, BlockKey
  <2>4. \A x : NewTuple(x)' = NewTuple(x) /\ PartOf(x)' = PartOf(x)
    BY <2>1, PartKept DEF NewTuple
  <2>5. Finished' = Finished
    BY <2>1, <2>2, <2>3, <2>4 DEF Finished, Whole
  <2>6. Generated' = Generated
    BY <2>1, <2>2, <2>5 DEF Generated
  <2>7. Whole(block)' = Whole(block)
    BY <2>1, <2>2, <2>3, <2>4 DEF Whole
  <2> QED
    BY <2>1, <2>2, <2>4, <2>5, <2>6, <2>7 DEF RelationInv
<1> QED
  BY <1>1, <1>2

-----------------------------------------------------------------------------
(* How often a key is there.                                               *)

LEMMA CountIsOne ==
  ASSUME NEW S, NEW x \in S, \A y \in S : y = x
  PROVE  Cardinality(S) = 1
<1>1. S = {x}
  OBVIOUS
<1> QED
  BY <1>1, FS_Singleton

\* A finished block, as the sequence of its tuples.
LEMMA FinishedBlock ==
  ASSUME RelationTypes, NEW b \in Nat, BlockStart(b) < num_tuples, Whole(b)
  PROVE  LET s == SubSeq(tuples, BlockStart(b) + 1, BlockStart(b) + BlockSize(b))
         IN  \A k \in DOMAIN s :
               /\ KeyCount(s, k) = 1
               /\ s[k].payload = NewTuple(s[k].key).payload
<1> DEFINE s == SubSeq(tuples, BlockStart(b) + 1, BlockStart(b) + BlockSize(b))
<1>1. /\ BlockStart(b) \in Nat /\ BlockSize(b) \in Nat \ {0} /\ num_tuples \in Nat
      /\ BlockStart(b) + BlockSize(b) <= num_tuples
  <2>1. BlockSize(b) \in Int /\ BlockSize(b) > 0
    BY Sizes
  <2>2. BlockStart(b) + BlockSize(b) <= num_tuples
    BY Sizes
  <2>3. BlockSize(b) \in Nat \ {0}
    BY <2>1
  <2> QED
    BY <2>2, <2>3, Starts, TupleTypes
<1>2. /\ s \in Seq(RelTuple) /\ Len(s) = BlockSize(b)
      /\ \A k \in 1 .. BlockSize(b) : s[k] = tuples[BlockStart(b) + 1 + k - 1]
  <2>1. \A i \in BlockStart(b) + 1 .. BlockStart(b) + BlockSize(b) : tuples[i] \in RelTuple
    BY <1>1, TupleTypes
  <2>2. BlockStart(b) + 1 \in Int /\ BlockStart(b) + BlockSize(b) \in Int
    BY <1>1
  <2>3. (BlockStart(b) + BlockSize(b)) - (BlockStart(b) + 1) + 1 = BlockSize(b)
    BY <1>1
  <2> QED
    BY <1>1, <2>1, <2>2, <2>3, SubSeqProperties
<1>3. \A k \in 1 .. BlockSize(b) : s[k] = BlockTuple(b, k)
  <2> SUFFICES ASSUME NEW k \in 1 .. BlockSize(b) PROVE s[k] = BlockTuple(b, k)
    OBVIOUS
  <2>1. s[k] = tuples[BlockStart(b) + 1 + k - 1]
    BY <1>2
  <2>2. BlockStart(b) + 1 + k - 1 = BlockStart(b) + k
    BY <1>1
  <2> QED
    BY <2>1, <2>2 DEF BlockTuple
<1>5. DOMAIN s = 1 .. BlockSize(b)
  BY <1>2
<1> HIDE DEF s
<1>6. \A x \in DOMAIN s : s[x] = BlockTuple(b, x) /\ s[x].key = BlockKey(b, x)
  BY <1>5, <1>3 DEF BlockKey
<1>7. /\ \A x \in DOMAIN s : BlockTuple(b, x) = NewTuple(BlockKey(b, x))
      /\ \A x, y \in DOMAIN s : BlockKey(b, x) = BlockKey(b, y) => x = y
      /\ \A k \in DOMAIN s : \E x \in DOMAIN s : BlockKey(b, x) = k
  BY <1>5 DEF Whole
<1>4. ASSUME NEW k \in DOMAIN s
      PROVE  /\ KeyCount(s, k) = 1
             /\ s[k].payload = NewTuple(s[k].key).payload
  <2>1. PICK x \in DOMAIN s : s[x].key = k
    BY <1>6, <1>7
  <2>2. \A y \in DOMAIN s : s[y].key = k => y = x
    BY <1>6, <1>7, <2>1
  <2>3. KeyCount(s, k) = 1
    BY <2>1, <2>2, CountIsOne DEF KeyCount
  <2>4. s[k] = NewTuple(s[k].key)
    BY <1>6, <1>7
  <2> QED
    BY <2>3, <2>4
<1> QED
  BY <1>4 DEF s

\* Every place of a relation is in a block.
LEMMA InSomeBlock ==
  ASSUME RelationTypes, NEW i \in 1 .. num_tuples
  PROVE  \E b \in Nat : \E x \in 1 .. BlockSize(b) : i = BlockStart(b) + x
<1>1. num_tuples \in Nat /\ maxid \in Nat \ {0} /\ i - 1 \in Nat
  BY TupleTypes DEF RelationTypes
<1>2. PICK b \in Nat : maxid * b <= i - 1 /\ i - 1 < maxid * b + maxid
  <2>1. /\ (i - 1) \div maxid \in Nat /\ maxid * ((i - 1) \div maxid) <= i - 1
        /\ i - 1 < maxid * ((i - 1) \div maxid) + maxid
    BY <1>1
  <2> QED
    BY <2>1
<1>3. BlockStart(b) \in Nat /\ BlockStart(b) <= i - 1 /\ i - 1 < BlockStart(b) + maxid
  BY <1>2, Starts DEF BlockStart
<1>4. PICK x \in Nat : i = BlockStart(b) + x /\ x >= 1 /\ x <= maxid
  <2>1. i - BlockStart(b) \in Nat /\ i = BlockStart(b) + (i - BlockStart(b))
    BY <1>1, <1>3
  <2>2. i - BlockStart(b) >= 1 /\ i - BlockStart(b) <= maxid
    BY <1>1, <1>3
  <2> QED
    BY <2>1, <2>2
<1>5. x \in 1 .. BlockSize(b)
  BY <1>1, <1>3, <1>4, Sizes
<1> QED
  BY <1>4, <1>5

LEMMA EarlierBlock ==
  ASSUME RelationTypes, Generated, NEW b \in Nat, BlockStart(b) < num_tuples
  PROVE  b \in 0 .. (block - 1)
<1>1. block \in Nat /\ num_tuples \in Nat /\ BlockStart(block) >= num_tuples
  BY TupleTypes DEF RelationTypes, Generated
<1>2. ~ (block <= b)
  <2> SUFFICES ASSUME block <= b PROVE FALSE
    OBVIOUS
  <2>1. block # b
    BY <1>1, Starts
  <2>2. block < b /\ maxid \in Nat
    BY <1>1, <2>1 DEF RelationTypes
  <2>3. BlockStart(block) + maxid <= BlockStart(b)
    BY <1>1, <2>2, StartsGrow
  <2> QED
    BY <1>1, <2>2, <2>3, Starts
<1> QED
  BY <1>1, <1>2

BlocksWith(k) == {b \in 0 .. (block - 1) : k <= BlockSize(b)}

\* The blocks large enough for a key: all of them or all but the last.
LEMMA ManyBlocks ==
  ASSUME RelationTypes, Generated, NEW k \in 1 .. maxid
  PROVE  /\ IsFiniteSet(BlocksWith(k))
         /\ Cardinality(BlocksWith(k)) \in num_tuples \div maxid .. (num_tuples \div maxid) + 1
<1>1. num_tuples \in Nat /\ maxid \in Nat \ {0} /\ block \in Nat
  BY TupleTypes DEF RelationTypes
<1> DEFINE q == num_tuples \div maxid
<1>2. q \in Nat /\ BlockStart(q) <= num_tuples /\ num_tuples < BlockStart(q) + maxid
  BY <1>1 DEF BlockStart
<1> HIDE DEF q
<1>3. ASSUME NEW b \in Nat, b < q PROVE b \in BlocksWith(k)
  <2>1. BlockStart(b) + maxid <= num_tuples /\ BlockStart(b) \in Nat
    <3>1. BlockStart(b) + maxid <= BlockStart(q)
      BY <1>2, <1>3, StartsGrow
    <3> QED
      BY <1>1, <1>2, <3>1, Starts
  <2>2. BlockSize(b) = maxid
    BY <1>1, <2>1, Sizes
  <2>3. b \in 0 .. (block - 1)
    BY <1>1, <2>1, EarlierBlock
  <2> QED
    BY <1>1, <2>2, <2>3 DEF BlocksWith
<1>4. ASSUME NEW b \in BlocksWith(k) PROVE b \in Nat /\ b <= q
  <2>1. b \in Nat /\ BlockStart(b) < num_tuples
    BY <1>1 DEF BlocksWith, Generated, Finished
  <2>2. ~ (q < b)
    <3> SUFFICES ASSUME q < b PROVE FALSE
      OBVIOUS
    <3>1. BlockStart(q) + maxid <= BlockStart(b)
      BY <1>2, <2>1, StartsGrow
    <3> QED
      BY <1>1, <1>2, <2>1, <3>1, Starts
  <2> QED
    BY <1>2, <2>1, <2>2
<1>5. CASE q \in BlocksWith(k)
  <2>1. BlocksWith(k) = 0 .. q
    <3>1. \A b \in BlocksWith(k) : b \in 0 .. q
      BY <1>2, <1>4
    <3>2. \A b \in 0 .. q : b \in Nat /\ (b = q \/ b < q)
      BY <1>2
    <3> QED
      BY <1>3, <1>5, <3>1, <3>2
  <2>2. IsFiniteSet(0 .. q) /\ Cardinality(0 .. q) = q + 1
    BY <1>2, FS_Interval
  <2> QED
    BY <1>2, <2>1, <2>2 DEF q
<1>6. CASE q \notin BlocksWith(k)
  <2>1. BlocksWith(k) = 0 .. (q - 1)
    <3>1. \A b \in BlocksWith(k) : b \in 0 .. (q - 1)
      BY <1>2, <1>4, <1>6
    <3>2. \A b \in 0 .. (q - 1) : b \in Nat /\ b < q
      BY <1>2
    <3> QED
      BY <1>3, <3>1, <3>2
  <2>2. IsFiniteSet(0 .. (q - 1)) /\ Cardinality(0 .. (q - 1)) = q
    <3>1. q - 1 \in Int /\ (IF 0 > q - 1 THEN 0 ELSE (q - 1) - 0 + 1) = q
      BY <1>2
    <3> QED
      BY <3>1, FS_Interval
  <2> QED
    BY <1>2, <2>1, <2>2 DEF q
<1> QED
  BY <1>5, <1>6

\* A key is there once in every block large enough for it.
LEMMA KeyInBlocks ==
  ASSUME RelationTypes, Generated, NEW k \in 1 .. maxid
  PROVE  KeyCount(tuples, k) = Cardinality(BlocksWith(k))
<1> DEFINE B == BlocksWith(k)
           K == {i \in DOMAIN tuples : tuples[i].key = k}
           Has(b, x) == x \in 1 .. BlockSize(b) /\ BlockKey(b, x) = k
           f == [b \in B |-> BlockStart(b) + (CHOOSE x : Has(b, x))]
<1>1. ASSUME NEW b \in Nat, BlockStart(b) < num_tuples
      PROVE  b \in 0 .. (block - 1) /\ Whole(b)
  <2>1. b \in 0 .. (block - 1)
    BY <1>1, EarlierBlock
  <2> QED
    BY <2>1 DEF Generated, Finished
<1>2. ASSUME NEW b \in B
      PROVE  /\ b \in Nat /\ BlockStart(b) < num_tuples /\ Whole(b)
             /\ \E x : Has(b, x) /\ f[b] = BlockStart(b) + x
  <2>1. b \in Nat /\ BlockStart(b) < num_tuples /\ Whole(b)
    BY DEF BlocksWith, Generated, Finished, RelationTypes
  <2>2. k \in 1 .. BlockSize(b)
    BY <2>1, Sizes DEF BlocksWith, RelationTypes
  <2>3. \E x : Has(b, x)
    BY <2>1, <2>2 DEF Whole
  <2>4. Has(b, CHOOSE x : Has(b, x))
    BY <2>3
  <2>5. f[b] = BlockStart(b) + (CHOOSE x : Has(b, x))
    OBVIOUS
  <2> QED
    BY <2>1, <2>4, <2>5
<1> HIDE DEF f
<1>3. ASSUME NEW b \in B PROVE f[b] \in K
  <2>1. PICK x : Has(b, x) /\ f[b] = BlockStart(b) + x
    BY <1>2
  <2>2. f[b] \in DOMAIN tuples
    BY <1>2, <2>1, InBlock, TupleTypes
  <2> QED
    BY <2>1, <2>2 DEF BlockKey, BlockTuple
<1>4. ASSUME NEW b \in B, NEW c \in B, b < c PROVE f[b] # f[c]
  <2>1. PICK x : Has(b, x) /\ f[b] = BlockStart(b) + x
    BY <1>2
  <2>2. PICK z : Has(c, z) /\ f[c] = BlockStart(c) + z
    BY <1>2
  <2>3. BlockStart(b) + x \in Nat /\ BlockStart(b) + x <= BlockStart(c)
    BY <1>2, <1>4, <2>1, BlocksApart
  <2>4. BlockStart(c) \in Nat /\ z \in Int /\ z >= 1
    BY <1>2, <2>2, Starts, Sizes
  <2> QED
    BY <2>1, <2>2, <2>3, <2>4
<1>5. ASSUME NEW b \in B, NEW c \in B, f[b] = f[c] PROVE b = c
  BY <1>2, <1>4, <1>5
<1>6. ASSUME NEW i \in K PROVE \E b \in B : f[b] = i
  <2>1. i \in 1 .. num_tuples /\ num_tuples \in Nat
    BY TupleTypes
  <2>0. PICK b \in Nat : \E x \in 1 .. BlockSize(b) : i = BlockStart(b) + x
    BY <2>1, InSomeBlock
  <2>2. PICK x \in 1 .. BlockSize(b) : i = BlockStart(b) + x
    BY <2>0
  <2>3. /\ BlockStart(b) \in Nat /\ BlockSize(b) \in Int /\ BlockStart(b) < num_tuples
    BY <2>1, <2>2, Starts, Sizes
  <2>4. b \in 0 .. (block - 1) /\ Whole(b)
    BY <1>1, <2>3
  <2>5. Has(b, x)
    BY <2>2 DEF BlockKey, BlockTuple
  <2>6. k <= BlockSize(b)
    BY <2>3, <2>4, <2>5 DEF Whole
  <2>7. b \in B
    BY <2>4, <2>6 DEF BlocksWith
  <2>8. PICK z : Has(b, z) /\ f[b] = BlockStart(b) + z
    BY <1>2, <2>7
  <2>9. z = x
    BY <2>4, <2>5, <2>8 DEF Whole
  <2> QED
    BY <2>2, <2>7, <2>8, <2>9
<1>7. f \in Bijection(B, K)
  <2>1. f = [b \in B |-> f[b]]
    BY DEF f
  <2>2. f \in [B -> K]
    BY <1>3, <2>1
  <2> QED
    BY <1>5, <1>6, <2>2 DEF Bijection, Injection, Surjection, IsInjective
<1>8. Cardinality(K) = Cardinality(B)
  BY <1>7, ManyBlocks, FS_Bijection DEF ExistsBijection
<1> QED
  BY <1>8 DEF KeyCount

-----------------------------------------------------------------------------
\* The invariant says what the property says.
LEMMA GenerateWhole ==
  ASSUME RelationTypes, RelationInv, relPc = "generate", NEW i \in 0 .. (block - 1)
  PROVE  LET s == SubSeq(tuples, BlockStart(i) + 1, BlockStart(i) + BlockSize(i))
         IN  \A k \in DOMAIN s :
               /\ KeyCount(s, k) = 1
               /\ s[k].payload = NewTuple(s[k].key).payload
<1>1. i \in Nat
  BY DEF RelationTypes
<1>2. BlockStart(i) < num_tuples /\ Whole(i)
  BY DEF RelationInv, Finished
<1> QED
  BY <1>1, <1>2, FinishedBlock

LEMMA LoadWhole ==
  ASSUME RelationTypes, RelationInv, relPc = "load"
  PROVE  /\ file = tuples
         /\ \A k \in 1 .. maxid :
              KeyCount(file, k) \in num_tuples \div maxid .. (num_tuples \div maxid) + 1
<1>1. file = tuples /\ Generated
  BY DEF RelationInv
<1> QED
  BY <1>1, ManyBlocks, KeyInBlocks

LEMMA LoadedPrefix ==
  ASSUME RelationTypes, RelationInv, relPc = "done", file # <<>>
  PROVE  /\ IsPrefix(SubSeq(tuples, 1, Min({num_tuples, Len(file)})), file)
         /\ \A i \in DOMAIN tuples : i > Len(file) => tuples[i] = Last(file)
<1> DEFINE n == Min({num_tuples, Len(file)})
           s == SubSeq(tuples, 1, n)
<1>1. /\ num_tuples \in Nat /\ Len(file) \in Nat
      /\ n = IF num_tuples <= Len(file) THEN num_tuples ELSE Len(file)
      /\ DOMAIN tuples = 1 .. num_tuples
  BY TupleTypes, SmallerOf DEF RelationTypes
<1>2. \A i \in DOMAIN tuples : tuples[i] = file[IF i <= Len(file) THEN i ELSE Len(file)]
  BY DEF RelationInv
<1> HIDE DEF n
<1>3. n \in Nat /\ n <= num_tuples /\ n <= Len(file)
  BY <1>1
<1>4. /\ s \in Seq(RelTuple) /\ Len(s) = n
      /\ \A k \in 1 .. n : s[k] = tuples[k]
  <2>1. \A i \in 1 .. n : tuples[i] \in RelTuple
    BY <1>1, <1>3, TupleTypes
  <2>2. /\ s \in Seq(RelTuple) /\ Len(s) = IF 1 <= n THEN n - 1 + 1 ELSE 0
        /\ \A k \in 1 .. n - 1 + 1 : s[k] = tuples[1 + k - 1]
    BY <1>3, <2>1, SubSeqProperties
  <2> QED
    BY <1>3, <2>2
<1>5. /\ SubSeq(file, 1, n) \in Seq(RelTuple) /\ Len(SubSeq(file, 1, n)) = n
      /\ \A k \in 1 .. n : SubSeq(file, 1, n)[k] = file[k]
  <2>1. \A i \in 1 .. n : file[i] \in RelTuple
    BY <1>1, <1>3 DEF RelationTypes
  <2>2. /\ SubSeq(file, 1, n) \in Seq(RelTuple)
        /\ Len(SubSeq(file, 1, n)) = IF 1 <= n THEN n - 1 + 1 ELSE 0
        /\ \A k \in 1 .. n - 1 + 1 : SubSeq(file, 1, n)[k] = file[1 + k - 1]
    BY <1>3, <2>1, SubSeqProperties
  <2> QED
    BY <1>3, <2>2
<1>6. s = SubSeq(file, 1, n)
  <2>1. \A k \in 1 .. n : tuples[k] = file[k]
    BY <1>1, <1>2, <1>3
  <2> HIDE DEF s
  <2> QED
    BY <1>3, <1>4, <1>5, <2>1
<1>7. IsPrefix(s, file)
  <2>1. SubSeq(s, 1, Len(s)) = s
    BY <1>4, SubSeqFull
  <2> HIDE DEF s
  <2> QED
    BY <1>3, <1>4, <1>6, <2>1 DEF IsPrefix
<1>8. \A i \in DOMAIN tuples : i > Len(file) => tuples[i] = Last(file)
  BY <1>1, <1>2 DEF Last
<1> QED
  BY <1>7, <1>8 DEF n

LEMMA LocalizeWhole ==
  ASSUME RelationTypes, RelationInv, relPc \in {"localize", "done"}, file = <<>>
  PROVE  /\ \A t, u \in DOMAIN touched : t # u => PartOf(t) \cap PartOf(u) = {}
         /\ UNION {PartOf(t) : t \in DOMAIN touched} = DOMAIN tuples
         /\ relPc = "done" => \A i \in DOMAIN tuples : tuples[i].key = 0
<1>1. DOMAIN touched = 1 .. LocalThreads /\ DOMAIN tuples = 1 .. num_tuples
  BY TupleTypes DEF RelationTypes
<1>2. ASSUME relPc = "done", NEW i \in DOMAIN tuples PROVE tuples[i].key = 0
  <2>1. PICK t \in 1 .. LocalThreads : i \in PartOf(t)
    BY <1>1, PartsPartition
  <2> QED
    BY <1>2, <2>1 DEF RelationInv
<1> QED
  BY <1>1, <1>2, PartsPartition

LEMMA InvWhole ==
  ASSUME RelationTypes, RelationInv
  PROVE  RelationWhole
BY GenerateWhole, LoadWhole, LoadedPrefix, LocalizeWhole DEF RelationWhole

\* data_generation.h and io.h: a generated relation has each key as often as
\* it should and with its payload, it is loaded as it was written, and the parts of numa_localize are a partition of it.
THEOREM AlwaysRelationWhole == RelationSpec => []RelationWhole
<1>1. RelationInit \/ RelationIdle => RelationTypes /\ RelationInv
  BY RelationInitTypes, RelationInitInv
<1>2. RelationTypes /\ RelationInv /\ [RelationNext]_relationVars
        => RelationTypes' /\ RelationInv'
  BY RelationNextTypes, RelationNextInv
<1>3. RelationTypes /\ RelationInv => RelationWhole
  BY InvWhole
<1> QED
  BY <1>1, <1>2, <1>3, PTL DEF RelationSpec
-----------------------------------------------------------------------------
(* Arithmetic.                                                             *)

LEMMA DivBounds ==
  ASSUME NEW a \in Int, NEW d \in Nat \ {0}
  PROVE  /\ a \div d \in Int
         /\ (a \div d) * d <= a
         /\ a < (a \div d) * d + d
OBVIOUS

LEMMA TimesOrder ==
  ASSUME NEW c \in Nat, NEW a \in Nat, NEW b \in Nat, a <= b
  PROVE  c * a \in Nat /\ c * b \in Nat /\ c * a <= c * b
OBVIOUS

LEMMA DivNat ==
  ASSUME NEW a \in Nat, NEW d \in Nat \ {0}
  PROVE  a \div d \in Nat
OBVIOUS

LEMMA LineOrder ==
  ASSUME NEW base \in Nat, NEW dy \in Nat, NEW c \in Int, NEW e \in Int, c <= e
  PROVE  /\ base + dy * c \in Int /\ base + dy * e \in Int
         /\ base + dy * c <= base + dy * e
<1>1. dy * c \in Int /\ dy * e \in Int /\ dy * c <= dy * e
  OBVIOUS
<1> QED BY <1>1

LEMMA ShiftBounds ==
  ASSUME NEW y \in Int, NEW q \in Int, NEW t \in Int, NEW e \in Int, NEW r \in Int,
         t - e <= q, q <= t + e + r
  PROVE  y + q \in Int /\ (y + t) - e <= y + q /\ y + q <= (y + t) + e + r
OBVIOUS

\* Division keeps the order of fractions.
LEMMA DivMonotone ==
  ASSUME NEW a \in Int, NEW b \in Int, NEW d \in Nat \ {0}, NEW e \in Nat \ {0},
         a * e <= b * d
  PROVE  a \div d <= b \div e
<1> DEFINE q == a \div d
           r == b \div e
<1>1. /\ q \in Int /\ q * d <= a
      /\ r \in Int /\ b < r * e + e
  BY DivBounds
<1> HIDE DEF q, r
<1>2. SUFFICES ASSUME r + 1 <= q PROVE FALSE
  BY <1>1 DEF q, r
<1>3. (r + 1) * d <= q * d
  BY <1>1, <1>2
<1>4. (r + 1) * d <= a
  BY <1>1, <1>3
<1>5. ((r + 1) * d) * e <= a * e
  BY <1>1, <1>4
<1>6. b * d < ((r + 1) * e) * d
  BY <1>1
<1> QED BY <1>1, <1>5, <1>6

LEMMA PowerPositive == ASSUME NEW n \in Nat PROVE 2 ^ n \in Nat \ {0}
<1>1. IsFiniteSet(1 .. n) /\ Cardinality(1 .. n) = n
  BY FS_Interval
<1>2. IsFiniteSet(SUBSET (1 .. n)) /\ Cardinality(SUBSET (1 .. n)) = 2 ^ n
  BY <1>1, FS_SUBSET
<1>3. Cardinality(SUBSET (1 .. n)) \in Nat
  BY <1>2, FS_CardinalityType
<1>4. SUBSET (1 .. n) # {}
  OBVIOUS
<1>5. Cardinality(SUBSET (1 .. n)) # 0
  BY <1>2, <1>4, FS_EmptySet
<1> QED BY <1>2, <1>3, <1>5

\* A set of natural numbers has a least one.
LEMMA LeastNat ==
  ASSUME NEW T \in SUBSET Nat, T # {}
  PROVE  \E x \in T : \A y \in T : x <= y
<1> DEFINE R == OpToRel(<, Nat)
<1>1. IsWellFoundedOn(R, Nat)
  BY NatLessThanWellFounded
<1> HIDE DEF R
<1>2. PICK x \in T : \A y \in T : ~ (<<y, x>> \in R)
  BY <1>1, WFMin
<1>3. ASSUME NEW y \in T, y < x PROVE <<y, x>> \in R
  BY <1>3 DEF R, OpToRel
<1>4. ASSUME NEW y \in T PROVE x <= y
  <2>1. x \in Nat /\ y \in Nat /\ ~ (y < x)
    BY <1>2, <1>3
  <2> QED BY <2>1
<1> QED BY <1>4

LEMMA MinIsLeast ==
  ASSUME NEW T \in SUBSET Nat, T # {}
  PROVE  Min(T) \in T /\ \A y \in T : Min(T) <= y
BY LeastNat DEF Min

-----------------------------------------------------------------------------
(* The sample.                                                             *)

\* Where the first copy of a key is.
Fresh(s, i) == i = 1 \/ s[i - 1] < s[i]

LEMMA SampleSorted ==
  ASSUME NEW s \in Samples
  PROVE  /\ s \in Seq(Nat) /\ Len(s) \in Nat /\ Len(s) > 1
         /\ \A i \in 1 .. Len(s) : s[i] \in Nat
         /\ s[1] \in Nat /\ Last(s) \in Nat /\ s[1] < Last(s)
         /\ Last(s) = s[Len(s)]
         /\ \A i, j \in 1 .. Len(s) : i <= j => s[i] <= s[j]
<1>1. /\ s \in Seq(Nat) /\ Len(s) \in Nat /\ Len(s) > 1
      /\ \A i \in 1 .. Len(s) : s[i] \in Nat
      /\ Last(s) = s[Len(s)]
      /\ s[1] < Last(s)
      /\ \A i \in 2 .. Len(s) : s[i - 1] <= s[i]
  <2>1. s \in Seq(Nat) /\ Len(s) > 1 /\ s[1] < Last(s) /\ \A i \in 2 .. Len(s) : s[i - 1] <= s[i]
    BY LearnedModelsAssumption
  <2>2. Len(s) \in Nat /\ \A i \in 1 .. Len(s) : s[i] \in Nat
    BY <2>1
  <2> QED BY <2>1, <2>2 DEF Last
<1>2. ASSUME NEW i \in 1 .. Len(s), NEW j \in 1 .. Len(s), i <= j
      PROVE  s[i] <= s[j]
  <2> DEFINE T == {k \in 1 .. Len(s) : i <= k /\ s[k] < s[i]}
  <2>1. SUFFICES ASSUME T # {} PROVE FALSE
    <3>1. s[i] \in Nat /\ s[j] \in Nat
      BY <1>1
    <3>2. s[j] < s[i] => j \in T
      BY <1>2
    <3> QED BY <3>1, <3>2
  <2>2. PICK k \in T : \A m \in T : k <= m
    <3>1. T \in SUBSET Nat
      BY <1>1
    <3> QED BY <2>1, <3>1, LeastNat
  <2>3. k \in 2 .. Len(s) /\ k - 1 \in 1 .. Len(s) /\ i <= k - 1
    BY <1>1
  <2>4. k - 1 \notin T
    BY <2>2, <2>3
  <2>5. s[i] <= s[k - 1] /\ s[k - 1] <= s[k]
    BY <1>1, <2>3, <2>4
  <2>6. s[k] < s[i]
    OBVIOUS
  <2>7. s[i] \in Nat /\ s[k] \in Nat /\ s[k - 1] \in Nat
    BY <1>1, <2>3
  <2> QED BY <2>5, <2>6, <2>7
<1> QED BY <1>1, <1>2

\* A first copy comes before every key that is not smaller.
LEMMA FreshIsFirst ==
  ASSUME NEW s \in Samples,
         NEW i \in 1 .. Len(s), Fresh(s, i), NEW j \in 1 .. Len(s), s[i] <= s[j]
  PROVE  i <= j
<1>1. SUFFICES ASSUME j < i PROVE FALSE
  BY SampleSorted
<1>2. i - 1 \in 1 .. Len(s) /\ j <= i - 1 /\ s[i - 1] < s[i]
  BY <1>1, SampleSorted DEF Fresh
<1>3. s[j] <= s[i - 1]
  BY <1>2, SampleSorted
<1> QED BY <1>2, <1>3, SampleSorted

FirstPlace(s, k) == Min({i \in 1 .. Len(s) : s[i] = k})

LEMMA FirstIndexFacts ==
  ASSUME NEW s \in Samples, NEW i \in 1 .. Len(s)
  PROVE  /\ FirstPlace(s, s[i]) \in 1 .. Len(s) /\ FirstPlace(s, s[i]) <= i
         /\ s[FirstPlace(s, s[i])] = s[i] /\ Fresh(s, FirstPlace(s, s[i]))
<1> DEFINE k == s[i]
           T == {m \in 1 .. Len(s) : s[m] = k}
           f == FirstPlace(s, k)
<1>1. T \in SUBSET Nat /\ i \in T
  BY SampleSorted
<1>2. f \in T /\ \A m \in T : f <= m
  BY <1>1, MinIsLeast DEF FirstPlace
<1> HIDE DEF f
<1>3. f \in 1 .. Len(s) /\ s[f] = k
  BY <1>2
<1>4. ASSUME f # 1 PROVE s[f - 1] < s[f]
  <2>1. f - 1 \in 1 .. Len(s) /\ f - 1 \notin T
    BY <1>2, <1>3, <1>4, SampleSorted
  <2>2. s[f - 1] # s[f]
    BY <1>3, <2>1
  <2>3. s[f - 1] <= s[f]
    <3>1. f - 1 <= f
      BY <1>3, SampleSorted
    <3> QED BY <1>3, <2>1, <3>1, SampleSorted
  <2> QED BY <1>3, <2>1, <2>2, <2>3, SampleSorted
<1>5. f <= i
  BY <1>1, <1>2
<1> QED BY <1>3, <1>4, <1>5 DEF Fresh, f

LEMMA FreshIsFirstIndex ==
  ASSUME NEW s \in Samples, NEW i \in 1 .. Len(s), Fresh(s, i)
  PROVE  FirstPlace(s, s[i]) = i
<1> DEFINE f == FirstPlace(s, s[i])
<1>1. f \in 1 .. Len(s) /\ f <= i /\ s[f] = s[i]
  BY FirstIndexFacts
<1>2. i <= f
  BY <1>1, FreshIsFirst, SampleSorted
<1> QED BY <1>1, <1>2, SampleSorted

-----------------------------------------------------------------------------
(* Prefixes.                                                               *)

BitsOf(diff) == CHOOSE k \in 1 .. 64 : 2 ^ (k - 1) <= diff /\ diff < 2 ^ k
ShiftOf(s) == IF BitsOf(Last(s) - s[1]) < NumRadixBits THEN 0
              ELSE BitsOf(Last(s) - s[1]) - NumRadixBits
PrefixOf(s, k) == (k - s[1]) \div 2 ^ ShiftOf(s)

LEMMA PrefixIs == \A k : Prefix(k) = PrefixOf(keysToLearn, k)
BY DEF Prefix, PrefixOf, num_shift_bits, ShiftOf, BitsOf, min_key, max_key

LEMMA ShiftNat ==
  ASSUME NEW s \in Samples
  PROVE  ShiftOf(s) \in Nat
<1> DEFINE diff == Last(s) - s[1]
           T == {k \in 0 .. 64 : diff < 2 ^ k}
<1>1. diff \in Nat \ {0}
  BY SampleSorted
<1>2. PICK k \in 1 .. 64 : diff < 2 ^ k
  BY LearnedModelsAssumption
<1>3. PICK m \in T : \A j \in T : m <= j
  <2>1. T \in SUBSET Nat /\ k \in T
    BY <1>2
  <2> QED BY <2>1, LeastNat
<1>4. m # 0
  <2>1. SUFFICES ASSUME m = 0 PROVE FALSE
    OBVIOUS
  <2>2. diff < 2 ^ 0
    BY <1>3, <2>1
  <2>3. 2 ^ 0 = 1
    OBVIOUS
  <2>4. diff < 1
    BY <2>2, <2>3
  <2> QED BY <1>1, <2>4
<1>5. m \in 1 .. 64 /\ m - 1 \in 0 .. 64 /\ m - 1 \notin T
  BY <1>3, <1>4
<1>6. 2 ^ (m - 1) <= diff
  <2>1. 2 ^ (m - 1) \in Nat
    BY <1>5, PowerPositive
  <2> QED BY <1>1, <1>5, <2>1
<1>7. \E j \in 1 .. 64 : 2 ^ (j - 1) <= diff /\ diff < 2 ^ j
  BY <1>3, <1>5, <1>6
<1>8. BitsOf(diff) \in 1 .. 64
  BY <1>7 DEF BitsOf
<1>9. NumRadixBits \in Nat
  BY LearnedModelsAssumption
<1> QED BY <1>8, <1>9 DEF ShiftOf

LEMMA PrefixFacts ==
  ASSUME NEW s \in Samples
  PROVE  /\ PrefixOf(s, s[1]) = 0
         /\ \A k \in Nat : k >= s[1] => PrefixOf(s, k) \in Nat
         /\ \A k, m \in Nat : s[1] <= k /\ k <= m => PrefixOf(s, k) <= PrefixOf(s, m)
<1> DEFINE d == 2 ^ ShiftOf(s)
<1>1. d \in Nat \ {0} /\ s[1] \in Nat
  BY ShiftNat, PowerPositive, SampleSorted
<1> HIDE DEF d
<1>2. \A k : PrefixOf(s, k) = (k - s[1]) \div d
  BY DEF PrefixOf, d
<1>3. PrefixOf(s, s[1]) = 0
  BY <1>1, <1>2
<1>4. ASSUME NEW k \in Nat, k >= s[1] PROVE PrefixOf(s, k) \in Nat
  BY <1>1, <1>2, <1>4, DivNat
<1>5. ASSUME NEW k \in Nat, NEW m \in Nat, s[1] <= k, k <= m
      PROVE  PrefixOf(s, k) <= PrefixOf(s, m)
  <2>1. (k - s[1]) * d <= (m - s[1]) * d
    BY <1>1, <1>5
  <2>2. k - s[1] \in Int /\ m - s[1] \in Int
    BY <1>1
  <2>3. (k - s[1]) \div d <= (m - s[1]) \div d
    BY <1>1, <2>1, <2>2, DivMonotone
  <2> QED BY <1>2, <2>3
<1> QED BY <1>3, <1>4, <1>5

-----------------------------------------------------------------------------
(* The builder.                                                            *)

Points == [x : Nat, y : Nat]

\* Seen from b, the line to p does not lie above the line to q.
Below(b, p, q) == (p.y - b.y) * (q.x - b.x) <= (q.y - b.y) * (p.x - b.x)

\* The limits of the i-th key.
UpperAt(s, i) == Coord(s[i], i - 1 + MaxError)
LowerAt(s, i) == Coord(s[i], IF i - 1 < MaxError THEN 0 ELSE i - 1 - MaxError)

\* A point of the CDF: a key with its first position.
CdfPoint(s, p) ==
  p \in Points /\ p.y + 1 \in 1 .. Len(s) /\ p.x = s[p.y + 1] /\ Fresh(s, p.y + 1)

\* The first copies of the keys after a point, up to x.
Between(s, a, x) == {i \in 1 .. Len(s) : Fresh(s, i) /\ a.x < s[i] /\ s[i] <= x}

\* The line from a to b passes between the limits of every key.
WithinError(s, a, b) ==
  \A i \in Between(s, a, b.x) : Below(a, LowerAt(s, i), b) /\ Below(a, b, UpperAt(s, i))

\* The corridor seen from b is within the limits of every key since b, and
\* the last point of the CDF is in it.
Corridor(s, b, upper, lower, point) ==
  /\ upper \in Points /\ lower \in Points
  /\ upper.x > b.x /\ lower.x > b.x
  /\ Below(b, point, upper) /\ Below(b, lower, point)
  /\ \A i \in Between(s, b, point.x) :
       Below(b, upper, UpperAt(s, i)) /\ Below(b, LowerAt(s, i), lower)

\* The points are on the CDF, from left to right, from the smallest key on.
Rising(s, points) ==
  /\ points \in Seq(Points) /\ Len(points) > 0 /\ points[1] = Coord(s[1], 0)
  /\ \A i \in 1 .. Len(points) : CdfPoint(s, points[i])
  /\ \A i, j \in 1 .. Len(points) : i < j => points[i].x < points[j].x

Precise(s, points, n) == \A j \in 1 .. n - 1 : WithinError(s, points[j], points[j + 1])

\* The table holds how many points have a smaller prefix.
Indexed(s, table, last, points) ==
  \A q \in 0 .. last :
    /\ table[q] \in 0 .. Len(points)
    /\ \A i \in 1 .. Len(points) : i <= table[q] <=> PrefixOf(s, points[i].x) < q

Table(s) == [0 .. PrefixOf(s, Last(s)) + 1 -> Nat]

BuildInv ==
  /\ prev_key = keysToLearn[curr_num_keys] /\ prev_position = curr_num_keys - 1
  /\ CdfPoint(keysToLearn, prev_point) /\ prev_point.x = prev_key
  /\ Rising(keysToLearn, spline_points)
  /\ curr_num_distinct_keys \in Nat \ {0}
  /\ curr_num_distinct_keys = 1 => spline_points = <<prev_point>>
  /\ curr_num_distinct_keys > 1 =>
       /\ Last(spline_points).x < prev_point.x
       /\ Corridor(keysToLearn, Last(spline_points), upper_limit, lower_limit, prev_point)
  /\ Precise(keysToLearn, spline_points, Len(spline_points))
  /\ prev_prefix = PrefixOf(keysToLearn, Last(spline_points).x)
  /\ Indexed(keysToLearn, radix_table, prev_prefix, spline_points)

\* Only the last point is not on the CDF: it is the last copy of its key.
SplineFinished(s, points, table) ==
  LET n == Len(points)
  IN  /\ points \in Seq(Points) /\ n > 1
      /\ points[1] = Coord(s[1], 0) /\ points[n] = Coord(Last(s), Len(s) - 1)
      /\ \A i, j \in 1 .. n : i < j => points[i].x < points[j].x /\ points[i].y <= points[j].y
      /\ Precise(s, points, n - 1)
      /\ WithinError(s, points[n - 1], Coord(Last(s), FirstPlace(s, Last(s)) - 1))
      /\ Indexed(s, table, PrefixOf(s, Last(s)) + 1, points)

SplineInv ==
  /\ radix_table \in Table(keysToLearn)
  /\ modelPc \in {"add", "finalize"} =>
       /\ curr_num_keys \in 0 .. num_keys
       /\ modelPc = "add" <=> curr_num_keys < num_keys
       /\ curr_num_keys = 0 => NoSpline /\ \A q \in DOMAIN radix_table : radix_table[q] = 0
       /\ curr_num_keys > 0 => BuildInv
  /\ modelPc = "done" /\ second_level_models = <<>> =>
       SplineFinished(keysToLearn, spline_points, radix_table)

-----------------------------------------------------------------------------
(* Slopes.                                                                 *)

LEMMA CrossTransitive ==
  ASSUME NEW yp \in Int, NEW yq \in Int, NEW yr \in Int,
         NEW dp \in Nat \ {0}, NEW dq \in Nat \ {0}, NEW dr \in Nat \ {0},
         yp * dq <= yq * dp, yq * dr <= yr * dq
  PROVE  yp * dr <= yr * dp
OBVIOUS

LEMMA BelowTransitive ==
  ASSUME NEW b \in Points, NEW p \in Points, NEW q \in Points, NEW r \in Points,
         b.x < p.x, b.x < q.x, b.x < r.x, Below(b, p, q), Below(b, q, r)
  PROVE  Below(b, p, r)
<1> DEFINE yp == p.y - b.y
           yq == q.y - b.y
           yr == r.y - b.y
           dp == p.x - b.x
           dq == q.x - b.x
           dr == r.x - b.x
<1>1. /\ yp \in Int /\ yq \in Int /\ yr \in Int
      /\ dp \in Nat \ {0} /\ dq \in Nat \ {0} /\ dr \in Nat \ {0}
  BY DEF Points
<1>2. yp * dq <= yq * dp /\ yq * dr <= yr * dq
  BY DEF Below
<1> HIDE DEF yp, yq, yr, dp, dq, dr
<1>3. yp * dr <= yr * dp
  BY <1>1, <1>2, CrossTransitive
<1> QED BY <1>3 DEF Below, yp, dp, yr, dr

\* Points one above the other.
LEMMA BelowColumn ==
  ASSUME NEW b \in Points, NEW p \in Points, NEW q \in Points,
         b.x < p.x, p.x = q.x, p.y <= q.y
  PROVE  Below(b, p, q)
<1>1. p.x - b.x \in Nat /\ p.y - b.y \in Int /\ q.y - b.y \in Int /\ p.y - b.y <= q.y - b.y
  BY DEF Points
<1>2. q.x - b.x = p.x - b.x
  OBVIOUS
<1> QED BY <1>1, <1>2 DEF Below

LEMMA BelowReflexive == ASSUME NEW b \in Points, NEW p \in Points PROVE Below(b, p, p)
BY DEF Below, Points

LEMMA OrientationBelow ==
  ASSUME NEW b \in Points, NEW p \in Points, NEW q \in Points
  PROVE  LET o == Orientation(p.x - b.x, p.y - b.y, q.x - b.x, q.y - b.y)
         IN  /\ o = "CW" => Below(b, q, p)
             /\ o # "CW" => Below(b, p, q)
             /\ o = "CCW" => Below(b, p, q)
             /\ o # "CCW" => Below(b, q, p)
<1> DEFINE dy1 == p.y - b.y
           dx1 == p.x - b.x
           dy2 == q.y - b.y
           dx2 == q.x - b.x
<1>1. dy1 \in Int /\ dx1 \in Int /\ dy2 \in Int /\ dx2 \in Int
  BY DEF Points
<1>2. /\ Below(b, q, p) <=> dy2 * dx1 <= dy1 * dx2
      /\ Below(b, p, q) <=> dy1 * dx2 <= dy2 * dx1
  BY DEF Below
<1> HIDE DEF dy1, dx1, dy2, dx2
<1>3. LET o == Orientation(dx1, dy1, dx2, dy2)
      IN  /\ o = "CW" => dy2 * dx1 <= dy1 * dx2
          /\ o # "CW" => dy1 * dx2 <= dy2 * dx1
          /\ o = "CCW" => dy1 * dx2 <= dy2 * dx1
          /\ o # "CCW" => dy2 * dx1 <= dy1 * dx2
  BY <1>1 DEF Orientation
<1> QED BY <1>2, <1>3 DEF dy1, dx1, dy2, dx2
-----------------------------------------------------------------------------
(* One more key.                                                           *)

LEMMA LimitPoints ==
  ASSUME NEW s \in Samples, NEW i \in 1 .. Len(s)
  PROVE  /\ UpperAt(s, i) \in Points /\ UpperAt(s, i).x = s[i] /\ UpperAt(s, i).y >= i - 1
         /\ LowerAt(s, i) \in Points /\ LowerAt(s, i).x = s[i] /\ LowerAt(s, i).y <= i - 1
         /\ Coord(s[i], i - 1) \in Points
         /\ Coord(s[i], i - 1).x = s[i] /\ Coord(s[i], i - 1).y = i - 1
<1>1. MaxError \in Nat
  BY LearnedModelsAssumption
<1>2. s[i] \in Nat /\ i \in Nat /\ i - 1 \in Nat
  BY SampleSorted
<1> QED BY <1>1, <1>2 DEF UpperAt, LowerAt, Coord, Points

LEMMA BetweenNext ==
  ASSUME NEW s \in Samples, NEW n \in 1 .. Len(s), n + 1 \in 1 .. Len(s),
         NEW b, NEW i \in Between(s, b, s[n + 1])
  PROVE  i = n + 1 \/ i \in Between(s, b, s[n])
<1>1. i \in 1 .. Len(s) /\ Fresh(s, i) /\ b.x < s[i] /\ s[i] <= s[n + 1]
  BY DEF Between
<1>2. i <= n + 1
  BY <1>1, FreshIsFirst
<1>3. ASSUME i # n + 1 PROVE i <= n
  BY <1>1, <1>2, <1>3, SampleSorted
<1>4. ASSUME i <= n PROVE s[i] <= s[n]
  BY <1>1, <1>4, SampleSorted
<1> QED BY <1>1, <1>3, <1>4 DEF Between

LEMMA CorridorGivesError ==
  ASSUME NEW s \in Samples, NEW b \in Points, NEW p \in Points, b.x < p.x,
         NEW upper, NEW lower, Corridor(s, b, upper, lower, p)
  PROVE  WithinError(s, b, p)
<1>1. /\ upper \in Points /\ lower \in Points /\ upper.x > b.x /\ lower.x > b.x
      /\ Below(b, p, upper) /\ Below(b, lower, p)
  BY DEF Corridor
<1>2. ASSUME NEW i \in Between(s, b, p.x)
      PROVE  Below(b, LowerAt(s, i), p) /\ Below(b, p, UpperAt(s, i))
  <2>1. Below(b, upper, UpperAt(s, i)) /\ Below(b, LowerAt(s, i), lower)
    BY DEF Corridor
  <2>2. i \in 1 .. Len(s) /\ b.x < s[i]
    BY DEF Between
  <2>3. /\ UpperAt(s, i) \in Points /\ b.x < UpperAt(s, i).x
        /\ LowerAt(s, i) \in Points /\ b.x < LowerAt(s, i).x
    BY <2>2, LimitPoints
  <2>4. b.x < upper.x /\ b.x < lower.x
    BY <1>1 DEF Points
  <2>5. Below(b, p, UpperAt(s, i))
    BY <1>1, <2>1, <2>3, <2>4, BelowTransitive
  <2>6. Below(b, LowerAt(s, i), p)
    BY <1>1, <2>1, <2>3, <2>4, BelowTransitive
  <2> QED BY <2>5, <2>6
<1> QED BY <1>2 DEF WithinError

\* The corridor of one key.
LEMMA CorridorStarts ==
  ASSUME NEW s \in Samples, NEW n \in 1 .. Len(s), n + 1 \in 1 .. Len(s), s[n] < s[n + 1],
         NEW b \in Points, b.x = s[n]
  PROVE  Corridor(s, b, UpperAt(s, n + 1), LowerAt(s, n + 1), Coord(s[n + 1], n))
<1> DEFINE u == UpperAt(s, n + 1)
           l == LowerAt(s, n + 1)
           p == Coord(s[n + 1], n)
<1>1. /\ u \in Points /\ l \in Points /\ p \in Points
      /\ u.x = s[n + 1] /\ l.x = s[n + 1] /\ p.x = s[n + 1]
      /\ p.y <= u.y /\ l.y <= p.y
  <2>1. (n + 1) - 1 = n
    OBVIOUS
  <2>2. Coord(s[n + 1], n) = Coord(s[n + 1], (n + 1) - 1)
    BY <2>1
  <2>3. /\ u \in Points /\ l \in Points /\ p \in Points
        /\ u.x = s[n + 1] /\ l.x = s[n + 1] /\ p.x = s[n + 1]
        /\ p.y = n /\ u.y >= n /\ l.y <= n
    BY <2>1, <2>2, LimitPoints
  <2> HIDE DEF u, l, p
  <2> QED BY <2>3 DEF Points
<1>2. s[n] \in Nat /\ s[n + 1] \in Nat
  BY SampleSorted
<1>3. Below(b, p, u) /\ Below(b, l, p)
  BY <1>1, <1>2, BelowColumn
<1>4. ASSUME NEW i \in Between(s, b, p.x) PROVE i = n + 1
  <2>1. i = n + 1 \/ i \in Between(s, b, s[n])
    BY <1>1, BetweenNext
  <2>2. i \notin Between(s, b, s[n])
    <3>1. SUFFICES ASSUME i \in Between(s, b, s[n]) PROVE FALSE
      OBVIOUS
    <3>2. i \in 1 .. Len(s) /\ s[n] < s[i] /\ s[i] <= s[n]
      BY <3>1 DEF Between
    <3> QED BY <1>2, <3>2, SampleSorted
  <2> QED BY <2>1, <2>2
<1>5. Below(b, u, u) /\ Below(b, l, l)
  BY <1>1, BelowReflexive
<1>6. u.x > b.x /\ l.x > b.x
  BY <1>1, <1>2
<1> HIDE DEF p
<1>7. \A i \in Between(s, b, p.x) : Below(b, u, UpperAt(s, i)) /\ Below(b, LowerAt(s, i), l)
  BY <1>4, <1>5
<1>8. Corridor(s, b, u, l, p)
  BY <1>1, <1>3, <1>6, <1>7 DEF Corridor
<1> QED BY <1>8 DEF p

\* The corridor, narrowed by a key that does not cut it.
LEMMA CorridorNarrows ==
  ASSUME NEW s \in Samples, NEW n \in 1 .. Len(s), n + 1 \in 1 .. Len(s), s[n] < s[n + 1],
         NEW b \in Points, NEW p, p.x = s[n], b.x < s[n],
         NEW upper, NEW lower, Corridor(s, b, upper, lower, p),
         NEW u, u \in {upper, UpperAt(s, n + 1)}, Below(b, u, upper), Below(b, u, UpperAt(s, n + 1)),
         Below(b, Coord(s[n + 1], n), upper),
         NEW l, l \in {lower, LowerAt(s, n + 1)}, Below(b, lower, l), Below(b, LowerAt(s, n + 1), l),
         Below(b, lower, Coord(s[n + 1], n))
  PROVE  Corridor(s, b, u, l, Coord(s[n + 1], n))
<1> DEFINE q == Coord(s[n + 1], n)
           un == UpperAt(s, n + 1)
           ln == LowerAt(s, n + 1)
<1>1. /\ un \in Points /\ ln \in Points /\ q \in Points
      /\ un.x = s[n + 1] /\ ln.x = s[n + 1] /\ q.x = s[n + 1]
      /\ q.y <= un.y /\ ln.y <= q.y
  <2>1. (n + 1) - 1 = n
    OBVIOUS
  <2>2. Coord(s[n + 1], n) = Coord(s[n + 1], (n + 1) - 1)
    BY <2>1
  <2>3. /\ un \in Points /\ ln \in Points /\ q \in Points
        /\ un.x = s[n + 1] /\ ln.x = s[n + 1] /\ q.x = s[n + 1]
        /\ q.y = n /\ un.y >= n /\ ln.y <= n
    BY <2>1, <2>2, LimitPoints
  <2> HIDE DEF un, ln, q
  <2> QED BY <2>3 DEF Points
<1> HIDE DEF q, un, ln
<1>2. s[n] \in Nat /\ s[n + 1] \in Nat /\ b.x \in Nat
  BY SampleSorted DEF Points
<1>3. b.x < un.x /\ b.x < ln.x /\ b.x < q.x
  BY <1>1, <1>2
<1>4. upper \in Points /\ lower \in Points /\ upper.x > b.x /\ lower.x > b.x
  BY DEF Corridor
<1>5. u \in Points /\ l \in Points /\ b.x < u.x /\ b.x < l.x /\ b.x < upper.x /\ b.x < lower.x
  BY <1>1, <1>2, <1>3, <1>4 DEF Points, un, ln
<1>6. Below(b, q, u)
  <2>1. Below(b, q, un)
    BY <1>1, <1>3, BelowColumn
  <2> QED BY <2>1 DEF q, un
<1>7. Below(b, l, q)
  <2>1. Below(b, ln, q)
    BY <1>1, <1>3, BelowColumn
  <2> QED BY <2>1 DEF q, ln
<1>8. ASSUME NEW i \in Between(s, b, q.x)
      PROVE  Below(b, u, UpperAt(s, i)) /\ Below(b, LowerAt(s, i), l)
  <2>1. CASE i = n + 1
    BY <2>1
  <2>2. CASE i # n + 1
    <3>1. i \in Between(s, b, p.x)
      BY <1>1, <2>2, BetweenNext
    <3>2. Below(b, upper, UpperAt(s, i)) /\ Below(b, LowerAt(s, i), lower)
      BY <3>1 DEF Corridor
    <3>3. i \in 1 .. Len(s) /\ b.x < s[i]
      BY DEF Between
    <3>4. /\ UpperAt(s, i) \in Points /\ b.x < UpperAt(s, i).x
          /\ LowerAt(s, i) \in Points /\ b.x < LowerAt(s, i).x
      BY <3>3, LimitPoints
    <3>5. Below(b, u, UpperAt(s, i))
      BY <1>4, <1>5, <3>2, <3>4, BelowTransitive
    <3>6. Below(b, LowerAt(s, i), l)
      BY <1>4, <1>5, <3>2, <3>4, BelowTransitive
    <3> QED BY <3>5, <3>6
  <2> QED BY <2>1, <2>2
<1>9. u.x > b.x /\ l.x > b.x
  BY <1>2, <1>5 DEF Points
<1>10. Corridor(s, b, u, l, q)
  BY <1>5, <1>6, <1>7, <1>8, <1>9 DEF Corridor
<1> QED BY <1>10 DEF q
-----------------------------------------------------------------------------
(* One more point on the spline.                                           *)

LEMMA AppendedPoints ==
  ASSUME NEW points \in Seq(Points), NEW p \in Points
  PROVE  /\ Append(points, p) \in Seq(Points)
         /\ Len(Append(points, p)) = Len(points) + 1
         /\ Last(Append(points, p)) = p
         /\ Append(points, p)[Len(points) + 1] = p
         /\ \A i \in 1 .. Len(points) : Append(points, p)[i] = points[i]
BY DEF Last

LEMMA RisingFacts ==
  ASSUME NEW s \in Samples, NEW points, Rising(s, points)
  PROVE  /\ Len(points) \in Nat \ {0} /\ Len(points) \in 1 .. Len(points)
         /\ Last(points) = points[Len(points)] /\ Last(points) \in Points
         /\ CdfPoint(s, Last(points))
         /\ \A i \in 1 .. Len(points) :
              /\ points[i] \in Points /\ points[i].x \in Nat
              /\ points[i].x >= s[1] /\ points[i].x <= Last(s)
              /\ points[i].x <= Last(points).x
<1>1. points \in Seq(Points) /\ Len(points) \in Nat \ {0} /\ Len(points) \in 1 .. Len(points)
  BY DEF Rising
<1>2. Last(points) = points[Len(points)]
  BY DEF Last
<1>3. ASSUME NEW i \in 1 .. Len(points)
      PROVE  /\ points[i] \in Points /\ points[i].x \in Nat
             /\ points[i].x >= s[1] /\ points[i].x <= Last(s)
  <2>1. CdfPoint(s, points[i])
    BY DEF Rising
  <2>2. points[i] \in Points /\ points[i].y + 1 \in 1 .. Len(s) /\ points[i].x = s[points[i].y + 1]
    BY <2>1 DEF CdfPoint
  <2>3. s[1] <= s[points[i].y + 1] /\ s[points[i].y + 1] <= s[Len(s)]
    BY <2>2, SampleSorted
  <2> QED BY <2>2, <2>3, SampleSorted DEF Points
<1>4. ASSUME NEW i \in 1 .. Len(points) PROVE points[i].x <= Last(points).x
  <2>1. CASE i = Len(points)
    BY <1>2, <1>3, <2>1
  <2>2. CASE i # Len(points)
    <3>1. i < Len(points)
      BY <1>1, <2>2
    <3>2. points[i].x < points[Len(points)].x
      BY <1>1, <3>1 DEF Rising
    <3> QED BY <1>1, <1>2, <1>3, <3>2
  <2> QED BY <2>1, <2>2
<1>5. CdfPoint(s, Last(points))
  BY <1>1, <1>2 DEF Rising
<1> QED BY <1>1, <1>2, <1>3, <1>4, <1>5

LEMMA RisingAppend ==
  ASSUME NEW s \in Samples, NEW points, Rising(s, points),
         NEW p, CdfPoint(s, p), Last(points).x < p.x
  PROVE  Rising(s, Append(points, p))
<1> DEFINE more == Append(points, p)
           n == Len(points)
<1>1. p \in Points /\ points \in Seq(Points) /\ n \in Nat \ {0}
  BY RisingFacts DEF CdfPoint, Rising
<1>2. /\ more \in Seq(Points) /\ Len(more) = n + 1
      /\ more[n + 1] = p /\ \A i \in 1 .. n : more[i] = points[i]
  BY <1>1, AppendedPoints
<1> HIDE DEF more
<1>3. \A i \in 1 .. n : points[i].x \in Nat /\ points[i].x < p.x
  <2>1. p.x \in Nat /\ Last(points).x \in Nat
    BY <1>1, RisingFacts DEF Points
  <2> QED BY <2>1, RisingFacts
<1> HIDE DEF n
<1>4. ASSUME NEW i \in 1 .. n + 1 PROVE CdfPoint(s, more[i])
  <2>1. CASE i = n + 1
    BY <1>2, <2>1
  <2>2. CASE i # n + 1
    <3>1. i \in 1 .. n
      BY <1>1, <2>2
    <3> QED BY <1>2, <3>1 DEF Rising, n
  <2> QED BY <2>1, <2>2
<1>5. ASSUME NEW i \in 1 .. n + 1, NEW j \in 1 .. n + 1, i < j PROVE more[i].x < more[j].x
  <2>1. i \in 1 .. n
    BY <1>1, <1>5
  <2>2. CASE j = n + 1
    BY <1>2, <1>3, <2>1, <2>2
  <2>3. CASE j # n + 1
    <3>1. j \in 1 .. n
      BY <1>1, <2>3
    <3> QED BY <1>2, <1>5, <2>1, <3>1 DEF Rising, n
  <2> QED BY <2>2, <2>3
<1>6. more[1] = Coord(s[1], 0) /\ Len(more) > 0
  BY <1>1, <1>2 DEF Rising
<1>7. Rising(s, more)
  BY <1>2, <1>4, <1>5, <1>6 DEF Rising
<1> QED BY <1>7 DEF more

LEMMA PreciseAppend ==
  ASSUME NEW s \in Samples, NEW points \in Seq(Points), Len(points) > 0,
         Precise(s, points, Len(points)),
         NEW p \in Points, WithinError(s, Last(points), p)
  PROVE  Precise(s, Append(points, p), Len(Append(points, p)))
<1> DEFINE more == Append(points, p)
           n == Len(points)
<1>1. /\ n \in Nat /\ n > 0 /\ Len(more) = n + 1 /\ Last(points) = points[n]
      /\ more[n + 1] = p /\ \A i \in 1 .. n : more[i] = points[i]
  BY AppendedPoints DEF Last
<1> HIDE DEF more
<1>2. ASSUME NEW j \in 1 .. (n + 1) - 1 PROVE WithinError(s, more[j], more[j + 1])
  <2>1. j \in 1 .. n /\ more[j] = points[j]
    BY <1>1
  <2>2. CASE j = n
    BY <1>1, <2>1, <2>2
  <2>3. CASE j # n
    <3>1. j \in 1 .. n - 1 /\ more[j + 1] = points[j + 1]
      BY <1>1, <2>1, <2>3
    <3> QED BY <2>1, <3>1 DEF Precise
  <2> QED BY <2>2, <2>3
<1> QED BY <1>1, <1>2 DEF Precise, more

\* The prefixes up to the new point's that no point has had so far.
LEMMA IndexedAppend ==
  ASSUME NEW s \in Samples, NEW points, Rising(s, points),
         NEW last, last = PrefixOf(s, Last(points).x),
         NEW table \in Table(s), Indexed(s, table, last, points),
         NEW p \in Points, p.x >= Last(points).x, p.x <= Last(s)
  PROVE  LET new == [q \in DOMAIN table |->
                       IF q \in last + 1 .. PrefixOf(s, p.x) THEN Len(points) ELSE table[q]]
         IN  /\ new \in Table(s)
             /\ Indexed(s, new, PrefixOf(s, p.x), Append(points, p))
<1> DEFINE n == Len(points)
           more == Append(points, p)
           upto == PrefixOf(s, p.x)
           top == PrefixOf(s, Last(s))
           new == [q \in DOMAIN table |-> IF q \in last + 1 .. upto THEN n ELSE table[q]]
<1>1. /\ points \in Seq(Points) /\ n \in Nat \ {0}
      /\ Len(more) = n + 1 /\ more[n + 1] = p /\ \A i \in 1 .. n : more[i] = points[i]
  BY RisingFacts, AppendedPoints DEF Rising
<1>2. /\ p.x \in Nat /\ p.x >= s[1] /\ Last(points).x \in Nat /\ Last(points).x >= s[1]
      /\ Last(s) \in Nat /\ s[1] \in Nat
  BY RisingFacts, SampleSorted DEF Points
<1>3. last \in Nat /\ upto \in Nat /\ top \in Nat /\ last <= upto /\ upto <= top
  <2>1. last \in Nat /\ upto \in Nat
    BY <1>2, PrefixFacts
  <2>2. last <= upto
    BY <1>2, PrefixFacts
  <2>3. upto <= top
    BY <1>2, PrefixFacts
  <2>4. top \in Nat
    BY <1>2, SampleSorted, PrefixFacts
  <2> QED BY <2>1, <2>2, <2>3, <2>4
<1>4. ASSUME NEW i \in 1 .. n
      PROVE  PrefixOf(s, points[i].x) \in Nat /\ PrefixOf(s, points[i].x) <= last
  BY <1>2, RisingFacts, PrefixFacts
<1>5. DOMAIN table = 0 .. top + 1 /\ \A q \in 0 .. top + 1 : table[q] \in Nat
  BY DEF Table
<1>6. new \in Table(s)
  BY <1>1, <1>5 DEF Table
<1> HIDE DEF more, upto, top
<1>7. ASSUME NEW q \in 0 .. upto
      PROVE  /\ new[q] \in 0 .. n + 1
             /\ \A i \in 1 .. n + 1 : i <= new[q] <=> PrefixOf(s, more[i].x) < q
  <2>1. q \in DOMAIN table
    BY <1>3, <1>5
  <2>2. CASE q \in last + 1 .. upto
    <3>1. new[q] = n
      BY <2>1, <2>2
    <3>2. ASSUME NEW i \in 1 .. n PROVE PrefixOf(s, more[i].x) < q
      BY <1>1, <1>3, <1>4, <2>2
    <3>3. ~ (PrefixOf(s, more[n + 1].x) < q)
      BY <1>1, <1>3, <2>2 DEF upto
    <3> HIDE DEF new
    <3>4. ASSUME NEW i \in 1 .. n + 1 PROVE i <= new[q] <=> PrefixOf(s, more[i].x) < q
      <4>1. CASE i = n + 1
        BY <1>1, <3>1, <3>3, <4>1
      <4>2. CASE i # n + 1
        <5>1. i \in 1 .. n
          BY <1>1, <4>2
        <5> QED BY <1>1, <3>1, <3>2, <5>1
      <4> QED BY <4>1, <4>2
    <3> QED BY <1>1, <3>1, <3>4
  <2>3. CASE q \notin last + 1 .. upto
    <3>1. q \in 0 .. last
      BY <1>3, <2>3
    <3>2. new[q] = table[q]
      BY <2>1, <2>3
    <3>3. table[q] \in 0 .. n /\ \A i \in 1 .. n : i <= table[q] <=> PrefixOf(s, points[i].x) < q
      BY <3>1 DEF Indexed
    <3>4. ~ (PrefixOf(s, points[n].x) < q) /\ n \in 1 .. n
      <4>1. n \in 1 .. n /\ points[n] = Last(points)
        BY RisingFacts
      <4> QED BY <1>3, <3>1, <4>1
    <3>5. table[q] < n
      BY <1>1, <3>3, <3>4
    <3>6. ~ (PrefixOf(s, more[n + 1].x) < q)
      BY <1>1, <1>3, <3>1 DEF upto
    <3> HIDE DEF new
    <3>7. ASSUME NEW i \in 1 .. n + 1 PROVE i <= new[q] <=> PrefixOf(s, more[i].x) < q
      <4>1. CASE i = n + 1
        BY <1>1, <3>2, <3>3, <3>5, <3>6, <4>1
      <4>2. CASE i # n + 1
        <5>1. i \in 1 .. n
          BY <1>1, <4>2
        <5> QED BY <1>1, <3>2, <3>3, <5>1
      <4> QED BY <4>1, <4>2
    <3> QED BY <1>1, <3>2, <3>3, <3>7
  <2> QED BY <2>2, <2>3
<1> HIDE DEF new
<1>8. Indexed(s, new, upto, more)
  BY <1>1, <1>7 DEF Indexed
<1> QED BY <1>6, <1>8 DEF new, upto, more
-----------------------------------------------------------------------------
(* AddKey.                                                                 *)

\* What holds before a key is added.
Adding ==
  /\ keysToLearn \in Samples /\ radix_table \in Table(keysToLearn)
  /\ curr_num_keys \in 0 .. num_keys - 1
  /\ curr_num_keys > 0 => BuildInv

\* What it leaves behind.
Added == /\ keysToLearn' = keysToLearn /\ curr_num_keys' = curr_num_keys + 1
         /\ (radix_table \in Table(keysToLearn))' /\ BuildInv'

LEMMA FirstKey ==
  ASSUME Adding, AddKey, curr_num_keys = 0, NoSpline,
         \A q \in DOMAIN radix_table : radix_table[q] = 0
  PROVE  Added
<1> DEFINE s == keysToLearn
           p == Coord(s[1], 0)
<1>1. s \in Samples /\ radix_table \in Table(s) /\ spline_points = <<>> /\ prev_prefix = 0
  BY DEF Adding, NoSpline
<1>2. /\ keysToLearn' = s /\ curr_num_keys' = 1 /\ prev_key' = s[1] /\ prev_position' = 0
      /\ curr_num_distinct_keys' = 1 /\ prev_point' = p
      /\ spline_points' = Append(<<>>, p)
      /\ prev_prefix' = Prefix(s[1])
      /\ radix_table' = [q \in DOMAIN radix_table |->
                           IF q \in 0 + 1 .. Prefix(s[1]) THEN 0 ELSE radix_table[q]]
  BY <1>1 DEF AddKey, AddKeyToSpline, NoSpline, Coord
<1>3. /\ 1 \in 1 .. Len(s) /\ s[1] \in Nat /\ p \in Points /\ p.x = s[1] /\ p.y = 0
      /\ CdfPoint(s, p)
  BY <1>1, SampleSorted DEF Coord, Points, CdfPoint, Fresh
<1>4. Prefix(s[1]) = 0 /\ PrefixOf(s, s[1]) = 0
  BY <1>1, PrefixIs, PrefixFacts
<1>5. /\ spline_points' \in Seq(Points) /\ Len(spline_points') = 1 /\ spline_points'[1] = p
      /\ spline_points' = <<p>> /\ Last(spline_points') = p
  BY <1>2, <1>3 DEF Last
<1>6. DOMAIN radix_table = 0 .. PrefixOf(s, Last(s)) + 1 /\ PrefixOf(s, Last(s)) \in Nat
  BY <1>1, SampleSorted, PrefixFacts DEF Table
<1>7. radix_table' = radix_table
  <2>1. radix_table' = [q \in DOMAIN radix_table |-> radix_table[q]]
    BY <1>2, <1>4
  <2> QED BY <1>1, <2>1 DEF Table
<1>8. radix_table'[0] = 0
  BY <1>6, <1>7
<1> HIDE DEF s, p
<1>9. Rising(s, spline_points')
  BY <1>3, <1>5 DEF Rising, p
<1>10. Precise(s, spline_points', Len(spline_points'))
  BY <1>5 DEF Precise
<1>11. Indexed(s, radix_table', 0, spline_points')
  BY <1>3, <1>4, <1>5, <1>8 DEF Indexed
<1>12. Added
  BY <1>1, <1>2, <1>3, <1>4, <1>5, <1>7, <1>9, <1>10, <1>11 DEF Added, BuildInv, s
<1> QED BY <1>12

\* The next key and its position.
LEMMA NextKey ==
  ASSUME Adding, AddKey, curr_num_keys > 0
  PROVE  LET s == keysToLearn
             n == curr_num_keys
         IN  /\ s \in Samples /\ n \in 1 .. Len(s) /\ n + 1 \in 1 .. Len(s)
             /\ s[n] \in Nat /\ s[n + 1] \in Nat /\ s[n] <= s[n + 1]
             /\ prev_key = s[n] /\ prev_position = n - 1
             /\ keysToLearn' = s /\ curr_num_keys' = n + 1
             /\ prev_key' = s[n + 1] /\ prev_position' = n
<1> DEFINE s == keysToLearn
           n == curr_num_keys
<1>1. s \in Samples /\ n \in 1 .. Len(s) /\ n + 1 \in 1 .. Len(s)
  BY SampleSorted DEF Adding, num_keys
<1>2. s[n] \in Nat /\ s[n + 1] \in Nat /\ s[n] <= s[n + 1]
  BY <1>1, SampleSorted
<1>3. prev_key = s[n] /\ prev_position = n - 1
  BY DEF Adding, BuildInv
<1>4. /\ keysToLearn' = s /\ curr_num_keys' = n + 1
      /\ prev_key' = s[n + 1] /\ prev_position' = prev_position + 1
  BY DEF AddKey
<1> QED BY <1>1, <1>2, <1>3, <1>4

\* A further copy of the last key.
LEMMA SameKey ==
  ASSUME Adding, AddKey, curr_num_keys > 0, keysToLearn[curr_num_keys + 1] = prev_key
  PROVE  Added
<1>1. UNCHANGED <<curr_num_distinct_keys, prev_point, upper_limit, lower_limit,
                  spline_points, radix_table, prev_prefix>>
  BY DEF AddKey
<1>2. BuildInv /\ radix_table \in Table(keysToLearn)
  BY DEF Adding
<1>3. /\ keysToLearn' = keysToLearn /\ curr_num_keys' = curr_num_keys + 1
      /\ prev_key' = keysToLearn[curr_num_keys + 1] /\ prev_key' = prev_key
      /\ prev_position' = (curr_num_keys + 1) - 1
  BY NextKey
<1> QED BY <1>1, <1>2, <1>3 DEF Added, BuildInv

\* The new point of the CDF.
LEMMA NewPoint ==
  ASSUME Adding, AddKey, curr_num_keys > 0, keysToLearn[curr_num_keys + 1] # prev_key
  PROVE  LET s == keysToLearn
             n == curr_num_keys
             p == Coord(s[n + 1], n)
         IN  /\ s[n] < s[n + 1] /\ prev_point' = p
             /\ curr_num_distinct_keys' = curr_num_distinct_keys + 1
             /\ curr_num_distinct_keys' \in Nat \ {0} /\ curr_num_distinct_keys' # 1
             /\ CdfPoint(s, p) /\ p.x = s[n + 1] /\ p.y = n
<1> DEFINE s == keysToLearn
           n == curr_num_keys
           p == Coord(s[n + 1], n)
<1>1. s[n] < s[n + 1] /\ n \in Nat /\ n + 1 \in 1 .. Len(s) /\ s[n + 1] \in Nat
  BY NextKey, SampleSorted
<1>2. /\ prev_point' = Coord(s[n + 1], prev_position + 1)
      /\ curr_num_distinct_keys' = curr_num_distinct_keys + 1
  BY DEF AddKey
<1>3. prev_position + 1 = n
  BY NextKey, <1>1
<1>4. curr_num_distinct_keys \in Nat \ {0}
  BY DEF Adding, BuildInv
<1>5. CdfPoint(s, p) /\ p.x = s[n + 1] /\ p.y = n
  <2>1. (n + 1) - 1 = n /\ (n + 1 # 1 \/ n = 0)
    BY <1>1
  <2>2. n # 0
    OBVIOUS
  <2>3. Fresh(s, n + 1)
    BY <1>1, <2>1, <2>2 DEF Fresh
  <2> QED BY <1>1, <2>3 DEF CdfPoint, Points, Coord
<1> QED BY <1>1, <1>2, <1>3, <1>4, <1>5
LEMMA LimitsOfNext ==
  ASSUME NEW s \in Samples, NEW n \in 1 .. Len(s), n + 1 \in 1 .. Len(s)
  PROVE  /\ Coord(s[n + 1], n + MaxError) = UpperAt(s, n + 1)
         /\ Coord(s[n + 1], IF n < MaxError THEN 0 ELSE n - MaxError) = LowerAt(s, n + 1)
<1>1. (n + 1) - 1 = n
  OBVIOUS
<1> QED BY <1>1 DEF UpperAt, LowerAt

\* The spline stays and the new point is in the corridor.
LEMMA AddedWithin ==
  ASSUME Adding, AddKey, curr_num_keys > 0, keysToLearn[curr_num_keys + 1] # prev_key,
         UNCHANGED <<spline_points, radix_table, prev_prefix>>,
         Last(spline_points).x <= prev_point.x,
         Corridor(keysToLearn, Last(spline_points), upper_limit', lower_limit', prev_point')
  PROVE  Added
<1> DEFINE s == keysToLearn
           n == curr_num_keys
           p == Coord(s[n + 1], n)
<1>1. BuildInv /\ radix_table \in Table(s)
  BY DEF Adding
<1>2. /\ s \in Samples /\ n \in 1 .. Len(s) /\ s[n] \in Nat /\ s[n + 1] \in Nat /\ prev_key = s[n]
      /\ keysToLearn' = s /\ curr_num_keys' = n + 1
      /\ prev_key' = s[n + 1] /\ prev_position' = (n + 1) - 1
  BY NextKey
<1>3. /\ s[n] < s[n + 1] /\ prev_point' = p
      /\ curr_num_distinct_keys' \in Nat \ {0} /\ curr_num_distinct_keys' # 1
      /\ CdfPoint(s, p) /\ p.x = s[n + 1]
  BY NewPoint
<1>4. Last(spline_points).x < p.x
  <2>1. prev_point.x = s[n] /\ Last(spline_points) \in Points
    BY <1>1, <1>2, RisingFacts DEF BuildInv
  <2> QED BY <1>2, <1>3, <2>1 DEF Points
<1> HIDE DEF s, n, p
<1>5. Added
  BY <1>1, <1>2, <1>3, <1>4 DEF Added, BuildInv, s, n
<1> QED BY <1>5

LEMMA SecondKey ==
  ASSUME Adding, AddKey, curr_num_keys > 0, keysToLearn[curr_num_keys + 1] # prev_key,
         curr_num_distinct_keys = 1
  PROVE  Added
<1> DEFINE s == keysToLearn
           n == curr_num_keys
           b == prev_point
<1>1. BuildInv
  BY DEF Adding
<1>2. /\ s \in Samples /\ n \in 1 .. Len(s) /\ n + 1 \in 1 .. Len(s) /\ s[n] \in Nat
      /\ prev_key = s[n] /\ prev_position + 1 = n
  BY NextKey
<1>3. s[n] < s[n + 1] /\ prev_point' = Coord(s[n + 1], n)
  BY NewPoint
<1>4. /\ UNCHANGED <<spline_points, radix_table, prev_prefix>>
      /\ upper_limit' = Coord(s[n + 1], (prev_position + 1) + MaxError)
      /\ lower_limit' = Coord(s[n + 1], IF prev_position + 1 < MaxError THEN 0
                                        ELSE (prev_position + 1) - MaxError)
  BY DEF AddKey, SetLimits
<1>5. upper_limit' = UpperAt(s, n + 1) /\ lower_limit' = LowerAt(s, n + 1)
  BY <1>2, <1>4, LimitsOfNext
<1>6. Last(spline_points) = b /\ b \in Points /\ b.x = s[n]
  <2>1. spline_points = <<b>> /\ b \in Points /\ b.x = prev_key
    BY <1>1 DEF BuildInv, CdfPoint
  <2>2. Last(<<b>>) = b
    BY DEF Last
  <2> QED BY <1>2, <2>1, <2>2
<1>7. Corridor(s, b, upper_limit', lower_limit', prev_point')
  BY <1>2, <1>3, <1>5, <1>6, CorridorStarts
<1> QED BY <1>2, <1>4, <1>6, <1>7, AddedWithin

\* What AddKey does to the corridor.
LEMMA LaterKey ==
  ASSUME Adding, AddKey, curr_num_keys > 0, keysToLearn[curr_num_keys + 1] # prev_key,
         curr_num_distinct_keys > 1
  PROVE  LET s == keysToLearn
             n == curr_num_keys
             b == Last(spline_points)
             q == Coord(s[n + 1], n)
         IN  \/ /\ AddKeyToSpline(prev_point)
                /\ upper_limit' = UpperAt(s, n + 1) /\ lower_limit' = LowerAt(s, n + 1)
             \/ /\ UNCHANGED <<spline_points, radix_table, prev_prefix>>
                /\ upper_limit' \in {upper_limit, UpperAt(s, n + 1)}
                /\ Below(b, upper_limit', upper_limit)
                /\ Below(b, upper_limit', UpperAt(s, n + 1))
                /\ Below(b, q, upper_limit)
                /\ lower_limit' \in {lower_limit, LowerAt(s, n + 1)}
                /\ Below(b, lower_limit, lower_limit')
                /\ Below(b, LowerAt(s, n + 1), lower_limit')
                /\ Below(b, lower_limit, q)
<1> DEFINE s == keysToLearn
           n == curr_num_keys
           b == Last(spline_points)
           key == s[n + 1]
           position == prev_position + 1
           upper == position + MaxError
           lower == IF position < MaxError THEN 0 ELSE position - MaxError
           From(p, y) == Orientation(p.x - b.x, p.y - b.y, key - b.x, y - b.y)
           cuts == From(upper_limit, position) # "CW" \/ From(lower_limit, position) # "CCW"
           un == UpperAt(s, n + 1)
           ln == LowerAt(s, n + 1)
           q == Coord(key, n)
<1>1. BuildInv
  BY DEF Adding
<1>2. s \in Samples /\ n \in 1 .. Len(s) /\ n + 1 \in 1 .. Len(s) /\ position = n
  BY NextKey
<1>3. Coord(key, upper) = un /\ Coord(key, lower) = ln
  BY <1>2, LimitsOfNext
<1>4. \/ /\ AddKeyToSpline(prev_point) /\ SetLimits(Coord(key, upper), Coord(key, lower))
      \/ /\ ~ cuts /\ NarrowLimits(key, upper, lower)
         /\ UNCHANGED <<spline_points, radix_table, prev_prefix>>
  <2>1. curr_num_keys # 0 /\ curr_num_distinct_keys # 1
    BY <1>1 DEF BuildInv
  <2> QED BY <2>1 DEF AddKey
<1>5. CASE AddKeyToSpline(prev_point) /\ SetLimits(Coord(key, upper), Coord(key, lower))
  BY <1>3, <1>5 DEF SetLimits
<1>6. CASE /\ ~ cuts /\ NarrowLimits(key, upper, lower)
           /\ UNCHANGED <<spline_points, radix_table, prev_prefix>>
  <2>1. /\ upper_limit' = IF From(upper_limit, upper) = "CW" THEN un ELSE upper_limit
        /\ lower_limit' = IF From(lower_limit, lower) = "CCW" THEN ln ELSE lower_limit
    BY <1>3, <1>6 DEF NarrowLimits, SetLimits
  <2>2. /\ upper_limit \in Points /\ lower_limit \in Points /\ b \in Points
    BY <1>1, <1>2, RisingFacts DEF BuildInv, Corridor
  <2>3. un \in Points /\ ln \in Points /\ q \in Points
    <3>1. (n + 1) - 1 = n
      BY <1>2
    <3> QED BY <1>2, <3>1, LimitPoints
  <2>4. /\ un.x = key /\ un.y = upper /\ ln.x = key /\ ln.y = lower /\ q.x = key /\ q.y = n
    BY <1>3 DEF Coord
  <2>5. /\ From(upper_limit, position) = "CW" /\ From(lower_limit, position) = "CCW"
    BY <1>6
  <2>6. Below(b, q, upper_limit) /\ Below(b, lower_limit, q)
    BY <1>2, <2>2, <2>3, <2>4, <2>5, OrientationBelow
  <2>7. /\ From(upper_limit, upper) = "CW" => Below(b, un, upper_limit)
        /\ From(upper_limit, upper) # "CW" => Below(b, upper_limit, un)
    BY <2>2, <2>3, <2>4, OrientationBelow
  <2>8. /\ From(lower_limit, lower) = "CCW" => Below(b, lower_limit, ln)
        /\ From(lower_limit, lower) # "CCW" => Below(b, ln, lower_limit)
    BY <2>2, <2>3, <2>4, OrientationBelow
  <2>9. /\ Below(b, un, un) /\ Below(b, ln, ln)
        /\ Below(b, upper_limit, upper_limit) /\ Below(b, lower_limit, lower_limit)
    BY <2>2, <2>3, BelowReflexive
  <2> HIDE DEF From, un, ln, q, b, upper, lower
  <2>10. /\ upper_limit' \in {upper_limit, un}
         /\ Below(b, upper_limit', upper_limit) /\ Below(b, upper_limit', un)
    BY <2>1, <2>7, <2>9
  <2>11. /\ lower_limit' \in {lower_limit, ln}
         /\ Below(b, lower_limit, lower_limit') /\ Below(b, ln, lower_limit')
    BY <2>1, <2>8, <2>9
  <2> QED BY <1>6, <2>6, <2>10, <2>11 DEF un, ln, q, b
<1> QED BY <1>4, <1>5, <1>6

LEMMA CutKey ==
  ASSUME Adding, AddKey, curr_num_keys > 0, keysToLearn[curr_num_keys + 1] # prev_key,
         curr_num_distinct_keys > 1, AddKeyToSpline(prev_point),
         upper_limit' = UpperAt(keysToLearn, curr_num_keys + 1),
         lower_limit' = LowerAt(keysToLearn, curr_num_keys + 1)
  PROVE  Added
<1> DEFINE s == keysToLearn
           n == curr_num_keys
           b == Last(spline_points)
           p == prev_point
           q == Coord(s[n + 1], n)
<1>1. BuildInv /\ radix_table \in Table(s)
  BY DEF Adding
<1>2. /\ s \in Samples /\ n \in 1 .. Len(s) /\ n + 1 \in 1 .. Len(s)
      /\ s[n] \in Nat /\ s[n + 1] \in Nat /\ prev_key = s[n]
      /\ keysToLearn' = s /\ curr_num_keys' = n + 1
      /\ prev_key' = s[n + 1] /\ prev_position' = (n + 1) - 1
  BY NextKey
<1>3. /\ s[n] < s[n + 1] /\ prev_point' = q
      /\ curr_num_distinct_keys' \in Nat \ {0} /\ curr_num_distinct_keys' # 1
      /\ CdfPoint(s, q) /\ q.x = s[n + 1]
  BY NewPoint
<1>4. /\ Rising(s, spline_points) /\ spline_points \in Seq(Points) /\ Len(spline_points) > 0
      /\ b \in Points /\ CdfPoint(s, p) /\ p \in Points /\ p.x = s[n]
      /\ b.x < p.x /\ Corridor(s, b, upper_limit, lower_limit, p)
      /\ Precise(s, spline_points, Len(spline_points))
      /\ prev_prefix = PrefixOf(s, b.x) /\ Indexed(s, radix_table, prev_prefix, spline_points)
  BY <1>1, <1>2, RisingFacts DEF BuildInv, Rising, CdfPoint
<1>5. /\ spline_points' = Append(spline_points, p)
      /\ radix_table' = [t \in DOMAIN radix_table |->
                           IF t \in prev_prefix + 1 .. PrefixOf(s, p.x) THEN Len(spline_points)
                           ELSE radix_table[t]]
      /\ prev_prefix' = PrefixOf(s, p.x)
  BY PrefixIs DEF AddKeyToSpline
<1>6. Rising(s, spline_points')
  BY <1>2, <1>4, <1>5, RisingAppend
<1>7. Last(spline_points') = p
  BY <1>4, <1>5, AppendedPoints
<1>8. Precise(s, spline_points', Len(spline_points'))
  <2>1. WithinError(s, b, p)
    BY <1>2, <1>4, CorridorGivesError
  <2> QED BY <1>2, <1>4, <1>5, <2>1, PreciseAppend
<1>9. radix_table' \in Table(s) /\ Indexed(s, radix_table', PrefixOf(s, p.x), spline_points')
  <2>1. b.x \in Nat /\ p.x \in Nat /\ p.x >= b.x /\ p.x <= Last(s)
    <3>1. s[n] <= Last(s)
      BY <1>2, SampleSorted
    <3> QED BY <1>4, <3>1 DEF Points
  <2> QED BY <1>1, <1>2, <1>4, <1>5, <2>1, IndexedAppend
<1>10. Corridor(s, p, upper_limit', lower_limit', prev_point')
  BY <1>2, <1>3, <1>4, CorridorStarts
<1>11. p.x < q.x
  BY <1>3, <1>4
<1> HIDE DEF s, n, p, q
<1>12. Added
  BY <1>2, <1>3, <1>5, <1>6, <1>7, <1>8, <1>9, <1>10, <1>11 DEF Added, BuildInv, s, n
<1> QED BY <1>12

LEMMA LaterKeyKeeps ==
  ASSUME Adding, AddKey, curr_num_keys > 0, keysToLearn[curr_num_keys + 1] # prev_key,
         curr_num_distinct_keys > 1
  PROVE  Added
<1> DEFINE s == keysToLearn
           n == curr_num_keys
           b == Last(spline_points)
           q == Coord(s[n + 1], n)
<1>1. CASE /\ AddKeyToSpline(prev_point)
           /\ upper_limit' = UpperAt(s, n + 1) /\ lower_limit' = LowerAt(s, n + 1)
  BY <1>1, CutKey
<1>2. CASE /\ UNCHANGED <<spline_points, radix_table, prev_prefix>>
           /\ upper_limit' \in {upper_limit, UpperAt(s, n + 1)}
           /\ Below(b, upper_limit', upper_limit)
           /\ Below(b, upper_limit', UpperAt(s, n + 1))
           /\ Below(b, q, upper_limit)
           /\ lower_limit' \in {lower_limit, LowerAt(s, n + 1)}
           /\ Below(b, lower_limit, lower_limit')
           /\ Below(b, LowerAt(s, n + 1), lower_limit')
           /\ Below(b, lower_limit, q)
  <2>1. BuildInv
    BY DEF Adding
  <2>2. /\ s \in Samples /\ n \in 1 .. Len(s) /\ n + 1 \in 1 .. Len(s) /\ s[n] \in Nat
        /\ prev_key = s[n]
    BY NextKey
  <2>3. s[n] < s[n + 1] /\ prev_point' = q
    BY NewPoint
  <2>4. /\ b \in Points /\ prev_point.x = s[n] /\ b.x < s[n]
        /\ Corridor(s, b, upper_limit, lower_limit, prev_point)
    BY <2>1, <2>2, RisingFacts DEF BuildInv
  <2>5. Corridor(s, b, upper_limit', lower_limit', q)
    BY <1>2, <2>2, <2>3, <2>4, CorridorNarrows
  <2>6. b.x <= prev_point.x
    BY <2>2, <2>4 DEF Points
  <2> QED BY <1>2, <2>2, <2>3, <2>5, <2>6, AddedWithin
<1> QED BY <1>1, <1>2, LaterKey

LEMMA AddKeyKeeps ==
  ASSUME keysToLearn \in Samples, SplineInv, AddKey
  PROVE  SplineInv' /\ modelPc' \in {"add", "finalize"}
<1>1. modelPc = "add" /\ curr_num_keys \in 0 .. num_keys /\ curr_num_keys < num_keys
  BY DEF SplineInv, AddKey
<1>2. Adding
  BY <1>1, SampleSorted DEF SplineInv, Adding, num_keys
<1>3. Added
  <2>1. CASE curr_num_keys = 0
    BY <1>1, <1>2, <2>1, FirstKey DEF SplineInv
  <2>2. CASE curr_num_keys > 0
    <3>1. CASE keysToLearn[curr_num_keys + 1] = prev_key
      BY <1>2, <2>2, <3>1, SameKey
    <3>2. CASE keysToLearn[curr_num_keys + 1] # prev_key
      <4>1. curr_num_distinct_keys = 1 \/ curr_num_distinct_keys > 1
        BY <1>2, <2>2 DEF Adding, BuildInv
      <4> QED BY <1>2, <2>2, <3>2, <4>1, SecondKey, LaterKeyKeeps
    <3> QED BY <3>1, <3>2
  <2> QED BY <1>1, <2>1, <2>2
<1>4. modelPc' = IF curr_num_keys' = num_keys THEN "finalize" ELSE "add"
  BY DEF AddKey
<1>5. num_keys' = num_keys /\ num_keys \in Nat
  BY <1>3, SampleSorted DEF Added, num_keys
<1> QED BY <1>1, <1>3, <1>4, <1>5 DEF SplineInv, Added
-----------------------------------------------------------------------------
(* Finalize.                                                               *)

LEMMA CdfRises ==
  ASSUME NEW s \in Samples, NEW p, NEW q, CdfPoint(s, p), CdfPoint(s, q), p.x < q.x
  PROVE  p.y <= q.y
<1>1. /\ p.y \in Nat /\ q.y \in Nat /\ p.y + 1 \in 1 .. Len(s) /\ q.y + 1 \in 1 .. Len(s)
      /\ p.x = s[p.y + 1] /\ q.x = s[q.y + 1]
  BY DEF CdfPoint, Points
<1>2. SUFFICES ASSUME q.y + 1 <= p.y + 1 PROVE FALSE
  BY <1>1
<1>3. s[q.y + 1] <= s[p.y + 1] /\ s[q.y + 1] \in Nat /\ s[p.y + 1] \in Nat
  BY <1>1, <1>2, SampleSorted
<1> QED BY <1>1, <1>3

\* The table is completed behind the last point's prefix.
LEMMA IndexedFinish ==
  ASSUME NEW s \in Samples, NEW points \in Seq(Points), Len(points) > 0,
         \A i \in 1 .. Len(points) : points[i].x >= s[1] /\ points[i].x <= Last(s),
         NEW table \in Table(s), Indexed(s, table, PrefixOf(s, Last(s)), points)
  PROVE  LET new == [q \in DOMAIN table |->
                       IF q > PrefixOf(s, Last(s)) THEN Len(points) ELSE table[q]]
         IN  new \in Table(s) /\ Indexed(s, new, PrefixOf(s, Last(s)) + 1, points)
<1> DEFINE top == PrefixOf(s, Last(s))
           n == Len(points)
           new == [q \in DOMAIN table |-> IF q > top THEN n ELSE table[q]]
<1>1. top \in Nat /\ n \in Nat
  BY SampleSorted, PrefixFacts
<1>2. DOMAIN table = 0 .. top + 1 /\ \A q \in 0 .. top + 1 : table[q] \in Nat
  BY DEF Table
<1>3. ASSUME NEW i \in 1 .. n PROVE PrefixOf(s, points[i].x) \in Nat /\ PrefixOf(s, points[i].x) <= top
  <2>1. points[i] \in Points
    OBVIOUS
  <2>2. points[i].x \in Nat /\ points[i].x >= s[1] /\ points[i].x <= Last(s) /\ s[1] \in Nat
    BY <2>1, SampleSorted DEF Points
  <2>3. PrefixOf(s, points[i].x) \in Nat
    BY <2>2, PrefixFacts
  <2>4. PrefixOf(s, points[i].x) <= top
    BY <2>2, SampleSorted, PrefixFacts
  <2> QED BY <2>3, <2>4
<1> HIDE DEF top, n
<1>4. new \in Table(s)
  BY <1>1, <1>2 DEF Table, top
<1>5. ASSUME NEW q \in 0 .. top + 1
      PROVE  new[q] \in 0 .. n /\ \A i \in 1 .. n : i <= new[q] <=> PrefixOf(s, points[i].x) < q
  <2>1. CASE q \in 0 .. top
    <3>1. new[q] = table[q]
      BY <1>1, <1>2, <2>1
    <3> HIDE DEF new
    <3> QED BY <2>1, <3>1 DEF Indexed, top, n
  <2>2. CASE q = top + 1
    <3>1. new[q] = n
      BY <1>1, <1>2, <2>2
    <3> HIDE DEF new
    <3>2. \A i \in 1 .. n : PrefixOf(s, points[i].x) < q
      BY <1>1, <1>3, <2>2
    <3> QED BY <1>1, <3>1, <3>2
  <2> QED BY <1>1, <2>1, <2>2
<1> HIDE DEF new
<1>6. Indexed(s, new, top + 1, points)
  BY <1>5 DEF Indexed, n
<1> QED BY <1>4, <1>6 DEF new, top, n

LEMMA LastKeyPoint ==
  ASSUME keysToLearn \in Samples, BuildInv, curr_num_keys = num_keys
  PROVE  LET s == keysToLearn
         IN  /\ prev_key = Last(s) /\ prev_position = Len(s) - 1
             /\ prev_point = Coord(Last(s), FirstPlace(s, Last(s)) - 1)
             /\ curr_num_distinct_keys > 1
             /\ Last(spline_points).x < prev_point.x
             /\ WithinError(s, Last(spline_points), prev_point)
<1> DEFINE s == keysToLearn
           p == prev_point
<1>1. prev_key = Last(s) /\ prev_position = Len(s) - 1
  BY SampleSorted DEF BuildInv, num_keys
<1>2. /\ CdfPoint(s, p) /\ p \in Points /\ p.y + 1 \in 1 .. Len(s) /\ p.x = s[p.y + 1]
      /\ Fresh(s, p.y + 1) /\ p.x = Last(s)
  BY <1>1 DEF BuildInv, CdfPoint
<1>3. FirstPlace(s, Last(s)) = p.y + 1
  BY <1>2, FreshIsFirstIndex
<1>4. p = Coord(Last(s), FirstPlace(s, Last(s)) - 1)
  <2>1. p = [x |-> p.x, y |-> p.y] /\ p.y \in Nat
    BY <1>2 DEF Points
  <2>2. FirstPlace(s, Last(s)) - 1 = p.y
    BY <1>3, <2>1
  <2> QED BY <1>2, <2>1, <2>2 DEF Coord
<1>5. Rising(s, spline_points)
  BY DEF BuildInv
<1>6. curr_num_distinct_keys > 1
  <2>1. SUFFICES ASSUME curr_num_distinct_keys = 1 PROVE FALSE
    BY DEF BuildInv
  <2>2. spline_points = <<p>> /\ spline_points[1] = Coord(s[1], 0)
    BY <1>5, <2>1 DEF BuildInv, Rising
  <2>3. p.x = s[1]
    BY <2>2 DEF Coord
  <2>4. s[1] < Last(s) /\ s[1] \in Nat /\ Last(s) \in Nat
    BY SampleSorted
  <2>5. Last(s) = s[1]
    BY <1>2, <2>3
  <2> QED BY <2>4, <2>5
<1>7. /\ Last(spline_points).x < p.x
      /\ Corridor(s, Last(spline_points), upper_limit, lower_limit, p)
  BY <1>6 DEF BuildInv
<1>8. WithinError(s, Last(spline_points), p)
  BY <1>2, <1>5, <1>7, RisingFacts, CorridorGivesError
<1> HIDE DEF p
<1> QED BY <1>1, <1>4, <1>6, <1>7, <1>8 DEF p

LEMMA FinalizeEffect ==
  ASSUME keysToLearn \in Samples, radix_table \in Table(keysToLearn), BuildInv,
         curr_num_keys = num_keys, Finalize
  PROVE  LET s == keysToLearn
             points == Append(spline_points, Coord(Last(s), Len(s) - 1))
             table == [q \in DOMAIN radix_table |->
                         IF q \in prev_prefix + 1 .. PrefixOf(s, Last(s)) THEN Len(spline_points)
                         ELSE radix_table[q]]
         IN  /\ spline_points' = points /\ table \in Table(s)
             /\ radix_table' = [q \in DOMAIN table |->
                                  IF q > PrefixOf(s, Last(s)) THEN Len(points) ELSE table[q]]
             /\ keysToLearn' = s /\ modelPc' = "done"
             /\ UNCHANGED <<placed, training_buckets, second_level_models>>
<1> DEFINE s == keysToLearn
           p == Coord(Last(s), Len(s) - 1)
           points == Append(spline_points, p)
           table == [q \in DOMAIN radix_table |->
                       IF q \in prev_prefix + 1 .. PrefixOf(s, Last(s)) THEN Len(spline_points)
                       ELSE radix_table[q]]
<1>1. /\ prev_key = Last(s) /\ prev_position = Len(s) - 1
      /\ Last(spline_points).x < prev_point.x /\ prev_point = Coord(Last(s), FirstPlace(s, Last(s)) - 1)
  BY LastKeyPoint
<1>2. Rising(s, spline_points) /\ spline_points \in Seq(Points)
  BY DEF BuildInv, Rising
<1>3. Last(spline_points).x # prev_key
  <2>1. prev_point.x = Last(s)
    BY <1>1 DEF Coord
  <2>2. Last(spline_points).x \in Nat /\ Last(s) \in Nat
    BY <1>2, RisingFacts, SampleSorted DEF Points
  <2> QED BY <1>1, <2>1, <2>2
<1>4. p \in Points
  BY SampleSorted DEF Coord, Points
<1>5. Len(points) - 1 = Len(spline_points)
  BY <1>2, <1>4, AppendedPoints
<1>6. Prefix(prev_key) = PrefixOf(s, Last(s))
  BY <1>1, PrefixIs
<1>7. /\ spline_points' = points
      /\ radix_table' = [q \in DOMAIN table |->
                           IF q > PrefixOf(s, Last(s)) THEN Len(points) ELSE table[q]]
  BY <1>1, <1>3, <1>5, <1>6 DEF Finalize
<1>8. table \in Table(s)
  BY <1>2 DEF Table
<1>9. /\ keysToLearn' = s /\ modelPc' = "done"
      /\ UNCHANGED <<placed, training_buckets, second_level_models>>
  BY DEF Finalize, rmiVars
<1> QED BY <1>7, <1>8, <1>9

LEMMA FinalizeFinishes ==
  ASSUME keysToLearn \in Samples, radix_table \in Table(keysToLearn), BuildInv,
         curr_num_keys = num_keys, Finalize
  PROVE  /\ radix_table' \in Table(keysToLearn)
         /\ SplineFinished(keysToLearn, spline_points', radix_table')
<1> DEFINE s == keysToLearn
           n == Len(spline_points)
           p == Coord(Last(s), Len(s) - 1)
           points == Append(spline_points, p)
           table == [q \in DOMAIN radix_table |->
                       IF q \in prev_prefix + 1 .. PrefixOf(s, Last(s)) THEN n ELSE radix_table[q]]
<1>1. /\ spline_points' = points /\ table \in Table(s)
      /\ radix_table' = [q \in DOMAIN table |->
                           IF q > PrefixOf(s, Last(s)) THEN Len(points) ELSE table[q]]
  BY FinalizeEffect
<1>2. /\ Rising(s, spline_points) /\ spline_points \in Seq(Points)
      /\ Precise(s, spline_points, n)
      /\ prev_prefix = PrefixOf(s, Last(spline_points).x)
      /\ Indexed(s, radix_table, prev_prefix, spline_points)
  BY DEF BuildInv, Rising
<1>3. p \in Points /\ p.x = Last(s) /\ p.y = Len(s) - 1
  BY SampleSorted DEF Coord, Points
<1>4. /\ points \in Seq(Points) /\ Len(points) = n + 1
      /\ points[n + 1] = p /\ \A i \in 1 .. n : points[i] = spline_points[i]
  BY <1>2, <1>3, AppendedPoints
<1>5. /\ n \in Nat \ {0} /\ n \in 1 .. n /\ Last(spline_points) = spline_points[n]
      /\ \A i \in 1 .. n : /\ spline_points[i] \in Points /\ spline_points[i].x \in Nat
                           /\ spline_points[i].x >= s[1] /\ spline_points[i].x <= Last(s)
                           /\ spline_points[i].x <= Last(spline_points).x
  BY <1>2, RisingFacts
<1>6. /\ Last(spline_points).x < Last(s)
      /\ WithinError(s, Last(spline_points), Coord(Last(s), FirstPlace(s, Last(s)) - 1))
  BY LastKeyPoint DEF Coord
<1>7. Indexed(s, table, PrefixOf(s, Last(s)), points)
  <2>1. p.x >= Last(spline_points).x /\ p.x <= Last(s)
    BY <1>3, <1>5, <1>6, SampleSorted
  <2>2. Indexed(s, [q \in DOMAIN radix_table |->
                      IF q \in prev_prefix + 1 .. PrefixOf(s, p.x) THEN n ELSE radix_table[q]],
                PrefixOf(s, p.x), points)
    BY <1>2, <1>3, <2>1, IndexedAppend
  <2> QED BY <1>3, <2>2
<1> HIDE DEF points, table, p, n
<1>8. ASSUME NEW i \in 1 .. Len(points) PROVE points[i].x >= s[1] /\ points[i].x <= Last(s)
  <2>1. CASE i = n + 1
    BY <1>3, <1>4, <2>1, SampleSorted
  <2>2. CASE i # n + 1
    <3>1. i \in 1 .. n
      BY <1>4, <1>5, <2>2
    <3> QED BY <1>4, <1>5, <3>1
  <2> QED BY <2>1, <2>2
<1>9. /\ radix_table' \in Table(s)
      /\ Indexed(s, radix_table', PrefixOf(s, Last(s)) + 1, points)
  BY <1>1, <1>4, <1>5, <1>7, <1>8, IndexedFinish
<1>10. ASSUME NEW i \in 1 .. n + 1, NEW j \in 1 .. n + 1, i < j
       PROVE  points[i].x < points[j].x /\ points[i].y <= points[j].y
  <2>1. i \in 1 .. n /\ CdfPoint(s, spline_points[i]) /\ points[i] = spline_points[i]
    BY <1>2, <1>4, <1>5, <1>10 DEF Rising, n
  <2>2. CASE j = n + 1
    <3>1. points[i].x < p.x
      <4>1. Last(spline_points).x \in Nat
        BY <1>5
      <4>2. spline_points[i].x \in Nat /\ spline_points[i].x <= Last(spline_points).x
        BY <1>5, <2>1
      <4>3. Last(s) \in Nat
        BY SampleSorted
      <4> QED BY <1>3, <1>6, <2>1, <4>1, <4>2, <4>3
    <3>2. points[i].y <= p.y
      BY <1>3, <2>1, SampleSorted DEF CdfPoint, Points
    <3> QED BY <1>4, <2>2, <3>1, <3>2
  <2>3. CASE j # n + 1
    <3>1. j \in 1 .. n
      BY <1>5, <2>3
    <3>2. CdfPoint(s, spline_points[j]) /\ points[j] = spline_points[j]
      BY <1>2, <1>4, <3>1 DEF Rising, n
    <3>3. spline_points[i].x < spline_points[j].x
      BY <1>2, <1>10, <2>1, <3>1 DEF Rising, n
    <3> QED BY <2>1, <3>2, <3>3, CdfRises
  <2> QED BY <2>2, <2>3
<1>11. Precise(s, points, (n + 1) - 1)
  <2>1. ASSUME NEW j \in 1 .. n - 1 PROVE WithinError(s, points[j], points[j + 1])
    <3>1. j \in 1 .. n /\ j + 1 \in 1 .. n
      BY <1>5
    <3> QED BY <1>2, <1>4, <3>1 DEF Precise
  <2>2. (n + 1) - 1 = n
    BY <1>5
  <2> QED BY <2>1, <2>2 DEF Precise
<1>12. /\ points[(n + 1) - 1] = Last(spline_points)
       /\ points[1] = Coord(s[1], 0) /\ n + 1 > 1
  <2>1. (n + 1) - 1 = n /\ 1 \in 1 .. n /\ spline_points[1] = Coord(s[1], 0)
    BY <1>2, <1>5 DEF Rising
  <2> QED BY <1>4, <1>5, <2>1
<1>13. SplineFinished(s, points, radix_table')
  BY <1>4, <1>6, <1>9, <1>10, <1>11, <1>12 DEF SplineFinished, p
<1> QED BY <1>1, <1>9, <1>13

LEMMA FinalizeKeeps ==
  ASSUME keysToLearn \in Samples, SplineInv, Finalize
  PROVE  SplineInv' /\ modelPc' = "done" /\ keysToLearn' = keysToLearn
<1>1. modelPc = "finalize" /\ modelPc' = "done" /\ keysToLearn' = keysToLearn
  BY DEF Finalize
<1>2. curr_num_keys = num_keys /\ curr_num_keys > 0 /\ BuildInv /\ radix_table \in Table(keysToLearn)
  BY <1>1, SampleSorted DEF SplineInv, num_keys
<1>3. /\ radix_table' \in Table(keysToLearn)
      /\ SplineFinished(keysToLearn, spline_points', radix_table')
  BY <1>2, FinalizeFinishes
<1> QED BY <1>1, <1>3 DEF SplineInv
-----------------------------------------------------------------------------
(* The finished spline is asked.                                           *)

\* The spline is that of the sample.
Ready == keysToLearn \in Samples /\ SplineFinished(keysToLearn, spline_points, radix_table)

LEMMA PrefixOrder ==
  ASSUME NEW s \in Samples, NEW k \in Nat, NEW m \in Nat, s[1] <= k, s[1] <= m,
         PrefixOf(s, k) < PrefixOf(s, m)
  PROVE  k < m
<1>1. SUFFICES ASSUME m <= k PROVE FALSE
  OBVIOUS
<1>2. PrefixOf(s, m) <= PrefixOf(s, k) /\ PrefixOf(s, m) \in Nat /\ PrefixOf(s, k) \in Nat
  BY <1>1, PrefixFacts
<1> QED BY <1>2

LEMMA FinishedPoints ==
  ASSUME NEW s \in Samples, NEW points, NEW table, SplineFinished(s, points, table)
  PROVE  /\ Len(points) \in Nat /\ Len(points) > 1
         /\ \A i \in 1 .. Len(points) :
              /\ points[i] \in Points /\ points[i].x \in Nat /\ points[i].y \in Nat
              /\ points[i].x >= s[1] /\ points[i].x <= Last(s) /\ points[i].y <= Len(s) - 1
         /\ points[1].x = s[1] /\ points[1].y = 0
         /\ points[Len(points)].x = Last(s) /\ points[Len(points)].y = Len(s) - 1
         /\ \A i, j \in 1 .. Len(points) :
              i <= j => points[i].x <= points[j].x /\ points[i].y <= points[j].y
<1> DEFINE n == Len(points)
<1>1. /\ points \in Seq(Points) /\ n \in Nat /\ n > 1
      /\ points[1] = Coord(s[1], 0) /\ points[n] = Coord(Last(s), Len(s) - 1)
      /\ \A i, j \in 1 .. n : i < j => points[i].x < points[j].x /\ points[i].y <= points[j].y
  BY DEF SplineFinished
<1>2. /\ points[1].x = s[1] /\ points[1].y = 0
      /\ points[n].x = Last(s) /\ points[n].y = Len(s) - 1
  BY <1>1 DEF Coord
<1>3. ASSUME NEW i \in 1 .. n
      PROVE  points[i] \in Points /\ points[i].x \in Nat /\ points[i].y \in Nat
  <2>1. points[i] \in Points
    BY <1>1
  <2> QED BY <2>1 DEF Points
<1>4. ASSUME NEW i \in 1 .. n, NEW j \in 1 .. n, i <= j
      PROVE  points[i].x <= points[j].x /\ points[i].y <= points[j].y
  <2>1. CASE i = j
    BY <1>3, <2>1
  <2>2. CASE i # j
    <3>1. i < j
      BY <1>4, <2>2
    <3>2. points[i].x < points[j].x /\ points[i].y <= points[j].y
      BY <1>1, <3>1
    <3>3. points[i].x \in Nat /\ points[j].x \in Nat
      BY <1>3
    <3> QED BY <3>2, <3>3
  <2> QED BY <2>1, <2>2
<1>5. ASSUME NEW i \in 1 .. n
      PROVE  points[i].x >= s[1] /\ points[i].x <= Last(s) /\ points[i].y <= Len(s) - 1
  <2>1. 1 \in 1 .. n /\ n \in 1 .. n /\ 1 <= i /\ i <= n
    BY <1>1
  <2>2. points[1].x <= points[i].x /\ points[i].x <= points[n].x /\ points[i].y <= points[n].y
    BY <1>4, <2>1
  <2>3. points[1].x \in Nat /\ points[i].x \in Nat
    BY <1>3, <2>1
  <2> QED BY <1>2, <2>2, <2>3
<1> QED BY <1>1, <1>2, <1>3, <1>4, <1>5

LEMMA SegmentFound ==
  ASSUME Ready, NEW k \in Nat, min_key < k, k < max_key
  PROVE  /\ GetSplineSegment(k) \in 1 .. Len(spline_points) - 1
         /\ spline_points[GetSplineSegment(k)].x < k
         /\ k <= spline_points[GetSplineSegment(k) + 1].x
<1> DEFINE s == keysToLearn
           points == spline_points
           n == Len(points)
           prefix == PrefixOf(s, k)
           begin == radix_table[prefix]
           end == radix_table[prefix + 1]
           limit == IF end - begin < LinearLimit THEN n - 1 ELSE end
           T == {limit} \cup {i \in begin .. limit - 1 : points[i + 1].x >= k}
           m == GetSplineSegment(k)
<1>1. /\ s \in Samples /\ s[1] \in Nat /\ Last(s) \in Nat /\ s[1] < k /\ k < Last(s)
      /\ SplineFinished(s, points, radix_table)
  BY SampleSorted DEF Ready, min_key, max_key
<1>2. /\ n \in Nat /\ n > 1 /\ points[1].x = s[1] /\ points[n].x = Last(s)
      /\ \A i \in 1 .. n : points[i].x \in Nat /\ points[i].x >= s[1]
      /\ \A i, j \in 1 .. n : i <= j => points[i].x <= points[j].x
  BY <1>1, FinishedPoints
<1>3. prefix \in 0 .. PrefixOf(s, Last(s)) /\ PrefixOf(s, Last(s)) \in Nat
  BY <1>1, PrefixFacts
<1>4. m = Min(T)
  BY PrefixIs DEF GetSplineSegment
<1> HIDE DEF points, n, m
<1>5. /\ begin \in 0 .. n /\ end \in 0 .. n
      /\ \A i \in 1 .. n : i <= begin <=> PrefixOf(s, points[i].x) < prefix
      /\ \A i \in 1 .. n : i <= end <=> PrefixOf(s, points[i].x) < prefix + 1
  <2>1. prefix \in 0 .. PrefixOf(s, Last(s)) + 1 /\ prefix + 1 \in 0 .. PrefixOf(s, Last(s)) + 1
    BY <1>3
  <2>2. Indexed(s, radix_table, PrefixOf(s, Last(s)) + 1, points)
    BY <1>1 DEF SplineFinished
  <2> QED BY <2>1, <2>2 DEF Indexed, n
<1>6. begin < n
  <2>1. n \in 1 .. n /\ ~ (PrefixOf(s, points[n].x) < prefix)
    BY <1>2, <1>3
  <2> QED BY <1>2, <1>5, <2>1
<1>7. limit \in 0 .. n
  BY <1>2, <1>5
<1> HIDE DEF begin, end, prefix
<1>8. m \in T /\ \A i \in T : m <= i
  <2>1. T \in SUBSET Nat /\ T # {}
    BY <1>5, <1>7
  <2> HIDE DEF T
  <2> QED BY <1>4, <2>1, MinIsLeast
<1>9. m \in 0 .. n - 1 /\ k <= points[m + 1].x
  <2>1. CASE m # limit
    <3>1. m \in begin .. limit - 1 /\ points[m + 1].x >= k
      BY <1>8, <2>1
    <3>2. m + 1 \in 1 .. n
      BY <1>2, <1>5, <1>7, <3>1
    <3> QED BY <1>2, <3>1, <3>2
  <2>2. CASE m = limit /\ limit = n - 1
    <3> HIDE DEF limit
    <3>2. m = n - 1
      BY <2>2
    <3>1. m + 1 = n /\ m \in 0 .. n - 1
      BY <1>2, <3>2
    <3> QED BY <1>1, <1>2, <3>1
  <2>3. CASE m = limit /\ limit # n - 1
    <3>1. limit = end
      BY <2>3
    <3>2. end < n
      <4>1. SUFFICES ASSUME end = n PROVE FALSE
        BY <1>2, <1>5
      <4>2. n - 1 \in begin .. limit - 1 /\ points[(n - 1) + 1].x >= k
        <5>1. (n - 1) + 1 = n
          BY <1>2
        <5> QED BY <1>1, <1>2, <1>5, <1>6, <3>1, <4>1, <5>1
      <4>3. n - 1 \in T
        BY <4>2
      <4>4. m <= n - 1
        BY <1>8, <4>3
      <4> QED BY <1>2, <2>3, <3>1, <4>1, <4>4
    <3>3. end + 1 \in 1 .. n /\ ~ (end + 1 <= end)
      BY <1>2, <1>5, <3>2
    <3>4. ~ (PrefixOf(s, points[end + 1].x) < prefix + 1)
      BY <1>5, <3>3
    <3>5. /\ points[end + 1].x \in Nat /\ s[1] <= points[end + 1].x
          /\ PrefixOf(s, points[end + 1].x) \in Nat
      BY <1>1, <1>2, <3>3, PrefixFacts
    <3>6. prefix < PrefixOf(s, points[end + 1].x)
      BY <1>3, <3>4, <3>5
    <3>7. k < points[end + 1].x
      BY <1>1, <3>5, <3>6, PrefixOrder DEF prefix
    <3>8. m = end
      BY <2>3, <3>1
    <3>9. end \in 0 .. n - 1 /\ k <= points[end + 1].x
      BY <1>2, <1>5, <3>2, <3>5, <3>7
    <3> QED BY <3>8, <3>9
  <2> QED BY <2>1, <2>2, <2>3
<1>10. m \in 1 .. n - 1
  BY <1>1, <1>2, <1>9
<1>11. points[m].x < k
  <2>1. m \in 1 .. n
    BY <1>2, <1>10
  <2>2. CASE m <= begin
    <3>1. PrefixOf(s, points[m].x) < prefix
      BY <1>5, <2>1, <2>2
    <3> QED BY <1>1, <1>2, <2>1, <3>1, PrefixOrder DEF prefix
  <2>3. CASE begin < m
    <3>1. m <= limit
      BY <1>7, <1>8
    <3>2. m - 1 \in begin .. limit - 1
      BY <1>5, <1>7, <1>10, <2>3, <3>1
    <3>3. m - 1 \notin T
      BY <1>8, <1>10
    <3>4. ~ (points[(m - 1) + 1].x >= k)
      BY <3>2, <3>3
    <3>5. (m - 1) + 1 = m
      BY <1>10
    <3>6. ~ (points[m].x >= k)
      BY <3>4, <3>5
    <3> QED BY <1>2, <2>1, <3>6
  <2> QED BY <1>5, <1>10, <2>2, <2>3
<1> QED BY <1>9, <1>10, <1>11 DEF points, n, m
-----------------------------------------------------------------------------
(* The estimates.                                                          *)

\* A position on the line between two points.
OnLine(a, b, k) == a.y + ((k - a.x) * (b.y - a.y)) \div (b.x - a.x)

LEMMA EstimateIs ==
  ASSUME NEW k
  PROVE  GetEstimatedPosition(k) =
           IF k <= min_key THEN 0 ELSE IF k >= max_key THEN num_keys - 1
           ELSE OnLine(spline_points[GetSplineSegment(k)], spline_points[GetSplineSegment(k) + 1], k)
BY DEF GetEstimatedPosition, OnLine

LEMMA ProductBounds ==
  ASSUME NEW u \in Nat, NEW v \in Nat, NEW d \in Nat \ {0}, u <= d
  PROVE  u * v \in Nat /\ u * v <= v * d
OBVIOUS

LEMMA DivAtMost ==
  ASSUME NEW a \in Int, NEW d \in Nat \ {0}, NEW c \in Int, a <= c * d
  PROVE  a \div d <= c
<1> DEFINE q == a \div d
<1>1. q \in Int /\ q * d <= a
  BY DivBounds
<1> HIDE DEF q
<1>2. SUFFICES ASSUME c + 1 <= q PROVE FALSE
  BY <1>1 DEF q
<1>3. (c + 1) * d <= q * d
  BY <1>1, <1>2
<1> QED BY <1>1, <1>3

LEMMA DivAtLeast ==
  ASSUME NEW a \in Int, NEW d \in Nat \ {0}, NEW c \in Int, c * d <= a
  PROVE  c <= a \div d
<1> DEFINE q == a \div d
<1>1. q \in Int /\ a < q * d + d
  BY DivBounds
<1> HIDE DEF q
<1>2. SUFFICES ASSUME q + 1 <= c PROVE FALSE
  BY <1>1 DEF q
<1>3. (q + 1) * d <= c * d
  BY <1>1, <1>2
<1> QED BY <1>1, <1>3

LEMMA OnLineBetween ==
  ASSUME NEW a \in Points, NEW b \in Points, NEW k \in Nat, a.x < k, k <= b.x, a.y <= b.y
  PROVE  OnLine(a, b, k) \in Int /\ a.y <= OnLine(a, b, k) /\ OnLine(a, b, k) <= b.y
<1> DEFINE u == k - a.x
           v == b.y - a.y
           d == b.x - a.x
<1>1. /\ u \in Nat /\ v \in Nat /\ d \in Nat \ {0} /\ u <= d
      /\ a.y \in Nat /\ b.y \in Nat
  BY DEF Points
<1>2. OnLine(a, b, k) = a.y + (u * v) \div d
  BY DEF OnLine
<1>3. b.y = a.y + v
  BY <1>1
<1> HIDE DEF u, v, d
<1>4. u * v \in Nat /\ u * v <= v * d
  BY <1>1, ProductBounds
<1>5. (u * v) \div d \in Nat
  BY <1>1, <1>4, DivNat
<1>6. (u * v) \div d <= v
  BY <1>1, <1>4, DivAtMost
<1> QED BY <1>1, <1>2, <1>3, <1>5, <1>6

LEMMA OnLineRises ==
  ASSUME NEW a \in Points, NEW b \in Points, NEW k \in Nat, NEW j \in Nat,
         a.x < k, k <= j, a.x < b.x, a.y <= b.y
  PROVE  OnLine(a, b, k) <= OnLine(a, b, j)
<1> DEFINE u == k - a.x
           w == j - a.x
           v == b.y - a.y
           d == b.x - a.x
<1>1. u \in Nat /\ w \in Nat /\ v \in Nat /\ d \in Nat \ {0} /\ u <= w /\ a.y \in Nat
  BY DEF Points
<1>2. OnLine(a, b, k) = a.y + (u * v) \div d /\ OnLine(a, b, j) = a.y + (w * v) \div d
  BY DEF OnLine
<1> HIDE DEF u, v, w, d
<1>3. u * v \in Int /\ w * v \in Int /\ (u * v) * d <= (w * v) * d
  BY <1>1
<1>4. (u * v) \div d <= (w * v) \div d
  BY <1>1, <1>3, DivMonotone
<1>5. (u * v) \div d \in Int /\ (w * v) \div d \in Int
  BY <1>1, <1>3, DivBounds
<1> QED BY <1>1, <1>2, <1>4, <1>5

\* Inside the range the estimate lies between the ends of the segment.
LEMMA EstimateInside ==
  ASSUME Ready, NEW k \in Nat, min_key < k, k < max_key
  PROVE  LET m == GetSplineSegment(k)
             a == spline_points[m]
             b == spline_points[m + 1]
         IN  /\ m \in 1 .. Len(spline_points) - 1
             /\ m \in 1 .. Len(spline_points) /\ m + 1 \in 1 .. Len(spline_points)
             /\ a \in Points /\ b \in Points /\ a.x < k /\ k <= b.x /\ a.x < b.x
             /\ a.y <= b.y /\ b.y <= num_keys - 1
             /\ GetEstimatedPosition(k) = OnLine(a, b, k)
             /\ GetEstimatedPosition(k) \in Int
             /\ a.y <= GetEstimatedPosition(k) /\ GetEstimatedPosition(k) <= b.y
<1> DEFINE points == spline_points
           n == Len(points)
           m == GetSplineSegment(k)
           a == points[m]
           b == points[m + 1]
<1>1. m \in 1 .. n - 1 /\ a.x < k /\ k <= b.x
  BY SegmentFound
<1>2. n \in Nat /\ m \in 1 .. n /\ m + 1 \in 1 .. n /\ m <= m + 1
  BY <1>1, FinishedPoints DEF Ready
<1>3. /\ a \in Points /\ b \in Points /\ a.x \in Nat /\ b.x \in Nat
      /\ a.y <= b.y /\ b.y <= num_keys - 1
  BY <1>2, FinishedPoints DEF Ready, num_keys
<1>4. min_key \in Nat /\ max_key \in Nat
  BY SampleSorted DEF Ready, min_key, max_key
<1>5. GetEstimatedPosition(k) = OnLine(a, b, k)
  BY <1>4, EstimateIs
<1> HIDE DEF points, n, m, a, b
<1>6. a.x < b.x
  BY <1>1, <1>3
<1>7. /\ OnLine(a, b, k) \in Int /\ a.y <= OnLine(a, b, k) /\ OnLine(a, b, k) <= b.y
  BY <1>1, <1>3, OnLineBetween
<1> QED BY <1>1, <1>2, <1>3, <1>5, <1>6, <1>7 DEF points, n, m, a, b

LEMMA EstimateRange ==
  ASSUME Ready, NEW k \in Nat
  PROVE  GetEstimatedPosition(k) \in 0 .. num_keys - 1
<1>1. /\ num_keys \in Nat /\ num_keys > 1 /\ min_key \in Nat /\ max_key \in Nat
  BY SampleSorted DEF Ready, num_keys, min_key, max_key
<1>2. CASE k <= min_key
  BY <1>1, <1>2, EstimateIs
<1>3. CASE ~ (k <= min_key) /\ k >= max_key
  BY <1>1, <1>3, EstimateIs
<1>4. CASE ~ (k <= min_key) /\ ~ (k >= max_key)
  <2> DEFINE e == GetEstimatedPosition(k)
             a == spline_points[GetSplineSegment(k)]
             b == spline_points[GetSplineSegment(k) + 1]
  <2>1. min_key < k /\ k < max_key
    BY <1>1, <1>4
  <2>2. /\ a \in Points /\ b \in Points /\ b.y <= num_keys - 1
        /\ e \in Int /\ a.y <= e /\ e <= b.y
    BY <2>1, EstimateInside
  <2> HIDE DEF e, a, b
  <2>3. a.y \in Nat /\ b.y \in Nat
    BY <2>2 DEF Points
  <2>4. e \in 0 .. num_keys - 1
    BY <1>1, <2>2, <2>3
  <2> QED BY <2>4 DEF e
<1> QED BY <1>2, <1>3, <1>4

LEMMA EstimateOrder ==
  ASSUME Ready, NEW k \in Nat, NEW j \in Nat, k <= j
  PROVE  GetEstimatedPosition(k) <= GetEstimatedPosition(j)
<1>1. /\ num_keys \in Nat /\ num_keys > 1 /\ min_key \in Nat /\ max_key \in Nat
      /\ min_key < max_key
  BY SampleSorted DEF Ready, num_keys, min_key, max_key
<1>2. /\ GetEstimatedPosition(k) \in 0 .. num_keys - 1
      /\ GetEstimatedPosition(j) \in 0 .. num_keys - 1
  BY EstimateRange
<1>3. CASE k <= min_key
  <2>1. GetEstimatedPosition(k) = 0
    BY <1>3, EstimateIs
  <2> QED BY <1>2, <2>1
<1>4. CASE ~ (k <= min_key) /\ j >= max_key
  <2>1. GetEstimatedPosition(j) = num_keys - 1
    <3>1. ~ (j <= min_key)
      BY <1>1, <1>4
    <3> QED BY <1>4, <3>1, EstimateIs
  <2> QED BY <1>1, <1>2, <2>1
<1>5. CASE ~ (k <= min_key) /\ ~ (j >= max_key)
  <2> DEFINE n == Len(spline_points)
             m == GetSplineSegment(k)
             r == GetSplineSegment(j)
             a == spline_points[m]
             b == spline_points[m + 1]
             c == spline_points[r]
             d == spline_points[r + 1]
             ek == GetEstimatedPosition(k)
             ej == GetEstimatedPosition(j)
  <2>1. min_key < k /\ k < max_key /\ min_key < j /\ j < max_key
    BY <1>1, <1>5
  <2>2. /\ m \in 1 .. n - 1 /\ m \in 1 .. n /\ m + 1 \in 1 .. n
        /\ a \in Points /\ b \in Points /\ a.x < k /\ k <= b.x /\ a.x < b.x /\ a.y <= b.y
        /\ ek = OnLine(a, b, k) /\ ek \in Int /\ ek <= b.y
    BY <2>1, EstimateInside
  <2>3. /\ r \in 1 .. n - 1 /\ r \in 1 .. n /\ r + 1 \in 1 .. n
        /\ c \in Points /\ d \in Points /\ c.x < j /\ j <= d.x
        /\ ej = OnLine(c, d, j) /\ ej \in Int /\ c.y <= ej
    BY <2>1, EstimateInside
  <2>4. /\ n \in Nat
        /\ \A i, l \in 1 .. n :
             i <= l => /\ spline_points[i].x <= spline_points[l].x
                       /\ spline_points[i].y <= spline_points[l].y
    BY FinishedPoints DEF Ready
  <2>5. a.x \in Nat /\ b.x \in Nat /\ b.y \in Nat /\ c.x \in Nat /\ c.y \in Nat /\ d.x \in Nat
    <3> HIDE DEF a, b, c, d
    <3> QED BY <2>2, <2>3 DEF Points
  <2> HIDE DEF n, m, r, ek, ej
  <2>6. CASE m = r
    <3>1. a = c /\ b = d
      BY <2>6
    <3> HIDE DEF a, b, c, d
    <3>2. OnLine(a, b, k) <= OnLine(a, b, j)
      BY <2>2, OnLineRises
    <3>3. ek <= ej
      BY <2>2, <2>3, <3>1, <3>2
    <3> QED BY <3>3 DEF ek, ej
  <2>7. CASE m < r
    <3>1. m + 1 <= r
      BY <2>2, <2>3, <2>7
    <3>2. b.y <= c.y
      BY <2>2, <2>3, <2>4, <3>1
    <3> HIDE DEF a, b, c, d
    <3>3. ek <= ej
      BY <2>2, <2>3, <2>5, <3>2
    <3> QED BY <3>3 DEF ek, ej
  <2>8. CASE r < m
    <3>1. r + 1 <= m
      BY <2>2, <2>3, <2>8
    <3>2. d.x <= a.x
      BY <2>2, <2>3, <2>4, <3>1
    <3> HIDE DEF a, b, c, d
    <3>3. FALSE
      BY <2>2, <2>3, <2>5, <3>2
    <3> QED BY <3>3
  <2>9. m = r \/ m < r \/ r < m
    BY <2>2, <2>3
  <2> QED BY <2>6, <2>7, <2>8, <2>9
<1> QED BY <1>3, <1>4, <1>5
-----------------------------------------------------------------------------
(* The error.                                                              *)

\* A line within the limits of a key, raised at its right end by r.
LEMMA OnLineError ==
  ASSUME NEW s \in Samples, NEW a \in Points, NEW b \in Points, WithinError(s, a, b),
         NEW i \in Between(s, a, b.x), NEW r \in Nat
  PROVE  LET e == OnLine(a, Coord(b.x, b.y + r), s[i])
         IN  e \in Int /\ i - 1 - MaxError <= e /\ e <= i - 1 + MaxError + r
<1> DEFINE u == s[i] - a.x
           v == b.y - a.y
           d == b.x - a.x
           t == i - 1 - a.y
           lo == LowerAt(s, i).y - a.y
           q == (u * (v + r)) \div d
<1>1. i \in 1 .. Len(s) /\ i \in Int /\ a.x < s[i] /\ s[i] <= b.x /\ s[i] \in Nat /\ MaxError \in Nat
  BY SampleSorted, LearnedModelsAssumption DEF Between
<1>2. a.x \in Nat /\ a.y \in Nat /\ b.x \in Nat /\ b.y \in Nat
  BY DEF Points
<1>3. u \in Nat /\ v \in Int /\ d \in Nat \ {0} /\ u <= d /\ t \in Int
  BY <1>1, <1>2
<1>4. /\ LowerAt(s, i).x = s[i] /\ LowerAt(s, i).y \in Int /\ LowerAt(s, i).y >= i - 1 - MaxError
      /\ UpperAt(s, i).x = s[i] /\ UpperAt(s, i).y = i - 1 + MaxError
  BY <1>1 DEF LowerAt, UpperAt, Coord
<1>5. lo * d <= v * u /\ lo \in Int /\ lo >= t - MaxError
  <2>1. Below(a, LowerAt(s, i), b)
    BY DEF WithinError
  <2>2. lo * d <= v * u
    BY <1>4, <2>1 DEF Below
  <2>3. lo \in Int /\ lo >= t - MaxError
    <3> DEFINE y == LowerAt(s, i).y
    <3>1. y \in Int /\ y >= i - 1 - MaxError
      BY <1>4
    <3> HIDE DEF y
    <3>2. y - a.y \in Int /\ y - a.y >= (i - 1 - a.y) - MaxError
      BY <1>1, <1>2, <3>1
    <3> QED BY <3>2 DEF y
  <2> HIDE DEF lo, v, u, d
  <2> QED BY <2>2, <2>3
<1>6. v * u <= (t + MaxError) * d
  <2>1. Below(a, b, UpperAt(s, i))
    BY DEF WithinError
  <2>2. v * u <= (UpperAt(s, i).y - a.y) * d
    BY <1>4, <2>1 DEF Below
  <2>3. UpperAt(s, i).y - a.y = t + MaxError
    BY <1>1, <1>2, <1>4
  <2> QED BY <2>2, <2>3
<1>7. OnLine(a, Coord(b.x, b.y + r), s[i]) = a.y + q
  <2>1. Coord(b.x, b.y + r).x = b.x /\ Coord(b.x, b.y + r).y = b.y + r
    BY DEF Coord
  <2>2. (b.y + r) - a.y = v + r
    BY <1>2
  <2> QED BY <2>1, <2>2 DEF OnLine
<1>8. i - 1 = a.y + t
  BY <1>1, <1>2
<1> HIDE DEF u, v, d, t, lo
<1>9. u * (v + r) \in Int /\ (t - MaxError) * d <= u * (v + r)
  <2>1. (t - MaxError) * d <= lo * d
    BY <1>1, <1>3, <1>5
  <2>2. u * (v + r) = v * u + u * r /\ u * r \in Nat /\ v * u \in Int /\ lo * d \in Int
    BY <1>3, <1>5
  <2>3. (t - MaxError) * d \in Int
    BY <1>1, <1>3
  <2> QED BY <1>5, <2>1, <2>2, <2>3
<1>10. u * (v + r) <= (t + MaxError + r) * d
  <2>1. u * (v + r) = v * u + u * r /\ u * r <= r * d /\ u * r \in Nat /\ v * u \in Int
    BY <1>3
  <2>2. (t + MaxError + r) * d = (t + MaxError) * d + r * d
    BY <1>1, <1>3
  <2>3. (t + MaxError) * d \in Int /\ r * d \in Int
    BY <1>1, <1>3
  <2> QED BY <1>6, <2>1, <2>2, <2>3
<1>11. q \in Int /\ t - MaxError <= q /\ q <= t + MaxError + r
  <2>1. t - MaxError \in Int /\ t + MaxError + r \in Int
    BY <1>1, <1>3
  <2>2. q \in Int
    BY <1>3, <1>9, DivBounds
  <2>3. t - MaxError <= q
    BY <1>3, <1>9, <2>1, DivAtLeast
  <2>4. q <= t + MaxError + r
    BY <1>3, <1>9, <1>10, <2>1, DivAtMost
  <2> QED BY <2>2, <2>3, <2>4
<1> HIDE DEF q
<1>12. /\ a.y + q \in Int /\ (a.y + t) - MaxError <= a.y + q
       /\ a.y + q <= (a.y + t) + MaxError + r
  <2>1. a.y \in Int /\ t \in Int /\ MaxError \in Int /\ r \in Int
    BY <1>1, <1>2, <1>3
  <2> QED BY <1>11, <2>1, ShiftBounds
<1> QED BY <1>7, <1>8, <1>12

\* By how much a key may be estimated too high: behind the last point but one
\* as many positions more as the largest key has further copies.
Slack(k) ==
  IF k > spline_points[Len(spline_points) - 1].x THEN num_keys - FirstIndex(max_key) ELSE 0

LEMMA EstimateError ==
  ASSUME Ready, NEW i \in 1 .. num_keys, Fresh(keysToLearn, i)
  PROVE  LET e == GetEstimatedPosition(keysToLearn[i])
             r == Slack(keysToLearn[i])
         IN  r \in Nat /\ i - 1 - MaxError <= e /\ e <= i - 1 + MaxError + r
<1> DEFINE s == keysToLearn
           points == spline_points
           n == Len(points)
           k == s[i]
           e == GetEstimatedPosition(k)
           f == FirstPlace(s, Last(s))
<1>1. /\ s \in Samples /\ num_keys = Len(s) /\ i \in 1 .. Len(s) /\ k \in Nat
      /\ Len(s) \in Nat /\ Len(s) > 1 /\ Last(s) = s[Len(s)]
      /\ min_key = s[1] /\ max_key = Last(s) /\ s[1] \in Nat /\ Last(s) \in Nat
      /\ MaxError \in Nat
  BY SampleSorted, LearnedModelsAssumption DEF Ready, num_keys, min_key, max_key
<1>2. f \in 1 .. Len(s) /\ s[f] = Last(s) /\ Fresh(s, f)
  <2>1. Len(s) \in 1 .. Len(s)
    BY <1>1
  <2> QED BY <1>1, <2>1, FirstIndexFacts
<1>3. FirstPlace(s, k) = i
  BY <1>1, FreshIsFirstIndex
<1>4. Slack(k) = IF k > points[n - 1].x THEN Len(s) - f ELSE 0
  BY <1>1 DEF Slack, FirstIndex, FirstPlace, num_keys, max_key
<1>5. Slack(k) \in Nat
  BY <1>1, <1>2, <1>4
<1>6. e \in 0 .. num_keys - 1
  BY <1>1, EstimateRange
<1>7. /\ SplineFinished(s, points, radix_table)
      /\ n \in Nat /\ n > 1 /\ points[n].x = Last(s)
      /\ \A j \in 1 .. n : points[j] \in Points /\ points[j].x \in Nat
      /\ \A j, l \in 1 .. n : j <= l => points[j].x <= points[l].x
      /\ points[n - 1].x < Last(s) /\ points[n] = Coord(Last(s), Len(s) - 1)
      /\ n - 1 \in 1 .. n
  <2>1. SplineFinished(s, points, radix_table)
    BY DEF Ready
  <2>2. /\ n \in Nat /\ n > 1 /\ points[n].x = Last(s)
        /\ \A j \in 1 .. n : points[j] \in Points /\ points[j].x \in Nat
        /\ \A j, l \in 1 .. n : j <= l => points[j].x <= points[l].x
    BY <1>1, <2>1, FinishedPoints
  <2>3. n - 1 \in 1 .. n /\ n \in 1 .. n /\ n - 1 < n
    BY <2>2
  <2>4. points[n - 1].x < points[n].x /\ points[n] = Coord(Last(s), Len(s) - 1)
    BY <2>1, <2>3 DEF SplineFinished
  <2> QED BY <2>1, <2>2, <2>3, <2>4
<1>8. CASE k <= min_key
  <2>1. e = 0
    BY <1>8, EstimateIs
  <2>2. i = 1
    <3>1. 1 \in 1 .. Len(s) /\ s[i] <= s[1]
      BY <1>1, <1>8
    <3>2. i <= 1
      BY <1>1, <3>1, FreshIsFirst
    <3> QED BY <1>1, <3>2
  <2> HIDE DEF e
  <2>3. i - 1 - MaxError <= e /\ e <= i - 1 + MaxError + Slack(k)
    BY <1>1, <1>5, <2>1, <2>2
  <2> QED BY <1>5, <2>3 DEF e
<1>9. CASE ~ (k <= min_key) /\ k >= max_key
  <2>1. e = num_keys - 1
    BY <1>9, EstimateIs
  <2>2. k = Last(s)
    <3>1. Len(s) \in 1 .. Len(s) /\ i <= Len(s)
      BY <1>1
    <3>2. k <= s[Len(s)]
      BY <1>1, <3>1, SampleSorted
    <3> QED BY <1>1, <1>9, <3>2
  <2>3. i = f
    BY <1>3, <2>2
  <2>4. Slack(k) = Len(s) - f
    BY <1>4, <1>7, <2>2
  <2> HIDE DEF e, f, k
  <2>5. i - 1 - MaxError <= e /\ e <= i - 1 + MaxError + Slack(k)
    BY <1>1, <1>2, <2>1, <2>3, <2>4
  <2> QED BY <1>5, <2>5 DEF e, k
<1>10. CASE ~ (k <= min_key) /\ ~ (k >= max_key)
  <2> DEFINE m == GetSplineSegment(k)
             a == points[m]
             b == points[m + 1]
  <2>1. min_key < k /\ k < max_key
    BY <1>1, <1>10
  <2>2. /\ m \in 1 .. n - 1 /\ m \in 1 .. n /\ m + 1 \in 1 .. n
        /\ a \in Points /\ b \in Points /\ a.x < k /\ k <= b.x /\ e = OnLine(a, b, k)
    BY <1>1, <2>1, EstimateInside
  <2>3. CASE m # n - 1
    <3>1. m \in 1 .. (n - 1) - 1
      BY <1>7, <2>2, <2>3
    <3>2. WithinError(s, a, b)
      BY <1>7, <3>1 DEF SplineFinished, Precise
    <3>3. i \in Between(s, a, b.x)
      BY <1>1, <2>2 DEF Between
    <3>4. Coord(b.x, b.y + 0) = b
      <4> HIDE DEF b
      <4>1. b = [x |-> b.x, y |-> b.y] /\ b.y + 0 = b.y
        BY <2>2 DEF Points
      <4> QED BY <4>1 DEF Coord
    <3>5. i - 1 - MaxError <= e /\ e <= i - 1 + MaxError + 0 /\ e \in Int
      <4> HIDE DEF a, b, e
      <4>1. 0 \in Nat
        OBVIOUS
      <4> QED BY <1>1, <2>2, <3>2, <3>3, <3>4, <4>1, OnLineError
    <3>6. Slack(k) = 0
      <4>1. m + 1 <= n - 1
        BY <1>7, <3>1
      <4>2. b.x <= points[n - 1].x /\ b.x \in Nat /\ points[n - 1].x \in Nat
        BY <1>7, <2>2, <4>1
      <4>3. ~ (k > points[n - 1].x)
        BY <1>1, <2>2, <4>2
      <4> QED BY <1>4, <4>3
    <3> HIDE DEF e, k
    <3> QED BY <1>1, <3>5, <3>6 DEF e, k
  <2>4. CASE m = n - 1
    <3> DEFINE top == Coord(Last(s), f - 1)
    <3>1. b = Coord(Last(s), Len(s) - 1)
      <4>1. m + 1 = n
        BY <1>7, <2>4
      <4> QED BY <1>7, <4>1
    <3>2. WithinError(s, a, top) /\ top \in Points /\ top.x = Last(s) /\ top.y = f - 1
      <4>1. WithinError(s, a, top)
        BY <1>7, <2>4 DEF SplineFinished
      <4>2. f - 1 \in Nat
        BY <1>2
      <4> QED BY <1>1, <4>1, <4>2 DEF Coord, Points
    <3>3. i \in Between(s, a, top.x)
      <4>1. k <= Last(s)
        BY <1>1, <2>1
      <4> QED BY <1>1, <2>2, <3>2, <4>1 DEF Between
    <3>4. Len(s) - f \in Nat /\ top.y + (Len(s) - f) = Len(s) - 1
      BY <1>1, <1>2, <3>2
    <3>5. Coord(top.x, top.y + (Len(s) - f)) = b
      BY <3>1, <3>2, <3>4
    <3>6. i - 1 - MaxError <= e /\ e <= i - 1 + MaxError + (Len(s) - f)
      <4> HIDE DEF a, b, e, top, f
      <4> QED BY <1>1, <2>2, <3>2, <3>3, <3>4, <3>5, OnLineError
    <3>7. Slack(k) = Len(s) - f
      <4>1. k > points[n - 1].x
        <5>1. a.x \in Nat
          BY <1>7, <2>2
        <5> QED BY <1>1, <2>2, <2>4, <5>1
      <4> QED BY <1>4, <4>1
    <3> HIDE DEF e, k, f
    <3> QED BY <1>5, <3>6, <3>7 DEF e, k
  <2> QED BY <2>3, <2>4
<1> QED BY <1>8, <1>9, <1>10

LEMMA KeyBefore ==
  ASSUME NEW s \in Samples, NEW f \in 1 .. Len(s), Fresh(s, f), NEW j \in 1 .. Len(s), j < f
  PROVE  s[j] < s[f]
<1>1. s[j] <= s[f] /\ s[j] \in Nat /\ s[f] \in Nat
  BY SampleSorted
<1>2. s[j] # s[f]
  BY FreshIsFirst, SampleSorted
<1> QED BY <1>1, <1>2

LEMMA BoundsHold ==
  ASSUME Ready
  PROVE  SplineBounds
<1>1. /\ keysToLearn \in Samples /\ num_keys = Len(keysToLearn)
      /\ num_keys \in Nat /\ num_keys > 1 /\ min_key \in Nat /\ max_key \in Nat
      /\ \A i \in 1 .. num_keys : keysToLearn[i] \in Nat
      /\ MaxError \in Nat
  BY SampleSorted, LearnedModelsAssumption DEF Ready, num_keys, min_key, max_key
<1>2. ASSUME NEW i \in 1 .. num_keys
      PROVE  LET k == keysToLearn[i]
                 first == FirstIndex(k) - 1
             IN  /\ BoundedError(k) => lower_bound(k) = first
                 /\ first < GetSearchBound(k).end
  <2> DEFINE k == keysToLearn[i]
             f == FirstIndex(k)
             e == GetEstimatedPosition(k)
             r == Slack(k)
  <2>1. f \in 1 .. num_keys /\ keysToLearn[f] = k /\ Fresh(keysToLearn, f)
    <3>1. f = FirstPlace(keysToLearn, k)
      BY DEF FirstIndex, FirstPlace, num_keys
    <3> QED BY <1>1, <3>1, FirstIndexFacts
  <2>2. e \in 0 .. num_keys - 1
    BY <1>1, EstimateRange
  <2>3. r \in Nat /\ f - 1 - MaxError <= e /\ e <= f - 1 + MaxError + r
    <3> HIDE DEF f
    <3>1. /\ Slack(keysToLearn[f]) \in Nat
          /\ f - 1 - MaxError <= GetEstimatedPosition(keysToLearn[f])
          /\ GetEstimatedPosition(keysToLearn[f]) <= f - 1 + MaxError + Slack(keysToLearn[f])
      BY <2>1, EstimateError
    <3> HIDE DEF k
    <3> QED BY <2>1, <3>1
  <2>4. /\ GetSearchBound(k).begin = IF e < MaxError THEN 0 ELSE e - MaxError
        /\ GetSearchBound(k).end = IF e + MaxError + 2 > num_keys THEN num_keys
                                   ELSE e + MaxError + 2
    BY DEF GetSearchBound
  <2> HIDE DEF k, f, e, r
  <2>5. /\ GetSearchBound(k).begin <= (f - 1) + r /\ f - 1 < GetSearchBound(k).end
    BY <1>1, <2>1, <2>2, <2>3, <2>4
  <2>6. ASSUME BoundedError(k) PROVE lower_bound(k) = f - 1
    <3> DEFINE b == GetSearchBound(k).begin
               d == GetSearchBound(k).end
               T == {d} \cup {j \in b .. d - 1 : keysToLearn[j + 1] >= k}
    <3>1. r = 0
      <4>1. k > spline_points[Len(spline_points) - 1].x => FirstIndex(max_key) = num_keys
        BY <2>6 DEF BoundedError
      <4> QED BY <1>1, <4>1 DEF r, Slack
    <3>2. b \in Nat /\ d \in Nat /\ d <= num_keys
      BY <1>1, <2>2, <2>4
    <3>3. b <= f - 1 /\ f - 1 < d
      BY <1>1, <2>1, <2>5, <3>1
    <3> HIDE DEF b, d
    <3>4. f - 1 \in T
      <4>1. f - 1 \in b .. d - 1 /\ f - 1 + 1 = f
        BY <1>1, <2>1, <3>2, <3>3
      <4>2. keysToLearn[f] >= k
        BY <1>1, <2>1
      <4> QED BY <4>1, <4>2
    <3>5. ASSUME NEW j \in T PROVE f - 1 <= j
      <4>1. CASE j = d
        BY <1>1, <2>1, <3>2, <3>3, <4>1
      <4>2. CASE j # d
        <5>1. j \in b .. d - 1 /\ keysToLearn[j + 1] >= k
          BY <3>5, <4>2
        <5>2. j + 1 \in 1 .. num_keys
          BY <1>1, <3>2, <5>1
        <5>3. j + 1 < f => keysToLearn[j + 1] < k
          BY <1>1, <2>1, <5>2, KeyBefore
        <5>4. ~ (keysToLearn[j + 1] < k)
          BY <1>1, <2>1, <5>1, <5>2
        <5> QED BY <1>1, <2>1, <3>2, <5>1, <5>2, <5>3, <5>4
      <4> QED BY <4>1, <4>2
    <3>6. T \in SUBSET Nat
      BY <3>2
    <3>7. Min(T) \in T /\ \A y \in T : Min(T) <= y
      BY <3>4, <3>6, MinIsLeast
    <3>8. Min(T) = f - 1
      <4> HIDE DEF T, f
      <4>1. Min(T) <= f - 1 /\ f - 1 <= Min(T) /\ Min(T) \in Nat
        BY <3>4, <3>5, <3>6, <3>7
      <4>2. f - 1 \in Nat
        BY <3>4, <3>6
      <4> QED BY <4>1, <4>2
    <3> QED BY <3>8 DEF lower_bound, T, b, d
  <2> QED BY <2>5, <2>6 DEF k, f
<1>3. ASSUME NEW k \in min_key + 1 .. max_key - 1
      PROVE  LET index == GetSplineSegment(k)
             IN  spline_points[index].x < k /\ k <= spline_points[index + 1].x
  <2>1. k \in Nat /\ min_key < k /\ k < max_key
    BY <1>1
  <2> QED BY <2>1, SegmentFound
<1>4. ASSUME NEW k \in 0 .. max_key
      PROVE  /\ GetEstimatedPosition(k) \in 0 .. num_keys - 1
             /\ GetEstimatedPosition(k) <= GetEstimatedPosition(k + 1)
  <2>1. k \in Nat /\ k + 1 \in Nat /\ k <= k + 1
    BY <1>1
  <2> QED BY <2>1, EstimateRange, EstimateOrder
<1> QED BY <1>2, <1>3, <1>4 DEF SplineBounds
-----------------------------------------------------------------------------
(* The lines of the RMI.                                                   *)

\* A fraction, rounded down and clamped.
Clamped(n, d, limit) == IF n < 0 THEN 0 ELSE IF n > limit * d THEN limit ELSE n \div d

LEMMA ClampedRange ==
  ASSUME NEW n \in Int, NEW d \in Nat \ {0}, NEW limit \in Nat
  PROVE  Clamped(n, d, limit) \in 0 .. limit
<1>1. limit * d \in Nat
  OBVIOUS
<1>2. CASE n < 0 \/ n > limit * d
  BY <1>1, <1>2 DEF Clamped
<1>3. CASE ~ (n < 0) /\ ~ (n > limit * d)
  <2>1. n \in Nat /\ n <= limit * d
    BY <1>1, <1>3
  <2>2. n \div d \in Nat /\ n \div d <= limit
    BY <2>1, DivNat, DivAtMost
  <2> QED BY <1>3, <2>2 DEF Clamped
<1> QED BY <1>2, <1>3

LEMMA CrossSign ==
  ASSUME NEW n \in Int, NEW d \in Nat \ {0}, NEW m \in Int, NEW e \in Nat \ {0},
         n * e <= m * d, n >= 0
  PROVE  m >= 0
<1>1. SUFFICES ASSUME m < 0 PROVE FALSE
  OBVIOUS
<1>2. m * d < 0 /\ n * e >= 0
  BY <1>1
<1> QED BY <1>2

LEMMA CrossLimit ==
  ASSUME NEW n \in Int, NEW d \in Nat \ {0}, NEW m \in Int, NEW e \in Nat \ {0},
         n * e <= m * d, NEW limit \in Nat, n > limit * d
  PROVE  m > limit * e
<1>1. SUFFICES ASSUME m <= limit * e PROVE FALSE
  OBVIOUS
<1>2. m * d <= (limit * e) * d
  BY <1>1
<1>3. (limit * d) * e < n * e
  OBVIOUS
<1>4. (limit * d) * e = (limit * e) * d
  OBVIOUS
<1> QED BY <1>2, <1>3, <1>4

LEMMA ClampedMonotone ==
  ASSUME NEW n \in Int, NEW d \in Nat \ {0}, NEW m \in Int, NEW e \in Nat \ {0},
         n * e <= m * d, NEW limit \in Nat
  PROVE  Clamped(n, d, limit) <= Clamped(m, e, limit)
<1>1. Clamped(n, d, limit) \in 0 .. limit /\ Clamped(m, e, limit) \in 0 .. limit
  BY ClampedRange
<1>2. CASE n < 0
  BY <1>1, <1>2 DEF Clamped
<1>3. CASE ~ (n < 0) /\ n > limit * d
  <2>1. m >= 0 /\ m > limit * e
    BY <1>3, CrossSign, CrossLimit
  <2>2. Clamped(m, e, limit) = limit
    BY <2>1 DEF Clamped
  <2> QED BY <1>1, <2>2
<1>4. CASE ~ (n < 0) /\ ~ (n > limit * d)
  <2>1. m >= 0 /\ Clamped(n, d, limit) = n \div d
    BY <1>4, CrossSign DEF Clamped
  <2>2. CASE m > limit * e
    <3>1. Clamped(m, e, limit) = limit
      BY <2>1, <2>2 DEF Clamped
    <3> QED BY <1>1, <3>1
  <2>3. CASE ~ (m > limit * e)
    <3>1. Clamped(m, e, limit) = m \div e
      BY <2>1, <2>3 DEF Clamped
    <3> QED BY <2>1, <3>1, DivMonotone
  <2> QED BY <2>2, <2>3
<1> QED BY <1>2, <1>3, <1>4

\* A line that does not fall.
Lines == [min : Points, max : Points]
Rises(line) == line \in Lines /\ line.min.x <= line.max.x /\ line.min.y <= line.max.y

LEMMA LinearFlat ==
  ASSUME NEW line, Rises(line), line.min.x = line.max.x, NEW scale, NEW k, NEW limit
  PROVE  LinearModel(line, scale, k, limit) = Clamped((limit + 1) * line.min.y, scale, limit)
<1>1. line.max.x - line.min.x = 0
  BY DEF Rises, Lines, Points
<1> QED BY <1>1 DEF LinearModel, Clamped

LEMMA LinearSteep ==
  ASSUME NEW line, Rises(line), line.min.x # line.max.x,
         NEW scale \in Nat \ {0}, NEW k \in Nat, NEW limit \in Nat
  PROVE  LET dx == line.max.x - line.min.x
             dy == line.max.y - line.min.y
         IN  /\ dx \in Nat \ {0} /\ dy \in Nat /\ line.min.y \in Nat /\ line.min.x \in Nat
             /\ line.max.y = line.min.y + dy
             /\ scale * dx \in Nat \ {0}
             /\ LinearModel(line, scale, k, limit) =
                  Clamped((limit + 1) * (line.min.y * dx + dy * (k - line.min.x)), scale * dx, limit)
<1> DEFINE dx == line.max.x - line.min.x
           dy == line.max.y - line.min.y
<1>1. /\ dx \in Nat \ {0} /\ dy \in Nat /\ line.min.y \in Nat /\ line.min.x \in Nat
      /\ line.max.y = line.min.y + dy
  BY DEF Rises, Lines, Points
<1>2. LinearModel(line, scale, k, limit) =
        Clamped((limit + 1) * (line.min.y * dx + dy * (k - line.min.x)), scale * dx, limit)
  BY <1>1 DEF LinearModel, Clamped
<1> HIDE DEF dx, dy
<1>3. scale * dx \in Nat \ {0}
  BY <1>1
<1> QED BY <1>1, <1>2, <1>3 DEF dx, dy

LEMMA LinearRange ==
  ASSUME NEW line, Rises(line), NEW scale \in Nat \ {0}, NEW k \in Nat, NEW limit \in Nat
  PROVE  LinearModel(line, scale, k, limit) \in 0 .. limit
<1>1. CASE line.min.x = line.max.x
  <2>1. line.min.y \in Nat
    BY DEF Rises, Lines, Points
  <2>2. (limit + 1) * line.min.y \in Int
    BY <2>1
  <2> QED BY <1>1, <2>2, LinearFlat, ClampedRange
<1>2. CASE line.min.x # line.max.x
  <2> DEFINE dx == line.max.x - line.min.x
             dy == line.max.y - line.min.y
             n == (limit + 1) * (line.min.y * dx + dy * (k - line.min.x))
  <2>1. /\ dx \in Nat \ {0} /\ dy \in Nat /\ line.min.y \in Nat /\ line.min.x \in Nat
        /\ scale * dx \in Nat \ {0}
        /\ LinearModel(line, scale, k, limit) = Clamped(n, scale * dx, limit)
    BY <1>2, LinearSteep
  <2> HIDE DEF dx, dy
  <2>2. n \in Int
    BY <2>1
  <2> HIDE DEF n
  <2> QED BY <2>1, <2>2, ClampedRange
<1> QED BY <1>1, <1>2

LEMMA LinearRises ==
  ASSUME NEW line, Rises(line), NEW scale \in Nat \ {0}, NEW limit \in Nat,
         NEW k \in Nat, NEW j \in Nat, k <= j
  PROVE  LinearModel(line, scale, k, limit) <= LinearModel(line, scale, j, limit)
<1>1. CASE line.min.x = line.max.x
  <2>1. LinearModel(line, scale, k, limit) = LinearModel(line, scale, j, limit)
    BY <1>1, LinearFlat
  <2>2. LinearModel(line, scale, k, limit) \in 0 .. limit
    BY LinearRange
  <2> QED BY <2>1, <2>2
<1>2. CASE line.min.x # line.max.x
  <2> DEFINE dx == line.max.x - line.min.x
             dy == line.max.y - line.min.y
             y == line.min.y
             u == k - line.min.x
             v == j - line.min.x
             n == (limit + 1) * (y * dx + dy * u)
             m == (limit + 1) * (y * dx + dy * v)
             d == scale * dx
  <2>1. /\ dx \in Nat \ {0} /\ dy \in Nat /\ y \in Nat /\ line.min.x \in Nat /\ d \in Nat \ {0}
        /\ LinearModel(line, scale, k, limit) = Clamped(n, d, limit)
        /\ LinearModel(line, scale, j, limit) = Clamped(m, d, limit)
    BY <1>2, LinearSteep
  <2>2. u \in Int /\ v \in Int /\ u <= v
    BY <2>1
  <2> HIDE DEF dx, dy, y, u, v, d
  <2>3. y * dx + dy * u \in Int /\ y * dx + dy * v \in Int /\ y * dx + dy * u <= y * dx + dy * v
    <3>1. y * dx \in Nat
      BY <2>1
    <3> QED BY <2>1, <2>2, <3>1, LineOrder
  <2>4. n \in Int /\ m \in Int /\ n <= m
    BY <2>3
  <2> HIDE DEF n, m
  <2>5. n * d <= m * d
    BY <2>1, <2>4
  <2> QED BY <2>1, <2>4, <2>5, ClampedMonotone
<1> QED BY <1>1, <1>2

\* Between its ends a line stays between their heights.
LEMMA LinearBetween ==
  ASSUME NEW line, Rises(line), NEW scale \in Nat \ {0}, NEW limit \in Nat,
         NEW k \in Nat, line.min.x <= k, k <= line.max.x
  PROVE  /\ Clamped((limit + 1) * line.min.y, scale, limit) <= LinearModel(line, scale, k, limit)
         /\ LinearModel(line, scale, k, limit) <= Clamped((limit + 1) * line.max.y, scale, limit)
<1> DEFINE y == line.min.y
           z == line.max.y
           c == limit + 1
<1>1. y \in Nat /\ z \in Nat /\ y <= z /\ c \in Nat \ {0}
  BY DEF Rises, Lines, Points
<1>2. CASE line.min.x = line.max.x
  <2>1. LinearModel(line, scale, k, limit) = Clamped(c * y, scale, limit)
    BY <1>2, LinearFlat
  <2> HIDE DEF y, z, c
  <2>2. c * y \in Int /\ c * z \in Int /\ (c * y) * scale <= (c * y) * scale
        /\ (c * y) * scale <= (c * z) * scale
    <3>1. c * y \in Nat /\ c * z \in Nat /\ c * y <= c * z
      BY <1>1
    <3> QED BY <3>1
  <2>3. /\ Clamped(c * y, scale, limit) <= Clamped(c * y, scale, limit)
        /\ Clamped(c * y, scale, limit) <= Clamped(c * z, scale, limit)
    BY <2>2, ClampedMonotone
  <2> QED BY <2>1, <2>3 DEF y, z, c
<1>3. CASE line.min.x # line.max.x
  <2> DEFINE dx == line.max.x - line.min.x
             dy == line.max.y - line.min.y
             u == k - line.min.x
             h == y * dx + dy * u
             d == scale * dx
  <2>1. /\ dx \in Nat \ {0} /\ dy \in Nat /\ line.min.x \in Nat /\ line.max.x \in Nat
        /\ z = y + dy /\ d \in Nat \ {0}
        /\ LinearModel(line, scale, k, limit) = Clamped(c * h, d, limit)
    BY <1>3, LinearSteep DEF Rises, Lines, Points
  <2>2. u \in Nat /\ u <= dx
    BY <2>1
  <2> HIDE DEF y, z, c, dx, dy, u
  <2>3. h \in Nat /\ y * dx <= h /\ h <= z * dx /\ y * dx \in Nat /\ z * dx \in Nat
    <3>1. dy * u \in Nat /\ dy * u <= dy * dx /\ dy * dx \in Nat
      BY <2>1, <2>2
    <3>4. y * dx \in Nat
      BY <1>1, <2>1
    <3>2. z * dx = y * dx + dy * dx
      BY <1>1, <2>1
    <3> QED BY <3>1, <3>2, <3>4
  <2> HIDE DEF h
  <2>4. c * y \in Int /\ c * z \in Int /\ c * h \in Int
    BY <1>1, <2>3
  <2>5. (c * y) * d <= (c * h) * scale
    <3>1. (c * scale) * (y * dx) <= (c * scale) * h
      <4>1. c * scale \in Nat
        BY <1>1
      <4> HIDE DEF d
      <4> QED BY <2>3, <4>1
    <3>2. (c * y) * d = (c * scale) * (y * dx)
      BY <1>1, <2>1
    <3>3. (c * h) * scale = (c * scale) * h
      BY <1>1, <2>3
    <3> QED BY <3>1, <3>2, <3>3
  <2>6. (c * h) * scale <= (c * z) * d
    <3>1. (c * scale) * h <= (c * scale) * (z * dx)
      <4>1. c * scale \in Nat
        BY <1>1
      <4> HIDE DEF d
      <4> QED BY <2>3, <4>1
    <3>2. (c * z) * d = (c * scale) * (z * dx)
      BY <1>1, <2>1
    <3>3. (c * h) * scale = (c * scale) * h
      BY <1>1, <2>3
    <3> QED BY <3>1, <3>2, <3>3
  <2> HIDE DEF d
  <2>7. Clamped(c * y, scale, limit) <= Clamped(c * h, d, limit)
    BY <2>1, <2>4, <2>5, ClampedMonotone
  <2>8. Clamped(c * h, d, limit) <= Clamped(c * z, scale, limit)
    BY <2>1, <2>4, <2>6, ClampedMonotone
  <2> QED BY <2>1, <2>7, <2>8 DEF y, z, c
<1> QED BY <1>2, <1>3
-----------------------------------------------------------------------------
(* The training of the RMI.                                                *)

\* The bucket of the i-th key.
Home(s, i) ==
  LinearModel([min |-> Coord(s[1], 0), max |-> Coord(Last(s), 1)], 1, s[i],
              SecondLevelModelCount - 1)

Homes == 0 .. SecondLevelModelCount - 1
Buckets == [Homes -> Seq(Points)]

\* The point of one of the first n keys.
SampledPoint(s, n, p) == p \in Points /\ p.y < n /\ p.x = s[p.y + 1]

\* An untrained bucket spans its keys, and does not begin in front of a key
\* of a bucket before it.
BucketInv(s, n, bucket, b) ==
  /\ \A i \in 1 .. n : Home(s, i) = b => bucket # <<>>
  /\ bucket # <<>> =>
       /\ SampledPoint(s, n, bucket[1]) /\ SampledPoint(s, n, Last(bucket))
       /\ Home(s, Last(bucket).y + 1) = b
       /\ \A i \in 1 .. n :
            /\ Home(s, i) = b => bucket[1].y <= i - 1 /\ i - 1 <= Last(bucket).y
            /\ Home(s, i) < b => i - 1 <= bucket[1].y

\* A trained model spans the keys of its bucket, too; its right end is the
\* last key up to its bucket.
TrainedInv(s, bucket, fitted, b) ==
  /\ bucket # <<>> /\ Last(bucket) = fitted.max
  /\ Rises(fitted) /\ SampledPoint(s, Len(s), fitted.max) /\ Home(s, fitted.max.y + 1) <= b
  /\ \A i \in 1 .. Len(s) :
       /\ Home(s, i) = b => fitted.min.x <= s[i]
       /\ Home(s, i) < b => i - 1 <= fitted.min.y
       /\ Home(s, i) <= b => i - 1 <= fitted.max.y

RmiInv ==
  /\ placed \in 0 .. num_keys
  /\ training_buckets \in Buckets
  /\ second_level_models \in Seq(Lines)
  /\ Len(second_level_models) <= SecondLevelModelCount
  /\ modelPc \in {"add", "finalize", "place"} => second_level_models = <<>>
  /\ modelPc = "place" => placed < num_keys
  /\ modelPc = "train" => placed = num_keys /\ Len(second_level_models) < SecondLevelModelCount
  /\ modelPc = "done" /\ second_level_models # <<>> =>
       placed = num_keys /\ Len(second_level_models) = SecondLevelModelCount
  /\ \A b \in Homes :
       IF b < Len(second_level_models)
       THEN TrainedInv(keysToLearn, training_buckets[b], second_level_models[b + 1], b)
       ELSE BucketInv(keysToLearn, placed, training_buckets[b], b)

LEMMA RootRises ==
  ASSUME NEW s \in Samples
  PROVE  Rises([min |-> Coord(s[1], 0), max |-> Coord(Last(s), 1)])
<1>1. s[1] \in Nat /\ Last(s) \in Nat /\ s[1] <= Last(s)
  BY SampleSorted
<1> QED BY <1>1 DEF Rises, Lines, Points, Coord

LEMMA HomeFacts ==
  ASSUME NEW s \in Samples
  PROVE  /\ \A i \in 1 .. Len(s) : Home(s, i) \in Homes
         /\ \A i, j \in 1 .. Len(s) : i <= j => Home(s, i) <= Home(s, j)
         /\ Home(s, 1) = 0
<1> DEFINE root == [min |-> Coord(s[1], 0), max |-> Coord(Last(s), 1)]
           limit == SecondLevelModelCount - 1
<1>1. Rises(root) /\ limit \in Nat /\ 1 \in Nat \ {0}
  BY RootRises, LearnedModelsAssumption
<1>2. \A i \in 1 .. Len(s) : s[i] \in Nat
  BY SampleSorted
<1>3. ASSUME NEW i \in 1 .. Len(s) PROVE Home(s, i) \in Homes
  <2> HIDE DEF root
  <2>1. LinearModel(root, 1, s[i], limit) \in 0 .. limit
    BY <1>1, <1>2, LinearRange
  <2> QED BY <2>1 DEF Home, Homes, root
<1>4. ASSUME NEW i \in 1 .. Len(s), NEW j \in 1 .. Len(s), i <= j
      PROVE  Home(s, i) <= Home(s, j)
  <2> HIDE DEF root
  <2>1. s[i] <= s[j]
    BY <1>4, SampleSorted
  <2>2. LinearModel(root, 1, s[i], limit) <= LinearModel(root, 1, s[j], limit)
    BY <1>1, <1>2, <2>1, LinearRises
  <2> QED BY <2>2 DEF Home, root
<1>5. Home(s, 1) = 0
  <2> DEFINE dx == root.max.x - root.min.x
             dy == root.max.y - root.min.y
             h == root.min.y * dx + dy * (s[1] - root.min.x)
  <2>1. root.min.x = s[1] /\ root.min.y = 0 /\ root.max.x = Last(s)
    BY DEF Coord
  <2>2. s[1] \in Nat /\ root.min.x # root.max.x
    BY <2>1, SampleSorted
  <2> HIDE DEF root
  <2>3. /\ dx \in Nat \ {0} /\ dy \in Nat /\ 1 * dx \in Nat \ {0}
        /\ LinearModel(root, 1, s[1], limit) = Clamped((limit + 1) * h, 1 * dx, limit)
    BY <1>1, <2>2, LinearSteep
  <2>4. h = 0
    <3> HIDE DEF dx, dy
    <3>1. s[1] - root.min.x = 0
      BY <2>1, <2>2
    <3> QED BY <2>1, <2>3, <3>1
  <2> HIDE DEF h
  <2>5. (limit + 1) * h = 0
    BY <1>1, <2>4
  <2> HIDE DEF dx
  <2>6. 0 \div (1 * dx) = 0 /\ limit * (1 * dx) \in Nat
    BY <1>1, <2>3
  <2>7. Clamped(0, 1 * dx, limit) = 0
    BY <2>6 DEF Clamped
  <2> QED BY <2>3, <2>5, <2>7 DEF Home, root
<1> QED BY <1>3, <1>4, <1>5

LEMMA RootIsHome == \A i : RootModel(keysToLearn[i]) = Home(keysToLearn, i)
BY DEF RootModel, Home, min_key, max_key

LEMMA SampledKey ==
  ASSUME NEW s \in Samples, NEW n \in 0 .. Len(s), NEW p, SampledPoint(s, n, p)
  PROVE  p \in Points /\ p.x \in Nat /\ p.y \in Nat /\ p.y < n /\ p.y + 1 \in 1 .. n
         /\ p.y + 1 \in 1 .. Len(s) /\ p.x = s[p.y + 1]
<1>1. p.x \in Nat /\ p.y \in Nat /\ p.y < n /\ p.x = s[p.y + 1]
  BY DEF SampledPoint, Points
<1>2. Len(s) \in Nat /\ n \in Nat /\ n <= Len(s)
  BY SampleSorted
<1> QED BY <1>1, <1>2 DEF SampledPoint

\* A bucket's first point is not behind its last one.
LEMMA BucketRises ==
  ASSUME NEW s \in Samples, NEW n \in 0 .. Len(s), NEW bucket, NEW b,
         BucketInv(s, n, bucket, b), bucket # <<>>
  PROVE  bucket[1].y <= Last(bucket).y
<1>1. SampledPoint(s, n, Last(bucket)) /\ Home(s, Last(bucket).y + 1) = b
  BY DEF BucketInv
<1>2. Last(bucket).y + 1 \in 1 .. n /\ Last(bucket).y \in Nat
  BY <1>1, SampledKey
<1>3. bucket[1].y <= (Last(bucket).y + 1) - 1
  BY <1>1, <1>2 DEF BucketInv
<1> QED BY <1>2, <1>3
-----------------------------------------------------------------------------
(* PlaceKey.                                                               *)

\* A key behind all placed ones goes to no bucket before theirs.
LEMMA OtherBucket ==
  ASSUME NEW s \in Samples, NEW n \in 0 .. Len(s) - 1, NEW bucket, NEW b,
         BucketInv(s, n, bucket, b), b # Home(s, n + 1)
  PROVE  BucketInv(s, n + 1, bucket, b)
<1>1. /\ n \in Nat /\ n + 1 \in 1 .. Len(s) /\ n \in 0 .. Len(s)
      /\ \A i \in 1 .. n : i \in 1 .. Len(s)
  BY SampleSorted
<1>2. ASSUME NEW i \in 1 .. n + 1, i \notin 1 .. n PROVE i = n + 1
  BY <1>1, <1>2
<1>3. ASSUME NEW i \in 1 .. n + 1, Home(s, i) = b PROVE bucket # <<>>
  BY <1>2, <1>3 DEF BucketInv
<1>4. ASSUME bucket # <<>>
      PROVE  /\ SampledPoint(s, n + 1, bucket[1]) /\ SampledPoint(s, n + 1, Last(bucket))
             /\ Home(s, Last(bucket).y + 1) = b
             /\ \A i \in 1 .. n + 1 :
                  /\ Home(s, i) = b => bucket[1].y <= i - 1 /\ i - 1 <= Last(bucket).y
                  /\ Home(s, i) < b => i - 1 <= bucket[1].y
  <2>1. SampledPoint(s, n, bucket[1]) /\ SampledPoint(s, n, Last(bucket)) /\ Home(s, Last(bucket).y + 1) = b
    BY <1>4 DEF BucketInv
  <2>2. /\ Last(bucket).y + 1 \in 1 .. n /\ Last(bucket).y + 1 <= n + 1
        /\ bucket[1].y < n /\ bucket[1].y \in Nat /\ Last(bucket).y < n /\ Last(bucket).y \in Nat
    BY <1>1, <2>1, SampledKey
  <2>3. b <= Home(s, n + 1)
    BY <1>1, <2>1, <2>2, HomeFacts
  <2>4. Home(s, n + 1) \in Int /\ b \in Int
    BY <1>1, <2>1, <2>2, HomeFacts DEF Homes
  <2>5. ~ (Home(s, n + 1) < b)
    BY <2>3, <2>4
  <2>6. SampledPoint(s, n + 1, bucket[1]) /\ SampledPoint(s, n + 1, Last(bucket))
    BY <1>1, <2>1, <2>2 DEF SampledPoint
  <2>7. ASSUME NEW i \in 1 .. n + 1
        PROVE  /\ Home(s, i) = b => bucket[1].y <= i - 1 /\ i - 1 <= Last(bucket).y
               /\ Home(s, i) < b => i - 1 <= bucket[1].y
    <3>1. CASE i \in 1 .. n
      BY <1>4, <3>1 DEF BucketInv
    <3>2. CASE i \notin 1 .. n
      BY <1>2, <2>5, <3>2
    <3> QED BY <3>1, <3>2
  <2> QED BY <2>1, <2>6, <2>7
<1> QED BY <1>3, <1>4 DEF BucketInv

\* The bucket of the key grows at its end.
LEMMA GrownBucket ==
  ASSUME NEW s \in Samples, NEW n \in 0 .. Len(s) - 1, NEW bucket \in Seq(Points),
         bucket # <<>>, BucketInv(s, n, bucket, Home(s, n + 1))
  PROVE  BucketInv(s, n + 1, Append(bucket, Coord(s[n + 1], n)), Home(s, n + 1))
<1> DEFINE b == Home(s, n + 1)
           p == Coord(s[n + 1], n)
           more == Append(bucket, p)
<1>1. /\ n \in Nat /\ n + 1 \in 1 .. Len(s) /\ n \in 0 .. Len(s) /\ s[n + 1] \in Nat
  BY SampleSorted
<1>2. p \in Points /\ p.x = s[n + 1] /\ p.y = n
  BY <1>1 DEF Points, Coord
<1>3. more # <<>> /\ more[1] = bucket[1] /\ Last(more) = p
  <2> HIDE DEF p
  <2>1. Len(bucket) \in Nat /\ Len(bucket) # 0
    BY EmptySeq
  <2>2. Len(more) = Len(bucket) + 1 /\ more[Len(bucket) + 1] = p /\ more[1] = bucket[1]
    BY <1>2, <2>1
  <2> HIDE DEF more
  <2>3. more # <<>> /\ Last(more) = p
    BY <2>1, <2>2 DEF Last
  <2> QED BY <2>2, <2>3
<1>4. SampledPoint(s, n, bucket[1])
  BY DEF BucketInv
<1>5. bucket[1].y \in Nat /\ bucket[1].y < n
  BY <1>1, <1>4, SampledKey
<1>6. SampledPoint(s, n + 1, more[1]) /\ SampledPoint(s, n + 1, Last(more))
  <2> HIDE DEF more, p
  <2>1. SampledPoint(s, n + 1, bucket[1]) /\ SampledPoint(s, n + 1, p)
    BY <1>1, <1>2, <1>4, <1>5 DEF SampledPoint
  <2> QED BY <1>3, <2>1
<1> HIDE DEF more, p
<1>7. ASSUME NEW i \in 1 .. n + 1
      PROVE  /\ Home(s, i) = b => more[1].y <= i - 1 /\ i - 1 <= Last(more).y
             /\ Home(s, i) < b => i - 1 <= more[1].y
  <2>1. CASE i \in 1 .. n
    <3>1. /\ Home(s, i) = b => bucket[1].y <= i - 1
          /\ Home(s, i) < b => i - 1 <= bucket[1].y
      BY <2>1 DEF BucketInv
    <3>2. i - 1 <= n
      BY <1>1, <2>1
    <3> QED BY <1>2, <1>3, <3>1, <3>2
  <2>2. CASE i \notin 1 .. n
    <3>1. i = n + 1 /\ i - 1 = n
      BY <1>1, <2>2
    <3>2. b \in Int
      BY <1>1, HomeFacts DEF Homes
    <3>3. ~ (Home(s, i) < b)
      BY <3>1, <3>2
    <3> QED BY <1>2, <1>3, <1>5, <3>1, <3>3
  <2> QED BY <2>1, <2>2
<1> QED BY <1>2, <1>3, <1>6, <1>7 DEF BucketInv, more, p

\* A bucket begins with its key, when no key is in front of it.
LEMMA FirstBucket ==
  ASSUME NEW s \in Samples, NEW n \in 0 .. Len(s) - 1,
         BucketInv(s, n, <<>>, Home(s, n + 1)),
         NEW q, SampledPoint(s, n + 1, q),
         \A i \in 1 .. n : Home(s, i) < Home(s, n + 1) => i - 1 <= q.y,
         NEW bucket, bucket # <<>>, bucket[1] = q, Last(bucket) = Coord(s[n + 1], n)
  PROVE  BucketInv(s, n + 1, bucket, Home(s, n + 1))
<1> DEFINE b == Home(s, n + 1)
           p == Coord(s[n + 1], n)
<1>1. /\ n \in Nat /\ n + 1 \in 1 .. Len(s) /\ n + 1 \in 0 .. Len(s) /\ s[n + 1] \in Nat
  BY SampleSorted
<1>2. p \in Points /\ p.x = s[n + 1] /\ p.y = n /\ n < n + 1
  BY <1>1 DEF Points, Coord
<1>3. SampledPoint(s, n + 1, p) /\ Home(s, p.y + 1) = b
  <2> HIDE DEF p
  <2> QED BY <1>2 DEF SampledPoint
<1>4. q.y \in Nat /\ q.y <= n
  BY <1>1, SampledKey
<1> HIDE DEF p
<1>5. ASSUME NEW i \in 1 .. n + 1
      PROVE  /\ Home(s, i) = b => q.y <= i - 1 /\ i - 1 <= p.y
             /\ Home(s, i) < b => i - 1 <= q.y
  <2>1. CASE i \in 1 .. n
    <3>1. Home(s, i) # b
      BY <2>1 DEF BucketInv
    <3> QED BY <2>1, <3>1
  <2>2. CASE i \notin 1 .. n
    <3>1. i = n + 1 /\ i - 1 = n
      BY <1>1, <2>2
    <3>2. b \in Int
      BY <1>1, HomeFacts DEF Homes
    <3>3. ~ (Home(s, i) < b)
      BY <3>1, <3>2
    <3> QED BY <1>2, <1>4, <3>1, <3>3
  <2> QED BY <2>1, <2>2
<1>6. Last(bucket) = p
  BY DEF p
<1> QED BY <1>3, <1>5, <1>6 DEF BucketInv

LEMMA Prepended ==
  ASSUME NEW p \in Points, NEW q \in Points
  PROVE  /\ Append(<<>>, p) = <<p>> /\ <<>> \o Append(<<>>, p) = <<p>>
         /\ <<q>> \o Append(<<>>, p) = <<q, p>>
         /\ <<p>> # <<>> /\ <<p>>[1] = p /\ Last(<<p>>) = p /\ <<p>> \in Seq(Points)
         /\ <<q, p>> # <<>> /\ <<q, p>>[1] = q /\ Last(<<q, p>>) = p /\ <<q, p>> \in Seq(Points)
<1>1. /\ <<p>> \in Seq(Points) /\ <<q>> \in Seq(Points) /\ <<q, p>> \in Seq(Points)
      /\ Len(<<p>>) = 1 /\ Len(<<q, p>>) = 2 /\ Append(<<>>, p) = <<p>>
  OBVIOUS
<1>2. <<>> \o <<p>> = <<p>>
  BY <1>1, ConcatEmptySeq
<1>3. <<q>> \o <<p>> = <<q, p>>
  <2>1. /\ <<q>> \o <<p>> \in Seq(Points) /\ Len(<<q>> \o <<p>>) = 2
        /\ (<<q>> \o <<p>>)[1] = q /\ (<<q>> \o <<p>>)[2] = p
    BY <1>1
  <2>2. <<q, p>>[1] = q /\ <<q, p>>[2] = p
    OBVIOUS
  <2>3. \A i \in 1 .. 2 : i = 1 \/ i = 2
    OBVIOUS
  <2> QED BY <1>1, <2>1, <2>2, <2>3, SeqEqual
<1>4. Last(<<p>>) = p /\ Last(<<q, p>>) = p
  BY <1>1 DEF Last
<1>5. <<p>> # <<>> /\ <<p>>[1] = p /\ <<q, p>> # <<>> /\ <<q, p>>[1] = q
  OBVIOUS
<1> QED BY <1>1, <1>2, <1>3, <1>4, <1>5
LEMMA PlaceKeyBuckets ==
  ASSUME NEW s \in Samples, NEW n \in 0 .. Len(s) - 1, NEW buckets \in Buckets,
         \A b \in Homes : BucketInv(s, n, buckets[b], b)
  PROVE  LET index == Home(s, n + 1)
             bucket == buckets[index]
             first == IF bucket = <<>> /\ index > 0 /\ buckets[index - 1] # <<>>
                      THEN <<Last(buckets[index - 1])>> ELSE <<>>
             new == [buckets EXCEPT ![index] = first \o Append(bucket, Coord(s[n + 1], n))]
         IN  new \in Buckets /\ \A b \in Homes : BucketInv(s, n + 1, new[b], b)
<1> DEFINE index == Home(s, n + 1)
           bucket == buckets[index]
           p == Coord(s[n + 1], n)
           first == IF bucket = <<>> /\ index > 0 /\ buckets[index - 1] # <<>>
                    THEN <<Last(buckets[index - 1])>> ELSE <<>>
           grown == first \o Append(bucket, p)
           new == [buckets EXCEPT ![index] = grown]
<1>1. /\ n \in Nat /\ n \in 0 .. Len(s) /\ n + 1 \in 1 .. Len(s) /\ s[n + 1] \in Nat
      /\ \A i \in 1 .. n : i \in 1 .. Len(s) /\ i <= n + 1
  BY SampleSorted
<1>2. index \in Homes /\ \A i \in 1 .. Len(s) : Home(s, i) \in Homes
  BY <1>1, HomeFacts
<1>3. bucket \in Seq(Points) /\ BucketInv(s, n, bucket, index)
  BY <1>2 DEF Buckets
<1>4. p \in Points /\ p.x = s[n + 1] /\ p.y = n
  BY <1>1 DEF Points, Coord
<1>5. grown \in Seq(Points) /\ BucketInv(s, n + 1, grown, index)
  <2>1. CASE bucket # <<>>
    <3>1. Append(bucket, p) \in Seq(Points)
      BY <1>3, <1>4
    <3>2. grown = Append(bucket, p)
      BY <2>1, <3>1, ConcatEmptySeq
    <3>3. BucketInv(s, n + 1, Append(bucket, p), index)
      BY <1>3, <2>1, GrownBucket
    <3> HIDE DEF grown, p
    <3> QED BY <3>1, <3>2, <3>3
  <2>2. CASE bucket = <<>> /\ ~ (index > 0 /\ buckets[index - 1] # <<>>)
    <3>1. grown = <<p>>
      BY <1>4, <2>2, Prepended
    <3>2. <<p>> # <<>> /\ <<p>>[1] = p /\ Last(<<p>>) = p /\ <<p>> \in Seq(Points)
      BY <1>4, Prepended
    <3> HIDE DEF grown
    <3>3. SampledPoint(s, n + 1, p)
      <4> HIDE DEF p
      <4> QED BY <1>1, <1>4 DEF SampledPoint
    <3>4. \A i \in 1 .. n : Home(s, i) < index => i - 1 <= p.y
      <4> HIDE DEF p, index
      <4> QED BY <1>1, <1>4
    <3>5. BucketInv(s, n + 1, <<p>>, index)
      BY <1>3, <2>2, <3>2, <3>3, <3>4, FirstBucket
    <3> HIDE DEF p, index
    <3> QED BY <3>1, <3>2, <3>5
  <2>3. CASE bucket = <<>> /\ index > 0 /\ buckets[index - 1] # <<>>
    <3> DEFINE before == buckets[index - 1]
               q == Last(before)
    <3>1. index - 1 \in Homes /\ index \in Int
      <4> HIDE DEF index, first
      <4> QED BY <1>2, <2>3, LearnedModelsAssumption DEF Homes
    <3>2. BucketInv(s, n, before, index - 1) /\ before # <<>>
      BY <2>3, <3>1
    <3>3. SampledPoint(s, n, q) /\ Home(s, q.y + 1) = index - 1
      BY <3>2 DEF BucketInv
    <3>4. q \in Points /\ q.y \in Nat /\ q.y < n + 1 /\ q.x = s[q.y + 1]
      BY <1>1, <3>3, SampledKey
    <3>5. before[1].y <= q.y /\ before[1].y \in Nat
      <4>1. SampledPoint(s, n, before[1])
        BY <3>2 DEF BucketInv
      <4> QED BY <1>1, <3>2, <4>1, BucketRises, SampledKey
    <3>6. grown = <<q, p>>
      <4>1. first = <<q>>
        BY <2>3
      <4> HIDE DEF first, p, q
      <4>2. grown = <<q>> \o Append(<<>>, p)
        BY <2>3, <4>1
      <4> QED BY <1>4, <3>4, <4>2, Prepended
    <3>7. <<q, p>> # <<>> /\ <<q, p>>[1] = q /\ Last(<<q, p>>) = p /\ <<q, p>> \in Seq(Points)
      BY <1>4, <3>4, Prepended
    <3> HIDE DEF grown
    <3>8. SampledPoint(s, n + 1, q)
      BY <3>4 DEF SampledPoint
    <3>9. ASSUME NEW i \in 1 .. n, Home(s, i) < index PROVE i - 1 <= q.y
      <4>1. CASE Home(s, i) = index - 1
        BY <3>2, <4>1 DEF BucketInv
      <4>2. CASE Home(s, i) # index - 1
        <5>1. Home(s, i) \in Int
          BY <1>1, <1>2 DEF Homes
        <5>2. Home(s, i) < index - 1
          BY <3>1, <3>9, <4>2, <5>1
        <5>3. i - 1 <= before[1].y
          BY <3>2, <5>2 DEF BucketInv
        <5> HIDE DEF q, before
        <5> QED BY <1>1, <3>4, <3>5, <5>3
      <4> QED BY <4>1, <4>2
    <3>10. BucketInv(s, n + 1, <<q, p>>, index)
      BY <1>3, <2>3, <3>7, <3>8, <3>9, FirstBucket
    <3> HIDE DEF p, q, index
    <3> QED BY <3>6, <3>7, <3>10
  <2> QED BY <2>1, <2>2, <2>3
<1> HIDE DEF grown
<1>6. new \in Buckets
  BY <1>2, <1>5 DEF Buckets
<1>7. ASSUME NEW b \in Homes PROVE BucketInv(s, n + 1, new[b], b)
  <2>1. CASE b = index
    <3>1. new[b] = grown
      BY <1>2, <2>1 DEF Buckets
    <3> QED BY <1>5, <2>1, <3>1
  <2>2. CASE b # index
    <3>1. new[b] = buckets[b]
      BY <1>2, <2>2 DEF Buckets
    <3> QED BY <2>2, <3>1, OtherBucket
  <2> QED BY <2>1, <2>2
<1> QED BY <1>6, <1>7 DEF grown

LEMMA PlaceKeyKeeps ==
  ASSUME keysToLearn \in Samples, SplineInv, RmiInv, PlaceKey
  PROVE  /\ SplineInv' /\ RmiInv' /\ keysToLearn' = keysToLearn
         /\ modelPc' \in {"place", "train"}
<1> DEFINE s == keysToLearn
           n == placed
<1>1. /\ modelPc = "place" /\ placed' = n + 1 /\ keysToLearn' = s
      /\ modelPc' = IF placed' = num_keys THEN "train" ELSE "place"
      /\ UNCHANGED splineVars /\ second_level_models' = second_level_models
  BY DEF PlaceKey
<1>2. /\ n \in 0 .. num_keys /\ n < num_keys /\ second_level_models = <<>>
      /\ training_buckets \in Buckets /\ second_level_models \in Seq(Lines)
      /\ Len(second_level_models) <= SecondLevelModelCount
  BY <1>1 DEF RmiInv
<1>3. num_keys = Len(s) /\ num_keys' = num_keys /\ Len(s) \in Nat
  BY <1>1, SampleSorted DEF num_keys
<1>4. n \in 0 .. Len(s) - 1 /\ n + 1 \in 0 .. num_keys
  BY <1>2, <1>3
<1>5. Len(second_level_models) = 0 /\ SecondLevelModelCount \in Nat \ {0}
  BY <1>2, LearnedModelsAssumption
<1>6. \A b \in Homes : BucketInv(s, n, training_buckets[b], b)
  <2>1. ASSUME NEW b \in Homes PROVE ~ (b < Len(second_level_models))
    BY <1>5 DEF Homes
  <2> QED BY <2>1 DEF RmiInv
<1>7. /\ training_buckets' \in Buckets
      /\ \A b \in Homes : BucketInv(s, n + 1, training_buckets'[b], b)
  <2> DEFINE index == Home(s, n + 1)
             bucket == training_buckets[index]
             first == IF bucket = <<>> /\ index > 0 /\ training_buckets[index - 1] # <<>>
                      THEN <<Last(training_buckets[index - 1])>> ELSE <<>>
             new == [training_buckets EXCEPT ![index] = first \o Append(bucket, Coord(s[n + 1], n))]
  <2>1. training_buckets' = new
    <3>1. RootModel(keysToLearn[placed + 1]) = index
      BY RootIsHome
    <3> HIDE DEF index
    <3> QED BY <3>1 DEF PlaceKey
  <2>2. new \in Buckets /\ \A b \in Homes : BucketInv(s, n + 1, new[b], b)
    BY <1>2, <1>4, <1>6, PlaceKeyBuckets
  <2> HIDE DEF new
  <2> QED BY <2>1, <2>2
<1>8. modelPc' \in {"place", "train"} /\ (modelPc' = "place" => placed' < num_keys')
      /\ (modelPc' = "train" => placed' = num_keys')
  BY <1>1, <1>3, <1>4
<1>9. RmiInv'
  <2>1. ASSUME NEW b \in Homes PROVE ~ (b < Len(second_level_models'))
    BY <1>1, <1>5 DEF Homes
  <2>2. \A b \in Homes : BucketInv(keysToLearn', placed', training_buckets'[b], b)
    BY <1>1, <1>7
  <2>3. placed' \in 0 .. num_keys'
    BY <1>1, <1>3, <1>4
  <2>4. Len(second_level_models') = 0 /\ 0 < SecondLevelModelCount /\ 0 <= SecondLevelModelCount
    BY <1>1, <1>5
  <2> QED BY <1>1, <1>2, <1>7, <1>8, <2>1, <2>2, <2>3, <2>4 DEF RmiInv
<1>10. SplineInv'
  <2>1. radix_table' = radix_table
    BY <1>1 DEF splineVars
  <2>2. radix_table \in Table(s)
    BY DEF SplineInv
  <2> QED BY <1>1, <1>8, <2>1, <2>2 DEF SplineInv
<1> QED BY <1>1, <1>8, <1>9, <1>10
-----------------------------------------------------------------------------
(* TrainSecondLevel.                                                             *)

\* A key at or behind a sampled point's position is not smaller.
LEMMA KeyOrder ==
  ASSUME NEW s \in Samples, NEW p, SampledPoint(s, Len(s), p), NEW i \in 1 .. Len(s), p.y <= i - 1
  PROVE  p.x <= s[i]
<1>1. p.y \in Nat /\ p.y + 1 \in 1 .. Len(s) /\ p.x = s[p.y + 1]
  BY SampleSorted, SampledKey
<1>2. p.y + 1 <= i
  BY <1>1
<1> QED BY <1>1, <1>2, SampleSorted

\* The bucket before a trained one's is behind all keys up to it.
LEMMA EmptyBucket ==
  ASSUME NEW s \in Samples, NEW b \in Homes, b > 0, BucketInv(s, Len(s), <<>>, b),
         NEW before, NEW fitted, TrainedInv(s, before, fitted, b - 1),
         NEW filled, filled # <<>>, Last(filled) = fitted.max
  PROVE  TrainedInv(s, filled, [min |-> fitted.max, max |-> fitted.max], b)
<1> DEFINE q == fitted.max
           new == [min |-> q, max |-> q]
<1>1. /\ SampledPoint(s, Len(s), q) /\ Home(s, q.y + 1) <= b - 1
      /\ \A i \in 1 .. Len(s) : Home(s, i) <= b - 1 => i - 1 <= q.y
  BY DEF TrainedInv
<1>2. /\ q \in Points /\ q.x \in Nat /\ q.y \in Nat /\ q.y + 1 \in 1 .. Len(s)
  BY <1>1, SampleSorted, SampledKey
<1>3. b \in Int /\ \A i \in 1 .. Len(s) : Home(s, i) \in Int
  BY HomeFacts, LearnedModelsAssumption DEF Homes
<1>4. Home(s, q.y + 1) <= b
  BY <1>1, <1>2, <1>3
<1> HIDE DEF q
<1>5. Rises(new) /\ new.min = q /\ new.max = q
  BY <1>2 DEF Rises, Lines
<1> HIDE DEF new
<1>6. ASSUME NEW i \in 1 .. Len(s)
      PROVE  /\ Home(s, i) = b => new.min.x <= s[i]
             /\ Home(s, i) < b => i - 1 <= new.min.y
             /\ Home(s, i) <= b => i - 1 <= new.max.y
  <2>1. Home(s, i) # b
    BY DEF BucketInv
  <2>2. Home(s, i) <= b => Home(s, i) <= b - 1 /\ Home(s, i) < b
    BY <1>3, <2>1
  <2>3. Home(s, i) < b => Home(s, i) <= b
    BY <1>3
  <2> QED BY <1>1, <1>5, <2>1, <2>2, <2>3
<1>7. TrainedInv(s, filled, new, b)
  BY <1>1, <1>4, <1>5, <1>6 DEF TrainedInv, q
<1> QED BY <1>7 DEF new, q

\* A single point is joined to the end of the bucket before it, the first
\* bucket's to zero.
LEMMA SingleBucket ==
  ASSUME NEW s \in Samples, NEW b \in Homes, NEW bucket, bucket # <<>>,
         BucketInv(s, Len(s), bucket, b),
         NEW q \in Points, q.x <= Last(bucket).x, q.y <= Last(bucket).y,
         \A i \in 1 .. Len(s) : /\ Home(s, i) = b => q.x <= s[i]
                                /\ Home(s, i) < b => i - 1 <= q.y,
         NEW filled, filled # <<>>, Last(filled) = Last(bucket)
  PROVE  TrainedInv(s, filled, [min |-> q, max |-> Last(bucket)], b)
<1> DEFINE p == Last(bucket)
           new == [min |-> q, max |-> p]
<1>1. /\ SampledPoint(s, Len(s), p) /\ Home(s, p.y + 1) = b
      /\ \A i \in 1 .. Len(s) : Home(s, i) = b => i - 1 <= p.y
  BY DEF BucketInv
<1>2. p \in Points /\ p.x \in Nat /\ p.y \in Nat /\ q.y \in Nat
  <2>1. Len(s) \in 0 .. Len(s)
    BY SampleSorted
  <2> QED BY <1>1, <2>1, SampledKey DEF Points
<1>3. b \in Int /\ \A i \in 1 .. Len(s) : Home(s, i) \in Int /\ i - 1 \in Int
  BY HomeFacts, LearnedModelsAssumption DEF Homes
<1>4. q.x <= p.x /\ q.y <= p.y
  OBVIOUS
<1>5. filled # <<>> /\ Last(filled) = p
  OBVIOUS
<1> HIDE DEF p
<1>6. Rises(new) /\ new.min = q /\ new.max = p
  BY <1>2, <1>4 DEF Rises, Lines
<1> HIDE DEF new
<1>7. ASSUME NEW i \in 1 .. Len(s)
      PROVE  /\ Home(s, i) = b => new.min.x <= s[i]
             /\ Home(s, i) < b => i - 1 <= new.min.y
             /\ Home(s, i) <= b => i - 1 <= new.max.y
  <2>1. Home(s, i) < b => i - 1 <= p.y
    BY <1>2, <1>3, <1>4
  <2>2. Home(s, i) <= b => Home(s, i) < b \/ Home(s, i) = b
    BY <1>3
  <2> QED BY <1>1, <1>6, <2>1, <2>2
<1>8. Home(s, p.y + 1) <= b
  BY <1>1, <1>3
<1>9. TrainedInv(s, filled, new, b)
  BY <1>1, <1>5, <1>6, <1>7, <1>8 DEF TrainedInv
<1> QED BY <1>9 DEF new, p

\* A bucket of more points is joined at its own ends.
LEMMA FullBucket ==
  ASSUME NEW s \in Samples, NEW b \in Homes, NEW bucket, bucket # <<>>,
         BucketInv(s, Len(s), bucket, b)
  PROVE  TrainedInv(s, bucket, [min |-> bucket[1], max |-> Last(bucket)], b)
<1> DEFINE q == bucket[1]
           p == Last(bucket)
<1>1. /\ SampledPoint(s, Len(s), q) /\ SampledPoint(s, Len(s), p) /\ Home(s, p.y + 1) = b
      /\ \A i \in 1 .. Len(s) : /\ Home(s, i) = b => q.y <= i - 1
                                /\ Home(s, i) < b => i - 1 <= q.y
  BY DEF BucketInv
<1>2. Len(s) \in 0 .. Len(s)
  BY SampleSorted
<1>3. /\ q \in Points /\ q.y \in Nat /\ q.x \in Nat
      /\ p.y \in Nat /\ p.y + 1 \in 1 .. Len(s) /\ p.x = s[p.y + 1]
  BY <1>1, <1>2, SampledKey
<1>4. q.y <= p.y
  BY <1>2, BucketRises
<1>5. \A i \in 1 .. Len(s) : Home(s, i) = b => q.x <= s[i]
  BY <1>1, KeyOrder
<1>6. q.x <= p.x
  BY <1>1, <1>3, <1>5
<1> HIDE DEF q, p
<1>7. TrainedInv(s, bucket, [min |-> q, max |-> p], b)
  BY <1>1, <1>3, <1>4, <1>5, <1>6, SingleBucket DEF p
<1> QED BY <1>7 DEF p, q

\* No key is in a bucket before the first one, which is not empty.
LEMMA FirstHome ==
  ASSUME NEW s \in Samples
  PROVE  /\ 0 \in Homes /\ \A i \in 1 .. Len(s) : ~ (Home(s, i) < 0)
         /\ ~ BucketInv(s, Len(s), <<>>, 0)
<1>1. 1 \in 1 .. Len(s) /\ Home(s, 1) = 0
  BY SampleSorted, HomeFacts
<1>2. \A i \in 1 .. Len(s) : ~ (Home(s, i) < 0)
  BY HomeFacts DEF Homes
<1>3. 0 \in Homes
  BY LearnedModelsAssumption DEF Homes
<1>4. ~ BucketInv(s, Len(s), <<>>, 0)
  BY <1>1 DEF BucketInv
<1> QED BY <1>2, <1>3, <1>4
LEMMA TrainedBucket ==
  ASSUME NEW s \in Samples, NEW buckets \in Buckets, NEW models, NEW b \in Homes,
         BucketInv(s, Len(s), buckets[b], b),
         b > 0 => TrainedInv(s, buckets[b - 1], models[b], b - 1)
  PROVE  LET bucket == buckets[b]
             more == IF b = 0 THEN NoCoord ELSE Last(buckets[b - 1])
             filled == CASE Len(bucket) = 0 -> <<more, more>>
                         [] Len(bucket) = 1 -> <<more>> \o bucket
                         [] OTHER -> bucket
         IN  /\ filled \in Seq(Points)
             /\ [min |-> filled[1], max |-> Last(filled)] \in Lines
             /\ TrainedInv(s, filled, [min |-> filled[1], max |-> Last(filled)], b)
<1> DEFINE bucket == buckets[b]
           more == IF b = 0 THEN NoCoord ELSE Last(buckets[b - 1])
           filled == CASE Len(bucket) = 0 -> <<more, more>>
                       [] Len(bucket) = 1 -> <<more>> \o bucket
                       [] OTHER -> bucket
           fitted == [min |-> filled[1], max |-> Last(filled)]
<1>1. /\ bucket \in Seq(Points) /\ Len(bucket) \in Nat /\ b \in Nat
      /\ BucketInv(s, Len(s), bucket, b) /\ Len(s) \in 0 .. Len(s)
  BY SampleSorted, LearnedModelsAssumption DEF Buckets, Homes
<1>2. \A i \in 1 .. Len(s) : Home(s, i) \in Int /\ i - 1 \in Int
  BY HomeFacts DEF Homes
<1>3. ASSUME b > 0
      PROVE  /\ more = models[b].max /\ more \in Points
             /\ SampledPoint(s, Len(s), more) /\ Home(s, more.y + 1) < b
             /\ more.y + 1 \in 1 .. Len(s) /\ more.y \in Nat /\ more.x = s[more.y + 1]
             /\ \A i \in 1 .. Len(s) : Home(s, i) < b => i - 1 <= more.y
  <2>1. TrainedInv(s, buckets[b - 1], models[b], b - 1) /\ more = Last(buckets[b - 1])
    BY <1>1, <1>3
  <2> HIDE DEF more
  <2>2. /\ more = models[b].max /\ SampledPoint(s, Len(s), more) /\ Home(s, more.y + 1) <= b - 1
        /\ \A i \in 1 .. Len(s) : Home(s, i) <= b - 1 => i - 1 <= more.y
    BY <2>1 DEF TrainedInv
  <2>3. /\ more \in Points /\ more.y + 1 \in 1 .. Len(s) /\ more.y \in Nat
        /\ more.x = s[more.y + 1]
    BY <1>1, <2>2, SampledKey
  <2> QED BY <1>1, <1>2, <2>2, <2>3
<1> SUFFICES filled \in Seq(Points) /\ fitted \in Lines /\ TrainedInv(s, filled, fitted, b)
  OBVIOUS
<1> HIDE DEF more
<1>4. CASE Len(bucket) = 0
  <2>1. bucket = <<>>
    BY <1>1, <1>4, EmptySeq
  <2>2. b > 0
    BY <1>1, <2>1, FirstHome
  <2>3. filled = <<more, more>>
    BY <1>4
  <2>4. <<more, more>> \in Seq(Points) /\ <<more, more>> # <<>>
        /\ <<more, more>>[1] = more /\ Last(<<more, more>>) = more
    BY <1>3, <2>2, Prepended
  <2>5. TrainedInv(s, <<more, more>>, [min |-> more, max |-> more], b)
    <3>1. TrainedInv(s, buckets[b - 1], models[b], b - 1) /\ more = models[b].max
      BY <1>3, <2>2
    <3>2. BucketInv(s, Len(s), <<>>, b)
      BY <1>1, <2>1
    <3> HIDE DEF bucket
    <3> QED BY <2>2, <2>4, <3>1, <3>2, EmptyBucket
  <2> HIDE DEF filled
  <2> QED BY <1>3, <2>2, <2>3, <2>4, <2>5 DEF Lines
<1>5. CASE Len(bucket) = 1
  <2> DEFINE p == Last(bucket)
  <2>1. bucket # <<>> /\ bucket = <<p>> /\ bucket[1] = p
    <3> HIDE DEF bucket
    <3>1. bucket[1] = p
      BY <1>5 DEF Last
    <3>2. bucket = <<bucket[1]>>
      BY <1>1, <1>5
    <3>3. bucket # <<>>
      BY <1>5
    <3> QED BY <3>1, <3>2, <3>3
  <2>2. /\ SampledPoint(s, Len(s), p) /\ Home(s, p.y + 1) = b
        /\ \A i \in 1 .. Len(s) : /\ Home(s, i) = b => p.y <= i - 1
                                  /\ Home(s, i) < b => i - 1 <= p.y
    BY <1>1, <2>1 DEF BucketInv
  <2>3. p \in Points /\ p.x \in Nat /\ p.y \in Nat /\ p.y + 1 \in 1 .. Len(s)
    BY <1>1, <2>2, SampledKey
  <2> HIDE DEF p
  <2>4. /\ more \in Points /\ more.x <= p.x /\ more.y <= p.y
        /\ \A i \in 1 .. Len(s) : /\ Home(s, i) = b => more.x <= s[i]
                                  /\ Home(s, i) < b => i - 1 <= more.y
    <3>1. CASE b = 0
      <4>1. more \in Points /\ more.x = 0 /\ more.y = 0
        BY <3>1 DEF more, NoCoord, Coord, Points
      <4>2. \A i \in 1 .. Len(s) : s[i] \in Nat /\ ~ (Home(s, i) < b)
        BY <3>1, SampleSorted, FirstHome
      <4>3. \A i \in 1 .. Len(s) : more.x <= s[i]
        BY <4>1, <4>2
      <4> QED BY <2>3, <4>1, <4>2, <4>3
    <3>2. CASE b > 0
      <4>1. (more.y + 1) - 1 <= p.y /\ (more.y + 1) - 1 = more.y
        BY <1>3, <2>2, <3>2
      <4>2. more.x <= p.x
        <5>1. more.y <= (p.y + 1) - 1 /\ p.x = s[p.y + 1]
          BY <2>2, <2>3, <4>1 DEF SampledPoint
        <5> QED BY <1>3, <2>3, <3>2, <5>1, KeyOrder
      <4>3. ASSUME NEW i \in 1 .. Len(s), Home(s, i) = b PROVE more.x <= s[i]
        <5>1. p.y <= i - 1
          BY <2>2, <4>3
        <5>2. more.y <= i - 1
          BY <1>2, <1>3, <2>3, <3>2, <4>1, <5>1
        <5> QED BY <1>3, <3>2, <5>2, KeyOrder
      <4> QED BY <1>3, <3>2, <4>1, <4>2, <4>3
    <3> QED BY <1>1, <3>1, <3>2
  <2>5. filled = <<more, p>>
    <3>1. filled = <<more>> \o bucket
      BY <1>5
    <3>2. <<more>> \o Append(<<>>, p) = <<more, p>> /\ Append(<<>>, p) = <<p>>
      BY <2>3, <2>4, Prepended
    <3> HIDE DEF filled, bucket
    <3> QED BY <2>1, <3>1, <3>2
  <2>6. <<more, p>> \in Seq(Points) /\ <<more, p>> # <<>>
        /\ <<more, p>>[1] = more /\ Last(<<more, p>>) = p
    BY <2>3, <2>4, Prepended
  <2>7. TrainedInv(s, <<more, p>>, [min |-> more, max |-> p], b)
    <3> HIDE DEF bucket
    <3> QED BY <1>1, <2>1, <2>4, <2>6, SingleBucket DEF p
  <2> HIDE DEF filled
  <2> QED BY <2>3, <2>4, <2>5, <2>6, <2>7 DEF Lines
<1>6. CASE ~ (Len(bucket) = 0) /\ ~ (Len(bucket) = 1)
  <2>1. filled = bucket
    BY <1>6
  <2>2. bucket # <<>>
    BY <1>6
  <2>3. TrainedInv(s, bucket, [min |-> bucket[1], max |-> Last(bucket)], b)
    BY <1>1, <2>2, FullBucket
  <2>4. [min |-> bucket[1], max |-> Last(bucket)] \in Lines
    BY <2>3 DEF TrainedInv, Rises
  <2> HIDE DEF filled, bucket
  <2> QED BY <1>1, <2>1, <2>3, <2>4
<1> QED BY <1>4, <1>5, <1>6

LEMMA TrainSecondLevelKeeps ==
  ASSUME keysToLearn \in Samples, SplineInv, RmiInv, TrainSecondLevel
  PROVE  /\ SplineInv' /\ RmiInv' /\ keysToLearn' = keysToLearn
         /\ modelPc' \in {"train", "done"}
<1> DEFINE s == keysToLearn
           models == second_level_models
           m == Len(models)
           bucket == training_buckets[m]
           more == IF m = 0 THEN NoCoord ELSE Last(training_buckets[m - 1])
           filled == CASE Len(bucket) = 0 -> <<more, more>>
                       [] Len(bucket) = 1 -> <<more>> \o bucket
                       [] OTHER -> bucket
           fitted == [min |-> filled[1], max |-> Last(filled)]
<1>1. /\ modelPc = "train" /\ keysToLearn' = s /\ placed' = placed
      /\ training_buckets' = [training_buckets EXCEPT ![m] = filled]
      /\ second_level_models' = Append(models, fitted)
      /\ modelPc' = IF Len(second_level_models') = SecondLevelModelCount THEN "done" ELSE "train"
      /\ UNCHANGED splineVars
  BY DEF TrainSecondLevel
<1>2. /\ placed = num_keys /\ m < SecondLevelModelCount /\ models \in Seq(Lines)
      /\ training_buckets \in Buckets
  BY <1>1 DEF RmiInv
<1>3. num_keys = Len(s) /\ num_keys' = num_keys /\ Len(s) \in Nat
  BY <1>1, SampleSorted DEF num_keys
<1>4. m \in Nat /\ m \in Homes /\ SecondLevelModelCount \in Nat \ {0}
  BY <1>2, LearnedModelsAssumption DEF Homes
<1>5. ASSUME NEW b \in Homes
      PROVE  /\ b < m => TrainedInv(s, training_buckets[b], models[b + 1], b)
             /\ ~ (b < m) => BucketInv(s, Len(s), training_buckets[b], b)
  BY <1>2, <1>3 DEF RmiInv
<1>6. filled \in Seq(Points) /\ fitted \in Lines /\ TrainedInv(s, filled, fitted, m)
  <2>1. BucketInv(s, Len(s), training_buckets[m], m)
    BY <1>4, <1>5
  <2>2. m > 0 => TrainedInv(s, training_buckets[m - 1], models[m], m - 1)
    <3>1. m > 0 => m - 1 \in Homes /\ m - 1 < m /\ (m - 1) + 1 = m
      BY <1>4 DEF Homes
    <3> QED BY <1>5, <3>1
  <2> QED BY <1>2, <1>4, <2>1, <2>2, TrainedBucket
<1> HIDE DEF filled, fitted
<1>7. /\ second_level_models' \in Seq(Lines) /\ Len(second_level_models') = m + 1
      /\ \A i \in 1 .. m : second_level_models'[i] = models[i]
      /\ second_level_models'[m + 1] = fitted
  BY <1>1, <1>2, <1>4, <1>6
<1>8. /\ training_buckets' \in Buckets /\ training_buckets'[m] = filled
      /\ \A b \in Homes : b # m => training_buckets'[b] = training_buckets[b]
  BY <1>1, <1>2, <1>4, <1>6 DEF Buckets
<1>9. ASSUME NEW b \in Homes
      PROVE  IF b < m + 1 THEN TrainedInv(s, training_buckets'[b], second_level_models'[b + 1], b)
             ELSE BucketInv(s, Len(s), training_buckets'[b], b)
  <2>1. b \in Nat
    BY <1>4 DEF Homes
  <2> HIDE DEF m
  <2>2. CASE b < m
    <3>1. b + 1 \in 1 .. m /\ b # m /\ b < m + 1
      BY <1>4, <2>1, <2>2
    <3> QED BY <1>5, <1>7, <1>8, <2>2, <3>1
  <2>3. CASE b = m
    <3>1. b < m + 1
      BY <1>4, <2>3
    <3> QED BY <1>6, <1>7, <1>8, <2>3, <3>1
  <2>4. CASE b > m
    <3>1. b # m /\ ~ (b < m + 1) /\ ~ (b < m)
      BY <1>4, <2>1, <2>4
    <3> QED BY <1>5, <1>8, <3>1
  <2> QED BY <1>4, <2>1, <2>2, <2>3, <2>4
<1>10. /\ modelPc' \in {"train", "done"} /\ m + 1 <= SecondLevelModelCount
       /\ (modelPc' = "train" => m + 1 < SecondLevelModelCount)
       /\ (modelPc' = "done" => m + 1 = SecondLevelModelCount)
       /\ second_level_models' # <<>>
  <2> HIDE DEF m
  <2>1. m + 1 <= SecondLevelModelCount
    BY <1>2, <1>4
  <2>2. /\ (modelPc' = "train" => m + 1 < SecondLevelModelCount)
        /\ (modelPc' = "done" => m + 1 = SecondLevelModelCount)
        /\ modelPc' \in {"train", "done"}
    BY <1>1, <1>4, <1>7, <2>1
  <2>3. second_level_models' # <<>>
    BY <1>4, <1>7
  <2> QED BY <2>1, <2>2, <2>3
<1>11. RmiInv'
  <2> HIDE DEF m
  <2>1. /\ placed' \in 0 .. num_keys' /\ placed' = num_keys'
    BY <1>1, <1>2, <1>3
  <2>2. \A b \in Homes :
          IF b < Len(second_level_models')
          THEN TrainedInv(keysToLearn', training_buckets'[b], second_level_models'[b + 1], b)
          ELSE BucketInv(keysToLearn', placed', training_buckets'[b], b)
    BY <1>1, <1>2, <1>3, <1>7, <1>9
  <2> QED BY <1>7, <1>8, <1>10, <2>1, <2>2 DEF RmiInv
<1>12. SplineInv'
  <2>1. radix_table' = radix_table
    BY <1>1 DEF splineVars
  <2>2. radix_table \in Table(s)
    BY DEF SplineInv
  <2> QED BY <1>1, <1>10, <2>1, <2>2 DEF SplineInv
<1> QED BY <1>1, <1>10, <1>11, <1>12
-----------------------------------------------------------------------------
(* The trained RMI keeps the order.                                        *)

\* All models are trained.
ModelsTrained ==
  /\ keysToLearn \in Samples
  /\ \A b \in Homes :
       TrainedInv(keysToLearn, training_buckets[b], second_level_models[b + 1], b)

LEMMA HashIs ==
  ASSUME ModelsTrained, NEW i \in 1 .. num_keys
  PROVE  LET b == Home(keysToLearn, i)
             line == second_level_models[b + 1]
         IN  /\ RMIHash(keysToLearn[i]) = LinearModel(line, num_keys, keysToLearn[i], FullSize)
             /\ b \in Homes /\ Rises(line) /\ keysToLearn[i] \in Nat
             /\ line.min.x <= keysToLearn[i] /\ keysToLearn[i] <= line.max.x
<1> DEFINE s == keysToLearn
           b == Home(s, i)
           line == second_level_models[b + 1]
<1>1. s \in Samples /\ num_keys = Len(s) /\ Len(s) \in 0 .. Len(s) /\ s[i] \in Nat
  BY SampleSorted DEF ModelsTrained, num_keys
<1>2. RMIHash(s[i]) = LinearModel(line, num_keys, s[i], FullSize)
  BY RootIsHome DEF RMIHash
<1>3. b \in Homes /\ b <= b
  BY <1>1, HomeFacts, LearnedModelsAssumption DEF Homes
<1>4. TrainedInv(s, training_buckets[b], line, b)
  BY <1>3 DEF ModelsTrained
<1> HIDE DEF line
<1>5. Rises(line) /\ SampledPoint(s, Len(s), line.max) /\ line.min.x <= s[i] /\ i - 1 <= line.max.y
  BY <1>1, <1>3, <1>4 DEF TrainedInv
<1>6. s[i] <= line.max.x
  <2>1. /\ line.max.y + 1 \in 1 .. Len(s) /\ line.max.y \in Nat /\ line.max.x = s[line.max.y + 1]
    BY <1>1, <1>5, SampledKey
  <2>2. i <= line.max.y + 1
    BY <1>1, <1>5, <2>1
  <2> QED BY <1>1, <2>1, <2>2, SampleSorted
<1> QED BY <1>1, <1>2, <1>3, <1>5, <1>6 DEF line

LEMMA HashOrder ==
  ASSUME ModelsTrained, NEW i \in 1 .. num_keys, NEW j \in 1 .. num_keys,
         keysToLearn[i] < keysToLearn[j]
  PROVE  RMIHash(keysToLearn[i]) <= RMIHash(keysToLearn[j])
<1> DEFINE s == keysToLearn
           k == s[i]
           l == s[j]
           b == Home(s, i)
           c == Home(s, j)
           one == second_level_models[b + 1]
           two == second_level_models[c + 1]
<1>1. /\ s \in Samples /\ num_keys = Len(s) /\ num_keys \in Nat \ {0}
      /\ Len(s) \in 0 .. Len(s) /\ FullSize \in Nat
  BY SampleSorted, LearnedModelsAssumption DEF ModelsTrained, num_keys
<1>2. /\ RMIHash(k) = LinearModel(one, num_keys, k, FullSize)
      /\ b \in Homes /\ Rises(one) /\ k \in Nat /\ one.min.x <= k /\ k <= one.max.x
  BY HashIs
<1>3. /\ RMIHash(l) = LinearModel(two, num_keys, l, FullSize)
      /\ c \in Homes /\ Rises(two) /\ l \in Nat /\ two.min.x <= l /\ l <= two.max.x
  BY HashIs
<1>4. i <= j
  <2>1. SUFFICES ASSUME j <= i PROVE FALSE
    BY <1>1
  <2>2. l <= k
    BY <1>1, <2>1, SampleSorted
  <2> HIDE DEF k, l
  <2>3. k < l
    BY DEF k, l
  <2> QED BY <1>2, <1>3, <2>2, <2>3
<1>5. b <= c /\ b \in Int /\ c \in Int
  BY <1>1, <1>2, <1>3, <1>4, HomeFacts, LearnedModelsAssumption DEF Homes
<1>6. k <= l
  BY <1>2, <1>3
<1>7. CASE b = c
  <2> HIDE DEF k, l
  <2>1. one = two
    BY <1>7
  <2> HIDE DEF one, two
  <2>2. LinearModel(one, num_keys, k, FullSize) <= LinearModel(one, num_keys, l, FullSize)
    BY <1>1, <1>2, <1>3, <1>6, LinearRises
  <2> QED BY <1>2, <1>3, <2>1, <2>2 DEF k, l
<1>8. CASE b < c
  <2>1. one.max.y <= two.min.y
    <3>1. /\ TrainedInv(s, training_buckets[b], one, b)
          /\ TrainedInv(s, training_buckets[c], two, c)
      BY <1>2, <1>3 DEF ModelsTrained
    <3> HIDE DEF one, two
    <3>2. SampledPoint(s, Len(s), one.max) /\ Home(s, one.max.y + 1) <= b
      BY <3>1 DEF TrainedInv
    <3>3. one.max.y + 1 \in 1 .. Len(s) /\ one.max.y \in Nat
      BY <1>1, <3>2, SampledKey
    <3>4. Home(s, one.max.y + 1) < c
      <4>1. Home(s, one.max.y + 1) \in Int
        BY <1>1, <3>3, HomeFacts DEF Homes
      <4> HIDE DEF b, c
      <4> QED BY <1>5, <1>8, <3>2, <4>1
    <3>5. (one.max.y + 1) - 1 <= two.min.y
      BY <3>1, <3>3, <3>4 DEF TrainedInv
    <3> QED BY <3>3, <3>5
  <2> HIDE DEF one, two, k, l
  <2> DEFINE from == (FullSize + 1) * one.max.y
             to == (FullSize + 1) * two.min.y
  <2>2. LinearModel(one, num_keys, k, FullSize) <= Clamped(from, num_keys, FullSize)
    BY <1>1, <1>2, LinearBetween
  <2>3. Clamped(to, num_keys, FullSize) <= LinearModel(two, num_keys, l, FullSize)
    BY <1>1, <1>3, LinearBetween
  <2>4. from \in Int /\ to \in Int /\ from * num_keys <= to * num_keys
    <3>1. one.max.y \in Nat /\ two.min.y \in Nat
      BY <1>2, <1>3 DEF Rises, Lines, Points
    <3>2. from \in Nat /\ to \in Nat /\ from <= to
      <4>1. FullSize + 1 \in Nat
        BY <1>1
      <4> QED BY <2>1, <3>1, <4>1, TimesOrder
    <3> HIDE DEF from, to
    <3> QED BY <1>1, <3>2
  <2> HIDE DEF from, to
  <2>5. Clamped(from, num_keys, FullSize) <= Clamped(to, num_keys, FullSize)
    BY <1>1, <2>4, ClampedMonotone
  <2>6. /\ Clamped(from, num_keys, FullSize) \in 0 .. FullSize
        /\ Clamped(to, num_keys, FullSize) \in 0 .. FullSize
    BY <1>1, <2>4, ClampedRange
  <2>7. /\ LinearModel(one, num_keys, k, FullSize) \in 0 .. FullSize
        /\ LinearModel(two, num_keys, l, FullSize) \in 0 .. FullSize
    BY <1>1, <1>2, <1>3, LinearRange
  <2>8. RMIHash(k) <= RMIHash(l)
    BY <1>2, <1>3, <2>2, <2>3, <2>5, <2>6, <2>7
  <2> QED BY <2>8 DEF k, l
<1> QED BY <1>5, <1>7, <1>8

LEMMA OrderKept ==
  ASSUME ModelsTrained
  PROVE  RmiKeepsOrder
<1>1. num_keys \in Nat \ {0} /\ FullSize \in Nat
  BY SampleSorted, LearnedModelsAssumption DEF ModelsTrained, num_keys
<1>2. ASSUME NEW i \in 1 .. num_keys PROVE RMIHash(keysToLearn[i]) \in 0 .. FullSize
  BY <1>1, HashIs, LinearRange
<1> QED BY <1>2, HashOrder DEF RmiKeepsOrder

-----------------------------------------------------------------------------
(* The specification.                                                      *)

\* Both models, while they are built and afterwards.
ModelInv ==
  /\ keysToLearn \in Samples
  /\ modelPc \in {"add", "finalize", "place", "train", "done"}
  /\ SplineInv /\ RmiInv

LEMMA InitHolds == ModelInit => ModelInv
<1> SUFFICES ASSUME ModelInit PROVE ModelInv
  OBVIOUS
<1> DEFINE s == keysToLearn
<1>1. /\ modelPc \in {"add", "place"} /\ s \in Samples /\ NoSpline
      /\ radix_table = [prefix \in 0 .. Prefix(max_key) + 1 |-> 0]
      /\ placed = 0 /\ second_level_models = <<>>
      /\ training_buckets = [b \in 0 .. SecondLevelModelCount - 1 |-> <<>>]
  BY DEF ModelInit
<1>2. num_keys = Len(s) /\ Len(s) \in Nat /\ Len(s) > 1
  BY <1>1, SampleSorted DEF num_keys
<1>3. radix_table = [q \in 0 .. PrefixOf(s, Last(s)) + 1 |-> 0]
  BY <1>1, PrefixIs DEF max_key
<1>4. SplineInv
  <2>1. radix_table \in Table(s)
    BY <1>3 DEF Table
  <2>2. \A q \in DOMAIN radix_table : radix_table[q] = 0
    BY <1>3
  <2>3. curr_num_keys = 0
    BY <1>1 DEF NoSpline
  <2>4. curr_num_keys \in 0 .. num_keys /\ curr_num_keys < num_keys /\ ~ (curr_num_keys > 0)
    BY <1>2, <2>3
  <2> QED BY <1>1, <2>1, <2>2, <2>3, <2>4 DEF SplineInv
<1>5. RmiInv
  <2>1. training_buckets \in Buckets
    BY <1>1 DEF Buckets, Homes
  <2>2. ASSUME NEW b \in Homes PROVE ~ (b < 0) /\ BucketInv(s, 0, training_buckets[b], b)
    <3>1. training_buckets[b] = <<>>
      BY <1>1 DEF Homes
    <3>2. ~ (b < 0)
      BY DEF Homes
    <3> QED BY <3>1, <3>2 DEF BucketInv
  <2>3. Len(second_level_models) = 0 /\ second_level_models \in Seq(Lines)
    BY <1>1
  <2>4. 0 <= SecondLevelModelCount /\ 0 \in 0 .. num_keys /\ 0 < num_keys
    BY <1>2, LearnedModelsAssumption
  <2> QED BY <1>1, <2>1, <2>2, <2>3, <2>4 DEF RmiInv
<1> QED BY <1>1, <1>4, <1>5 DEF ModelInv

\* The RMI stays as it is while the spline is built.
LEMMA RmiStays ==
  ASSUME RmiInv, UNCHANGED <<keysToLearn, rmiVars>>,
         modelPc \in {"add", "finalize"}, modelPc' \in {"add", "finalize", "done"}
  PROVE  RmiInv'
<1>1. /\ placed' = placed /\ training_buckets' = training_buckets
      /\ second_level_models' = second_level_models /\ keysToLearn' = keysToLearn
      /\ num_keys' = num_keys
  BY DEF rmiVars, num_keys
<1>2. second_level_models = <<>>
  BY DEF RmiInv
<1> QED BY <1>1, <1>2 DEF RmiInv

LEMMA StepHolds == ModelInv /\ [ModelNext]_modelVars => ModelInv'
<1> SUFFICES ASSUME ModelInv, [ModelNext]_modelVars PROVE ModelInv'
  OBVIOUS
<1>1. keysToLearn \in Samples /\ SplineInv /\ RmiInv
  BY DEF ModelInv
<1>2. CASE AddKey
  <2>1. SplineInv' /\ modelPc' \in {"add", "finalize"}
    BY <1>1, <1>2, AddKeyKeeps
  <2>2. modelPc = "add" /\ UNCHANGED <<keysToLearn, rmiVars>>
    BY <1>2 DEF AddKey
  <2>3. RmiInv'
    BY <1>1, <2>1, <2>2, RmiStays
  <2> QED BY <1>1, <2>1, <2>2, <2>3 DEF ModelInv
<1>3. CASE Finalize
  <2>1. SplineInv' /\ modelPc' = "done"
    BY <1>1, <1>3, FinalizeKeeps
  <2>2. modelPc = "finalize" /\ UNCHANGED <<keysToLearn, rmiVars>>
    BY <1>3 DEF Finalize
  <2>3. RmiInv'
    BY <1>1, <2>1, <2>2, RmiStays
  <2> QED BY <1>1, <2>1, <2>2, <2>3 DEF ModelInv
<1>4. CASE PlaceKey
  BY <1>1, <1>4, PlaceKeyKeeps DEF ModelInv
<1>5. CASE TrainSecondLevel
  BY <1>1, <1>5, TrainSecondLevelKeeps DEF ModelInv
<1>6. CASE UNCHANGED modelVars
  <2>1. /\ modelPc' = modelPc /\ keysToLearn' = keysToLearn
        /\ UNCHANGED splineVars /\ UNCHANGED rmiVars
    BY <1>6 DEF modelVars
  <2>2. SplineInv' = SplineInv
    BY <2>1 DEF SplineInv, BuildInv, NoSpline, num_keys, splineVars, rmiVars
  <2>3. RmiInv' = RmiInv
    BY <2>1 DEF RmiInv, num_keys, rmiVars
  <2> QED BY <2>1, <2>2, <2>3 DEF ModelInv
<1> QED BY <1>2, <1>3, <1>4, <1>5, <1>6 DEF ModelNext

LEMMA InvPredicts == ModelInv => ModelsPredict
<1> SUFFICES ASSUME ModelInv, modelPc = "done"
             PROVE  IF second_level_models = <<>> THEN SplineBounds ELSE RmiKeepsOrder
  BY DEF ModelsPredict
<1>1. CASE second_level_models = <<>>
  <2>1. Ready
    BY <1>1 DEF Ready, ModelInv, SplineInv
  <2> QED BY <1>1, <2>1, BoundsHold
<1>2. CASE second_level_models # <<>>
  <2>1. /\ keysToLearn \in Samples /\ Len(second_level_models) = SecondLevelModelCount
    BY <1>2 DEF ModelInv, RmiInv
  <2>2. ASSUME NEW b \in Homes PROVE b < Len(second_level_models)
    BY <2>1, LearnedModelsAssumption DEF Homes
  <2>3. ModelsTrained
    BY <2>1, <2>2 DEF ModelsTrained, ModelInv, RmiInv
  <2> QED BY <1>2, <2>3, OrderKept
<1> QED BY <1>1, <1>2

\* rs/radix_spline.h and rmi.hpp: once a model is built from any sample, it
\* predicts the positions of the sample's keys.
THEOREM AlwaysModelsPredict == ModelSpec => []ModelsPredict
<1>1. ModelInit => ModelInv
  BY InitHolds
<1>2. ModelInv /\ [ModelNext]_modelVars => ModelInv'
  BY StepHolds
<1>3. ModelInv => ModelsPredict
  BY InvPredicts
<1> QED BY <1>1, <1>2, <1>3, PTL DEF ModelSpec

-----------------------------------------------------------------------------
(* FlattenSeq and FoldFunction, which are recursive.                       *)

\* The sequences up to the i-th one, one after the other.
Flattens(seqs, flat, n) ==
  flat = [i \in 1 .. n |-> IF i = 1 THEN seqs[i] ELSE flat[i - 1] \o seqs[i]]

LEMMA FlattenExists ==
  ASSUME NEW seqs, NEW n \in Nat
  PROVE  \E flat : Flattens(seqs, flat, n)
<1> DEFINE T == {k \in Nat : ~ \E flat : Flattens(seqs, flat, k)}
<1>1. SUFFICES ASSUME T # {} PROVE FALSE
  OBVIOUS
<1>2. PICK k \in T : \A j \in T : k <= j
  BY <1>1, LeastNat
<1>3. k # 0
  <2>1. Flattens(seqs, [i \in 1 .. 0 |-> 0], 0)
    BY DEF Flattens
  <2> QED BY <1>2, <2>1
<1>4. k - 1 \in Nat /\ k - 1 \notin T
  BY <1>2, <1>3
<1>5. PICK flat : Flattens(seqs, flat, k - 1)
  BY <1>4
<1> DEFINE more == [i \in 1 .. k |-> IF i = k THEN IF k = 1 THEN seqs[k] ELSE flat[k - 1] \o seqs[k]
                                     ELSE flat[i]]
<1>6. Flattens(seqs, more, k)
  <2>1. ASSUME NEW i \in 1 .. k
        PROVE  more[i] = IF i = 1 THEN seqs[i] ELSE more[i - 1] \o seqs[i]
    <3>1. CASE i = k
      BY <3>1
    <3>2. CASE i # k
      <4>1. i \in 1 .. k - 1 /\ (i # 1 => i - 1 \in 1 .. k - 1)
        BY <3>2
      <4>2. flat[i] = IF i = 1 THEN seqs[i] ELSE flat[i - 1] \o seqs[i]
        BY <4>1, <1>5 DEF Flattens
      <4>3. more[i] = flat[i] /\ (i # 1 => more[i - 1] = flat[i - 1])
        BY <4>1, <3>2
      <4> QED BY <4>2, <4>3
    <3> QED BY <3>1, <3>2
  <2> HIDE DEF more
  <2>2. more = [i \in 1 .. k |-> more[i]]
    BY DEF more
  <2> QED BY <2>1, <2>2 DEF Flattens
<1> QED BY <1>2, <1>6

JoinedBy(S, n, seqs, flat) ==
  /\ flat \in [1 .. n -> Seq(S)]
  /\ FlattenSeq(seqs) = flat[n]
  /\ flat[1] = seqs[1]
  /\ \A i \in 2 .. n : flat[i] = flat[i - 1] \o seqs[i]

LEMMA FlattenFacts ==
  ASSUME NEW S, NEW n \in Nat \ {0}, NEW seqs \in [1 .. n -> Seq(S)]
  PROVE  \E flat : JoinedBy(S, n, seqs, flat)
<1> DEFINE flat == CHOOSE f : Flattens(seqs, f, n)
<1>1. Flattens(seqs, flat, n)
  BY FlattenExists
<1>2. seqs \in Seq(Seq(S)) /\ Len(seqs) = n
  OBVIOUS
<1>3. FlattenSeq(seqs) = flat[n]
  BY <1>2 DEF FlattenSeq, Flattens
<1> HIDE DEF flat
<1>4. \A i \in 1 .. n : flat[i] = IF i = 1 THEN seqs[i] ELSE flat[i - 1] \o seqs[i]
  BY <1>1 DEF Flattens
<1>5. ASSUME NEW i \in 1 .. n PROVE flat[i] \in Seq(S)
  <2> DEFINE T == {k \in 1 .. n : flat[k] \notin Seq(S)}
  <2>1. SUFFICES ASSUME T # {} PROVE FALSE
    OBVIOUS
  <2>2. PICK k \in T : \A j \in T : k <= j
    <3>1. T \in SUBSET Nat
      OBVIOUS
    <3> QED BY <2>1, <3>1, LeastNat
  <2>3. k \in 1 .. n /\ seqs[k] \in Seq(S)
    OBVIOUS
  <2>4. k # 1
    BY <1>4, <2>2, <2>3
  <2>5. k - 1 \in 1 .. n /\ k - 1 \notin T
    BY <2>2, <2>4
  <2>6. flat[k - 1] \in Seq(S)
    BY <2>5
  <2>7. flat[k] \in Seq(S)
    BY <1>4, <2>3, <2>4, <2>6, ConcatProperties
  <2> QED BY <2>2, <2>7
<1>6. flat \in [1 .. n -> Seq(S)]
  <2>1. flat = [i \in 1 .. n |-> flat[i]]
    BY <1>1 DEF Flattens
  <2> QED BY <1>5, <2>1
<1>7. 1 \in 1 .. n /\ \A i \in 2 .. n : i \in 1 .. n /\ i # 1
  OBVIOUS
<1> QED BY <1>3, <1>4, <1>6, <1>7 DEF JoinedBy

\* What is counted at the places in s, one cell for each one counted.
Cells(c, s) == {cell \in s \X Nat : cell[2] \in 1 .. c[cell[1]]}

LEMMA CellsWithout ==
  ASSUME NEW T, NEW c \in [T -> Nat], NEW s \in SUBSET T, NEW x \in s, IsFiniteSet(Cells(c, s \ {x}))
  PROVE  /\ IsFiniteSet(Cells(c, s))
         /\ Cardinality(Cells(c, s)) = c[x] + Cardinality(Cells(c, s \ {x}))
<1> DEFINE Here == {<<x, j>> : j \in 1 .. c[x]}
<1>1. c[x] \in Nat
  OBVIOUS
<1>2. IsFiniteSet(Here) /\ Cardinality(Here) = c[x]
  <2> DEFINE f == [j \in 1 .. c[x] |-> <<x, j>>]
  <2>1. f \in Bijection(1 .. c[x], Here)
    <3>1. f \in [1 .. c[x] -> Here]
      OBVIOUS
    <3>2. \A i, j \in 1 .. c[x] : f[i] = f[j] => i = j
      OBVIOUS
    <3>3. \A h \in Here : \E j \in 1 .. c[x] : f[j] = h
      OBVIOUS
    <3> HIDE DEF f, Here
    <3> QED BY <3>1, <3>2, <3>3 DEF Bijection, Injection, Surjection, IsInjective
  <2>2. IsFiniteSet(1 .. c[x]) /\ Cardinality(1 .. c[x]) = c[x]
    BY <1>1, FS_Interval
  <2>3. ExistsBijection(1 .. c[x], Here)
    BY <2>1 DEF ExistsBijection
  <2> HIDE DEF Here, f
  <2> QED BY <2>2, <2>3, FS_Bijection
<1>3. Cells(c, s) = Here \cup Cells(c, s \ {x})
  BY <1>1 DEF Cells
<1>4. Here \cap Cells(c, s \ {x}) = {}
  BY DEF Cells
<1> HIDE DEF Here
<1>5. Cardinality(Cells(c, s \ {x})) \in Nat
  BY FS_CardinalityType
<1>6. /\ IsFiniteSet(Here \cup Cells(c, s \ {x}))
      /\ Cardinality(Here \cup Cells(c, s \ {x})) =
           Cardinality(Here) + Cardinality(Cells(c, s \ {x})) - Cardinality(Here \cap Cells(c, s \ {x}))
  BY <1>2, FS_Union
<1>7. Cardinality(Here \cap Cells(c, s \ {x})) = 0
  BY <1>4, FS_EmptySet
<1> QED BY <1>1, <1>2, <1>3, <1>5, <1>6, <1>7

LEMMA CellsFinite ==
  ASSUME NEW T, NEW c \in [T -> Nat], NEW s \in SUBSET T, IsFiniteSet(s)
  PROVE  IsFiniteSet(Cells(c, s)) /\ Cardinality(Cells(c, s)) \in Nat
<1> DEFINE Bad == {r \in SUBSET s : ~ IsFiniteSet(Cells(c, r))}
           CellSizes == {Cardinality(r) : r \in Bad}
<1>1. \A r \in SUBSET s : IsFiniteSet(r) /\ Cardinality(r) \in Nat
  BY FS_Subset, FS_CardinalityType
<1>2. Bad = {}
  <2>1. SUFFICES ASSUME Bad # {} PROVE FALSE
    OBVIOUS
  <2>2. CellSizes \in SUBSET Nat /\ CellSizes # {}
    BY <1>1, <2>1
  <2>3. PICK r \in Bad : \A q \in Bad : Cardinality(r) <= Cardinality(q)
    <3>1. PICK m \in CellSizes : \A k \in CellSizes : m <= k
      BY <2>2, LeastNat
    <3> QED BY <3>1
  <2>4. r # {}
    <3>1. Cells(c, {}) = {}
      BY DEF Cells
    <3> QED BY <2>3, <3>1, FS_EmptySet
  <2>5. PICK x \in r : TRUE
    BY <2>4
  <2>6. Cardinality(r \ {x}) = Cardinality(r) - 1 /\ r \ {x} \in SUBSET s
    BY <1>1, FS_RemoveElement
  <2>7. r \ {x} \notin Bad
    BY <1>1, <2>3, <2>6
  <2>8. IsFiniteSet(Cells(c, r))
    BY <2>6, <2>7, CellsWithout
  <2> QED BY <2>8
<1>3. IsFiniteSet(Cells(c, s))
  BY <1>2
<1> QED BY <1>3, FS_CardinalityType

LEMMA FoldCounts ==
  ASSUME NEW T, IsFiniteSet(T), NEW c \in [T -> Nat]
  PROVE  FoldFunction(+, 0, c) = Cardinality(Cells(c, T))
<1> DEFINE One(s) == CHOOSE x \in s : TRUE
           Folds(f) == f = [s \in SUBSET T |-> IF s = {} THEN 0 ELSE c[One(s)] + f[s \ {One(s)}]]
           fold == CHOOSE f : Folds(f)
           count == [s \in SUBSET T |-> Cardinality(Cells(c, s))]
<1>1. FoldFunction(+, 0, c) = fold[T]
  BY DEF FoldFunction, FoldFunctionOnSet, MapThenFoldSet
<1>2. \A s \in SUBSET T : s # {} => One(s) \in s
  OBVIOUS
<1> HIDE DEF One
<1>3. \A s \in SUBSET T : IsFiniteSet(s) /\ Cardinality(s) \in Nat
  BY FS_Subset, FS_CardinalityType
<1>4. Folds(count)
  <2>1. ASSUME NEW s \in SUBSET T
        PROVE  count[s] = IF s = {} THEN 0 ELSE c[One(s)] + count[s \ {One(s)}]
    <3>1. CASE s = {}
      <4>1. Cells(c, {}) = {}
        BY DEF Cells
      <4> QED BY <3>1, <4>1, FS_EmptySet
    <3>2. CASE s # {}
      <4>1. One(s) \in s /\ s \ {One(s)} \in SUBSET T
        BY <1>2, <3>2
      <4>2. IsFiniteSet(Cells(c, s \ {One(s)}))
        BY <1>3, <4>1, CellsFinite
      <4>3. Cardinality(Cells(c, s)) = c[One(s)] + Cardinality(Cells(c, s \ {One(s)}))
        BY <4>1, <4>2, CellsWithout
      <4> QED BY <3>2, <4>1, <4>3
    <3> QED BY <3>1, <3>2
  <2> HIDE DEF count
  <2>2. count = [s \in SUBSET T |-> count[s]]
    BY DEF count
  <2> QED BY <2>1, <2>2
<1>5. Folds(fold)
  BY <1>4
<1> HIDE DEF fold, count
<1>6. ASSUME NEW s \in SUBSET T PROVE fold[s] = count[s]
  <2> DEFINE Bad == {r \in SUBSET T : fold[r] # count[r]}
             CellSizes == {Cardinality(r) : r \in Bad}
  <2>1. SUFFICES ASSUME Bad # {} PROVE FALSE
    OBVIOUS
  <2>2. CellSizes \in SUBSET Nat /\ CellSizes # {}
    BY <1>3, <2>1
  <2>3. PICK r \in Bad : \A q \in Bad : Cardinality(r) <= Cardinality(q)
    <3>1. PICK m \in CellSizes : \A k \in CellSizes : m <= k
      BY <2>2, LeastNat
    <3> QED BY <3>1
  <2>4. r # {}
    BY <1>4, <1>5, <2>3
  <2>5. One(r) \in r /\ r \ {One(r)} \in SUBSET T
    BY <1>2, <2>4
  <2>6. Cardinality(r \ {One(r)}) = Cardinality(r) - 1
    BY <1>3, <2>5, FS_RemoveElement
  <2>7. r \ {One(r)} \notin Bad
    BY <1>3, <2>3, <2>6
  <2>8. fold[r \ {One(r)}] = count[r \ {One(r)}]
    BY <2>5, <2>7
  <2>9. fold[r] = count[r]
    BY <1>4, <1>5, <2>4, <2>8
  <2> QED BY <2>9
<1>7. fold[T] = Cardinality(Cells(c, T))
  BY <1>6 DEF count
<1> QED BY <1>1, <1>7

-----------------------------------------------------------------------------
(* The sample the threads take together.                                   *)

\* A run begins and ends between samplings; the barriers part its phases.
BetweenRuns == {"trained", "init", "wait_init", "done"}
Sampling == {"sample", "wait_sample"}
Training == {"train", "wait_train"}

InputInv == keys \in Seq(0 .. KeyRange - 1) /\ keys # <<>> /\ hp \in ParamType

TrainerTypes ==
  /\ trainPc \in [Trainers -> BetweenRuns \cup Sampling \cup Training]
  /\ sample_count \in [Trainers -> Nat] /\ sampling_ptr \in [Trainers -> Nat]

\* All threads are in the same phase.
PhaseInv == \E phase \in {BetweenRuns, Sampling, Training} : \A t \in Trainers : trainPc[t] \in phase

AllCounts == [t \in Trainers |-> Len(Taken(t))]

\* A thread has counted what it has taken, and from the barrier until thread
\* 0 begins the next run the counts are those of the whole parts.
CountsInv ==
  /\ \A t \in Trainers :
       /\ sampling_ptr[t] =
            FirstOf(t) + (IF trainPc[t] = "sample" THEN sample_count[t] * SampleOffset ELSE 0)
       /\ sample_count[t] <= Len(Taken(t))
       /\ trainPc[t] \in {"wait_sample"} \cup Training => sample_count[t] = Len(Taken(t))
  /\ trainPc[0] = "wait_init" => sample_count = ClearedCounts
  /\ trainPc[0] \in {"trained", "done"} => sample_count = AllCounts

\* What a thread has counted lies in its share.
ShareInv ==
  SharesFit =>
    /\ tmp_training_sample \in Seq(0 .. KeyRange - 1)
    /\ Len(tmp_training_sample) = 2 * INPUT_SZ + 1
    /\ \A t \in Trainers : \A i \in 1 .. sample_count[t] :
         tmp_training_sample[ShareSize * t + i] = Taken(t)[i]

WholeModel == Trained(SortedKeys(TakenByAll), Len(TakenByAll), hp)

\* Only that one model is ever trained.
OneModelInv ==
  /\ SharesFit =>
       /\ model \in {Untrained(hp), WholeModel}
       /\ trainPc[0] \in {"wait_train", "trained", "done"} =>
            sample = SortedKeys(TakenByAll) /\ model = WholeModel
  /\ slopes = IF trainPc[0] = "done" THEN [j \in 1 .. hp.arch |-> model.leaf[j - 1]] ELSE <<>>

SampleTrainingInv == InputInv /\ TrainerTypes /\ PhaseInv /\ CountsInv /\ ShareInv /\ OneModelInv

-----------------------------------------------------------------------------
(* The parts and the shares.                                               *)

LEMMA SampleSizes ==
  ASSUME InputInv
  PROVE  /\ INPUT_SZ \in Nat \ {0}
         /\ SAMPLE_SZ(hp, INPUT_SZ) \in 1 .. INPUT_SZ
         /\ SampleOffset \in Nat \ {0}
         /\ Capacity \in Nat /\ Capacity <= INPUT_SZ + 1
         /\ ShareSize \in Nat
<1>1. INPUT_SZ \in Nat \ {0}
  BY DEF InputInv, INPUT_SZ
<1>2. hp.sampling_rate \in Nat /\ MinSortingSize \in Nat \ {0} /\ NumTrainers \in Nat \ {0}
  BY KeyModelAssumption, SampleTrainingAssumption DEF InputInv, ParamType
<1>3. hp.sampling_rate * INPUT_SZ \in Nat
  BY <1>1, <1>2
<1>4. (hp.sampling_rate * INPUT_SZ) \div 100 \in Nat
  BY <1>3, DivNat
<1>5. SAMPLE_SZ(hp, INPUT_SZ) \in 1 .. INPUT_SZ
  BY <1>1, <1>2, <1>4 DEF SAMPLE_SZ, Smaller, Larger
<1> DEFINE size == SAMPLE_SZ(hp, INPUT_SZ)
<1> HIDE DEF size
<1>6. size \in Nat \ {0} /\ size <= INPUT_SZ
  BY <1>5 DEF size
<1>7. INPUT_SZ \div size \in Nat /\ INPUT_SZ \div size # 0
  <2>1. INPUT_SZ < (INPUT_SZ \div size) * size + size /\ INPUT_SZ \div size \in Nat
    BY <1>1, <1>6, DivBounds, DivNat
  <2>2. 0 * size + size = size
    BY <1>6
  <2>3. INPUT_SZ \div size # 0
    BY <1>1, <1>6, <2>1, <2>2
  <2> QED BY <2>1, <2>3
<1>8. SampleOffset \in Nat \ {0}
  BY <1>7 DEF SampleOffset, size
<1>9. Capacity \in Nat /\ Capacity <= INPUT_SZ + 1
  BY <1>1, <1>5 DEF Capacity
<1>10. ShareSize \in Nat
  BY <1>2, <1>9, DivNat DEF ShareSize
<1> QED BY <1>1, <1>5, <1>8, <1>9, <1>10

\* Every part is a piece of the relation, and the last one is not empty.
LEMMA Parts ==
  ASSUME InputInv, NEW t \in Trainers
  PROVE  /\ FirstOf(t) \in Nat /\ EndOf(t) \in Nat
         /\ FirstOf(t) <= EndOf(t) /\ EndOf(t) <= INPUT_SZ
         /\ t = NumTrainers - 1 => FirstOf(t) < EndOf(t)
<1> DEFINE part == INPUT_SZ \div NumTrainers
<1>1. INPUT_SZ \in Nat \ {0} /\ NumTrainers \in Nat \ {0} /\ t \in Nat /\ t <= NumTrainers - 1
  BY SampleSizes, SampleTrainingAssumption DEF Trainers
<1>2. part \in Nat /\ part * NumTrainers <= INPUT_SZ
  BY <1>1, DivBounds, DivNat
<1>3. FirstOf(t) = part * t /\ FirstOf(t + 1) = part * (t + 1)
  BY DEF FirstOf
<1> HIDE DEF part
<1>4. part * t \in Nat /\ part * (t + 1) \in Nat /\ part * (t + 1) = part * t + part
  BY <1>1, <1>2
<1>5. part * (t + 1) <= part * NumTrainers /\ part * NumTrainers \in Nat
  BY <1>1, <1>2, TimesOrder
<1>6. part * t < INPUT_SZ
  <2>1. CASE part = 0
    BY <1>1, <2>1
  <2>2. CASE part # 0
    BY <1>1, <1>2, <1>4, <1>5, <2>2
  <2> QED BY <2>1, <2>2
<1>7. CASE t = NumTrainers - 1
  BY <1>1, <1>3, <1>4, <1>6, <1>7 DEF EndOf
<1>8. CASE t # NumTrainers - 1
  BY <1>1, <1>2, <1>3, <1>4, <1>5, <1>8 DEF EndOf
<1> QED BY <1>7, <1>8

LEMMA TakenFacts ==
  ASSUME InputInv, NEW t \in Trainers
  PROVE  /\ Taken(t) \in Seq(0 .. KeyRange - 1)
         /\ Len(Taken(t)) \in Nat
         /\ t = NumTrainers - 1 => Len(Taken(t)) # 0
         /\ \A c \in Nat : /\ c * SampleOffset \in Nat
                           /\ c < Len(Taken(t)) <=> FirstOf(t) + c * SampleOffset < EndOf(t)
         /\ \A i \in 1 .. Len(Taken(t)) : /\ Taken(t)[i] = keys[FirstOf(t) + (i - 1) * SampleOffset + 1]
                                          /\ Taken(t)[i] \in 0 .. KeyRange - 1
<1> DEFINE off == SampleOffset
           all == EndOf(t) - FirstOf(t)
           n == (all + off - 1) \div off
<1>1. /\ off \in Nat \ {0} /\ all \in Nat /\ FirstOf(t) \in Nat /\ EndOf(t) \in Nat
      /\ EndOf(t) <= INPUT_SZ /\ EndOf(t) = FirstOf(t) + all
      /\ t = NumTrainers - 1 => all # 0
  BY SampleSizes, Parts
<1>2. Taken(t) = [i \in 1 .. n |-> keys[FirstOf(t) + (i - 1) * off + 1]]
  BY DEF Taken
<1> HIDE DEF off, all
<1>3. n \in Nat /\ n * off <= all + off - 1 /\ all + off - 1 < n * off + off
  BY <1>1, DivBounds, DivNat
<1> HIDE DEF n
<1>4. Len(Taken(t)) = n
  BY <1>2, <1>3
<1>5. ASSUME NEW c \in Nat
      PROVE  c * off \in Nat /\ (c < n <=> c * off < all)
  <2>1. c * off \in Nat /\ (c + 1) * off = c * off + off
    BY <1>1
  <2>2. ASSUME c < n PROVE c * off < all
    <3>1. off * (c + 1) <= off * n
      BY <1>1, <1>3, <2>2, TimesOrder
    <3>2. (c + 1) * off <= n * off
      BY <1>1, <1>3, <3>1
    <3> QED BY <1>1, <1>3, <2>1, <3>2
  <2>3. ASSUME n <= c PROVE all <= c * off
    <3>1. off * n <= off * c
      BY <1>1, <1>3, <2>3, TimesOrder
    <3>2. n * off <= c * off
      BY <1>1, <1>3, <3>1
    <3> QED BY <1>1, <1>3, <2>1, <3>2
  <2> QED BY <1>1, <1>3, <2>1, <2>2, <2>3
<1>6. ASSUME NEW i \in 1 .. n
      PROVE  keys[FirstOf(t) + (i - 1) * off + 1] \in 0 .. KeyRange - 1
  <2>1. i - 1 \in Nat /\ i - 1 < n
    BY <1>3
  <2>2. (i - 1) * off \in Nat /\ (i - 1) * off < all
    BY <1>5, <2>1
  <2>3. FirstOf(t) + (i - 1) * off + 1 \in 1 .. INPUT_SZ
    BY <1>1, <2>2, SampleSizes
  <2> QED BY <2>3, ElementOfSeq DEF InputInv, INPUT_SZ
<1>7. Taken(t) \in Seq(0 .. KeyRange - 1)
  BY <1>2, <1>3, <1>6
<1>8. t = NumTrainers - 1 => n # 0
  BY <1>1, <1>3
<1>9. \A c \in Nat : c * off \in Nat /\ (c < n <=> FirstOf(t) + c * off < EndOf(t))
  BY <1>1, <1>5
<1> QED BY <1>2, <1>3, <1>4, <1>6, <1>7, <1>8, <1>9 DEF off

-----------------------------------------------------------------------------
(* What all threads take.                                                  *)

\* What the threads before the n-th one take, for n > 0.
Joined(flat) ==
  /\ flat \in [1 .. NumTrainers -> Seq(0 .. KeyRange - 1)]
  /\ TakenByAll = flat[NumTrainers]
  /\ flat[1] = Taken(0)
  /\ \A n \in 2 .. NumTrainers : flat[n] = flat[n - 1] \o Taken(n - 1)

LEMMA JoinedExists ==
  ASSUME InputInv
  PROVE  \E flat : Joined(flat)
<1> DEFINE seqs == [i \in 1 .. NumTrainers |-> Taken(i - 1)]
           K == 0 .. KeyRange - 1
<1>1. NumTrainers \in Nat \ {0}
  BY SampleTrainingAssumption
<1>2. \A i \in 1 .. NumTrainers : i - 1 \in Trainers
  BY <1>1 DEF Trainers
<1>3. seqs \in [1 .. NumTrainers -> Seq(K)]
  BY <1>2, TakenFacts
<1>4. TakenByAll = FlattenSeq(seqs)
  BY DEF TakenByAll
<1>5. \A i \in 1 .. NumTrainers : seqs[i] = Taken(i - 1)
  OBVIOUS
<1> HIDE DEF seqs, K
<1>6. PICK flat : JoinedBy(K, NumTrainers, seqs, flat)
  BY <1>1, <1>3, FlattenFacts
<1>7. 1 - 1 = 0 /\ 1 \in 1 .. NumTrainers /\ 2 .. NumTrainers \subseteq 1 .. NumTrainers
  BY <1>1
<1> QED BY <1>4, <1>5, <1>6, <1>7 DEF JoinedBy, Joined, K

LEMMA JoinedStep ==
  ASSUME InputInv, NEW flat, Joined(flat), NEW n \in 1 .. NumTrainers
  PROVE  /\ n - 1 \in Trainers /\ Len(flat[n]) \in Nat
         /\ n = 1 => flat[n] = Taken(n - 1)
         /\ n # 1 => /\ n - 1 \in 1 .. NumTrainers
                     /\ flat[n] = flat[n - 1] \o Taken(n - 1)
                     /\ Len(flat[n]) = Len(flat[n - 1]) + Len(Taken(n - 1))
                     /\ \A i \in 1 .. Len(flat[n]) :
                          flat[n][i] = IF i <= Len(flat[n - 1]) THEN flat[n - 1][i]
                                       ELSE Taken(n - 1)[i - Len(flat[n - 1])]
<1> DEFINE K == 0 .. KeyRange - 1
<1>1. NumTrainers \in Nat \ {0}
  BY SampleTrainingAssumption
<1>2. n - 1 \in Trainers /\ flat[n] \in Seq(K) /\ Len(flat[n]) \in Nat
  BY <1>1 DEF Trainers, Joined
<1>3. Taken(n - 1) \in Seq(K)
  BY <1>2, TakenFacts
<1>4. CASE n = 1
  BY <1>2, <1>4 DEF Joined
<1>5. CASE n # 1
  <2>1. n \in 2 .. NumTrainers /\ n - 1 \in 1 .. NumTrainers
    BY <1>1, <1>5
  <2>2. flat[n] = flat[n - 1] \o Taken(n - 1) /\ flat[n - 1] \in Seq(K)
    BY <2>1 DEF Joined
  <2> DEFINE a == flat[n - 1]
             b == Taken(n - 1)
  <2>3. a \in Seq(K) /\ b \in Seq(K) /\ flat[n] = a \o b
    BY <1>3, <2>2
  <2> HIDE DEF K, a, b
  <2>4. Len(flat[n]) = Len(a) + Len(b)
    BY <2>3, ConcatProperties
  <2>5. \A i \in 1 .. Len(a) + Len(b) : (a \o b)[i] = IF i <= Len(a) THEN a[i] ELSE b[i - Len(a)]
    BY <2>3, ConcatProperties
  <2>6. \A i \in 1 .. Len(flat[n]) : flat[n][i] = IF i <= Len(a) THEN a[i] ELSE b[i - Len(a)]
    BY <2>3, <2>4, <2>5
  <2> QED BY <1>2, <1>5, <2>1, <2>2, <2>4, <2>6 DEF a, b
<1> QED BY <1>4, <1>5

\* The sum of the counts is the number of tuples taken.
LEMMA TotalIs ==
  ASSUME InputInv, sample_count = AllCounts
  PROVE  total_sample_count = Len(TakenByAll) /\ total_sample_count \in Nat \ {0}
<1> DEFINE cells(n) == Cells(AllCounts, 0 .. (n - 1))
<1>1. NumTrainers \in Nat \ {0}
  BY SampleTrainingAssumption
<1>2. PICK flat : Joined(flat)
  BY JoinedExists
<1>3. AllCounts \in [Trainers -> Nat]
  BY TakenFacts DEF AllCounts
<1>4. \A n \in 1 .. NumTrainers : /\ 0 .. (n - 1) \in SUBSET Trainers /\ n - 1 \in 0 .. (n - 1)
                                  /\ (0 .. (n - 1)) \ {n - 1} = 0 .. ((n - 1) - 1)
  BY <1>1 DEF Trainers
<1>5. ASSUME NEW n \in 1 .. NumTrainers
      PROVE  Cardinality(cells(n)) = Len(Taken(n - 1)) + Cardinality(cells(n - 1))
  <2> DEFINE s == 0 .. (n - 1)
             r == 0 .. ((n - 1) - 1)
  <2>1. s \in SUBSET Trainers /\ n - 1 \in s /\ s \ {n - 1} = r /\ IsFiniteSet(r) /\ r \in SUBSET Trainers
    <3>1. s \in SUBSET Trainers /\ n - 1 \in s /\ s \ {n - 1} = r
      BY <1>4
    <3>2. n \in Int /\ 0 \in Int /\ (n - 1) - 1 \in Int
      BY <1>1
    <3>3. IsFiniteSet(r)
      BY <3>2, FS_Interval
    <3> QED BY <3>1, <3>3
  <2>2. cells(n) = Cells(AllCounts, s) /\ cells(n - 1) = Cells(AllCounts, r)
    OBVIOUS
  <2> HIDE DEF cells, s, r
  <2>3. IsFiniteSet(Cells(AllCounts, r))
    BY <1>3, <2>1, CellsFinite
  <2>4. AllCounts[n - 1] = Len(Taken(n - 1))
    BY <2>1 DEF AllCounts
  <2> DEFINE x == n - 1
             c == AllCounts
  <2> HIDE DEF x, c
  <2>5. x \in s /\ s \in SUBSET Trainers /\ c \in [Trainers -> Nat] /\ IsFiniteSet(Cells(c, s \ {x}))
    BY <1>3, <2>1, <2>3 DEF x, c
  <2>6. Cardinality(Cells(c, s)) = c[x] + Cardinality(Cells(c, s \ {x}))
    BY <2>5, CellsWithout
  <2> QED BY <2>1, <2>2, <2>4, <2>6 DEF x, c
<1>6. Cardinality(cells(0)) = 0
  <2>1. 0 .. (0 - 1) = {}
    OBVIOUS
  <2>2. Cells(AllCounts, {}) = {}
    BY DEF Cells
  <2> QED BY <2>1, <2>2, FS_EmptySet
<1> HIDE DEF cells
<1>7. ASSUME NEW n \in 1 .. NumTrainers PROVE Len(flat[n]) = Cardinality(cells(n))
  <2> DEFINE T == {k \in 1 .. NumTrainers : Len(flat[k]) # Cardinality(cells(k))}
  <2>1. SUFFICES ASSUME T # {} PROVE FALSE
    OBVIOUS
  <2>2. PICK k \in T : \A j \in T : k <= j
    <3>1. T \in SUBSET Nat
      OBVIOUS
    <3> QED BY <2>1, <3>1, LeastNat
  <2>3. k \in 1 .. NumTrainers /\ k - 1 \in Trainers
    BY <1>1 DEF Trainers
  <2>4. Len(Taken(k - 1)) \in Nat
    BY <2>3, TakenFacts
  <2>5. CASE k = 1
    <3>1. flat[k] = Taken(k - 1)
      BY <1>2, <2>3, <2>5, JoinedStep
    <3>2. Cardinality(cells(k)) = Len(Taken(k - 1)) + Cardinality(cells(k - 1))
      BY <1>5, <2>3
    <3>3. Cardinality(cells(k - 1)) = 0
      <4>1. k - 1 = 0
        BY <2>5
      <4> QED BY <1>6, <4>1
    <3> QED BY <2>2, <2>4, <3>1, <3>2, <3>3
  <2>6. CASE k # 1
    <3>1. k - 1 \in 1 .. NumTrainers /\ Len(flat[k]) = Len(flat[k - 1]) + Len(Taken(k - 1))
          /\ Len(flat[k - 1]) \in Nat
      BY <1>2, <2>3, <2>6, JoinedStep
    <3>2. k - 1 \notin T
      BY <2>2, <2>3
    <3>3. Len(flat[k - 1]) = Cardinality(cells(k - 1))
      BY <3>1, <3>2
    <3>4. Len(flat[k]) = Cardinality(cells(k))
      BY <1>5, <2>3, <2>4, <3>1, <3>3
    <3> QED BY <2>2, <3>4
  <2> QED BY <2>5, <2>6
<1>8. Trainers = 0 .. (NumTrainers - 1) /\ IsFiniteSet(Trainers)
  BY <1>1, FS_Interval DEF Trainers
<1>9. total_sample_count = Cardinality(Cells(AllCounts, Trainers))
  BY <1>3, <1>8, FoldCounts DEF total_sample_count
<1>10. NumTrainers \in 1 .. NumTrainers
  BY <1>1
<1>11. total_sample_count = Len(flat[NumTrainers]) /\ flat[NumTrainers] = TakenByAll
  BY <1>2, <1>7, <1>8, <1>9, <1>10 DEF cells, Joined
<1>12. Len(flat[NumTrainers]) \in Nat /\ Len(flat[NumTrainers]) # 0
  <2>1. NumTrainers - 1 \in Trainers
    BY <1>1 DEF Trainers
  <2>2. Len(Taken(NumTrainers - 1)) \in Nat /\ Len(Taken(NumTrainers - 1)) # 0
    BY <2>1, TakenFacts
  <2>3. CASE NumTrainers = 1
    BY <1>2, <1>10, <2>2, <2>3, JoinedStep
  <2>4. CASE NumTrainers # 1
    <3>1. NumTrainers - 1 \in 1 .. NumTrainers
      BY <1>1, <2>4
    <3>2. Len(flat[NumTrainers - 1]) \in Nat
      BY <1>2, <3>1, JoinedStep
    <3>3. Len(flat[NumTrainers]) = Len(flat[NumTrainers - 1]) + Len(Taken(NumTrainers - 1))
      BY <1>2, <1>10, <2>4, JoinedStep
    <3>4. \A a, b \in Nat : b # 0 => a + b \in Nat /\ a + b # 0
      OBVIOUS
    <3> QED BY <2>2, <3>2, <3>3, <3>4
  <2> QED BY <2>3, <2>4
<1> QED BY <1>11, <1>12

\* A thread's share is filled, if it is not the last one.
LEMMA ShareOf ==
  ASSUME InputInv, SharesFit, NEW t \in Trainers, NEW u \in Trainers, t < u
  PROVE  /\ Len(Taken(t)) = ShareSize
         /\ ShareSize * t \in Nat /\ ShareSize * u \in Nat
         /\ ShareSize * t + Len(Taken(t)) <= ShareSize * u
<1>1. t \in Nat /\ u \in Nat /\ t + 1 <= u /\ t < NumTrainers - 1 /\ ShareSize \in Nat
  BY SampleSizes, SampleTrainingAssumption DEF Trainers
<1>2. Len(Taken(t)) = ShareSize
  BY <1>1 DEF SharesFit
<1>3. ShareSize * (t + 1) <= ShareSize * u /\ ShareSize * u \in Nat /\ ShareSize * (t + 1) = ShareSize * t + ShareSize
      /\ ShareSize * t \in Nat
  BY <1>1, TimesOrder
<1> QED BY <1>1, <1>2, <1>3

LEMMA JoinedLength ==
  ASSUME InputInv, SharesFit, NEW flat, Joined(flat), NEW n \in 1 .. NumTrainers
  PROVE  Len(flat[n]) = ShareSize * (n - 1) + Len(Taken(n - 1))
<1> DEFINE T == {k \in 1 .. NumTrainers : Len(flat[k]) # ShareSize * (k - 1) + Len(Taken(k - 1))}
<1>1. SUFFICES ASSUME T # {} PROVE FALSE
  OBVIOUS
<1>2. PICK k \in T : \A j \in T : k <= j
  <2>1. T \in SUBSET Nat
    OBVIOUS
  <2> QED BY <1>1, <2>1, LeastNat
<1>3. /\ k \in 1 .. NumTrainers /\ k - 1 \in Trainers /\ Len(Taken(k - 1)) \in Nat
      /\ ShareSize \in Nat /\ NumTrainers \in Nat
  BY JoinedStep, TakenFacts, SampleSizes, SampleTrainingAssumption
<1>4. CASE k = 1
  <2>1. flat[k] = Taken(k - 1)
    BY <1>4, JoinedStep
  <2>2. ShareSize * (k - 1) = 0
    BY <1>3, <1>4
  <2> QED BY <1>2, <1>3, <2>1, <2>2
<1>5. CASE k # 1
  <2>1. /\ k - 1 \in 1 .. NumTrainers /\ Len(flat[k - 1]) \in Nat
        /\ Len(flat[k]) = Len(flat[k - 1]) + Len(Taken(k - 1))
    BY <1>3, <1>5, JoinedStep
  <2>2. k - 1 \notin T
    BY <1>2, <1>3
  <2>3. Len(flat[k - 1]) = ShareSize * ((k - 1) - 1) + Len(Taken((k - 1) - 1))
    BY <2>1, <2>2
  <2>4. (k - 1) - 1 \in Trainers /\ (k - 1) - 1 < k - 1
    BY <1>3, <2>1 DEF Trainers
  <2>5. Len(Taken((k - 1) - 1)) = ShareSize
    BY <1>3, <2>4, ShareOf
  <2>6. ShareSize * ((k - 1) - 1) + ShareSize = ShareSize * (k - 1)
    BY <1>3
  <2> QED BY <1>2, <1>3, <2>1, <2>3, <2>5, <2>6
<1> QED BY <1>4, <1>5

\* The shares lie in the array one behind the other.
LEMMA SharesLie ==
  ASSUME InputInv, SharesFit
  PROVE  /\ TakenByAll \in Seq(0 .. KeyRange - 1) /\ Len(TakenByAll) \in Nat
         /\ Len(TakenByAll) <= 2 * INPUT_SZ + 1
         /\ \A t \in Trainers : ShareSize * t + Len(Taken(t)) <= Len(TakenByAll)
         /\ \A k \in 1 .. Len(TakenByAll) : \E t \in Trainers : \E j \in 1 .. Len(Taken(t)) :
              k = ShareSize * t + j /\ TakenByAll[k] = Taken(t)[j]
<1>1. PICK flat : Joined(flat)
  BY JoinedExists
<1>2. NumTrainers \in Nat \ {0} /\ NumTrainers \in 1 .. NumTrainers /\ NumTrainers - 1 \in Trainers
  BY SampleTrainingAssumption DEF Trainers
<1>3. /\ TakenByAll = flat[NumTrainers] /\ TakenByAll \in Seq(0 .. KeyRange - 1)
      /\ Len(TakenByAll) = ShareSize * (NumTrainers - 1) + Len(Taken(NumTrainers - 1))
  BY <1>1, <1>2, JoinedLength DEF Joined
<1>4. Len(TakenByAll) \in Nat /\ Len(TakenByAll) <= Capacity
  BY <1>3 DEF SharesFit
<1>5. Len(TakenByAll) <= 2 * INPUT_SZ + 1
  BY <1>4, SampleSizes
<1>6. ASSUME NEW t \in Trainers
      PROVE  ShareSize * t + Len(Taken(t)) <= Len(TakenByAll)
  <2>1. CASE t = NumTrainers - 1
    BY <1>3, <1>4, <2>1
  <2>2. CASE t # NumTrainers - 1
    <3>1. t < NumTrainers - 1
      BY <1>2, <2>2 DEF Trainers
    <3>2. /\ ShareSize * t + Len(Taken(t)) <= ShareSize * (NumTrainers - 1)
          /\ ShareSize * t \in Nat /\ ShareSize * (NumTrainers - 1) \in Nat
      BY <1>2, <3>1, ShareOf
    <3>3. Len(Taken(NumTrainers - 1)) \in Nat /\ Len(Taken(t)) \in Nat
      BY <1>2, TakenFacts
    <3> QED BY <1>3, <3>2, <3>3
  <2> QED BY <2>1, <2>2
<1> DEFINE Holds(n) == \A k \in 1 .. Len(flat[n]) : \E t \in Trainers : \E j \in 1 .. Len(Taken(t)) :
                         k = ShareSize * t + j /\ flat[n][k] = Taken(t)[j]
<1>7. ASSUME NEW n \in 1 .. NumTrainers, n # 1 => Holds(n - 1) PROVE Holds(n)
  <2>1. SUFFICES ASSUME NEW k \in 1 .. Len(flat[n])
                 PROVE  \E t \in Trainers : \E j \in 1 .. Len(Taken(t)) :
                          k = ShareSize * t + j /\ flat[n][k] = Taken(t)[j]
    OBVIOUS
  <2>2. /\ n - 1 \in Trainers /\ Len(Taken(n - 1)) \in Nat /\ ShareSize \in Nat /\ Len(flat[n]) \in Nat
        /\ n \in Nat /\ k \in Nat
    <3>1. n - 1 \in Trainers /\ Len(flat[n]) \in Nat
      BY <1>1, JoinedStep
    <3>2. Len(Taken(n - 1)) \in Nat /\ ShareSize \in Nat
      BY <3>1, TakenFacts, SampleSizes
    <3> QED BY <1>2, <3>1, <3>2
  <2>3. CASE n = 1
    <3>1. flat[n] = Taken(n - 1)
      BY <1>1, <2>3, JoinedStep
    <3>2. k = ShareSize * (n - 1) + k
      BY <2>2, <2>3
    <3> QED BY <2>2, <3>1, <3>2
  <2>4. CASE n # 1
    <3>1. /\ n - 1 \in 1 .. NumTrainers
          /\ Len(flat[n]) = Len(flat[n - 1]) + Len(Taken(n - 1)) /\ Len(flat[n - 1]) \in Nat
          /\ flat[n][k] = IF k <= Len(flat[n - 1]) THEN flat[n - 1][k]
                          ELSE Taken(n - 1)[k - Len(flat[n - 1])]
      BY <1>1, <2>4, JoinedStep
    <3>2. CASE k <= Len(flat[n - 1])
      <4>1. k \in 1 .. Len(flat[n - 1]) /\ flat[n][k] = flat[n - 1][k]
        BY <2>2, <3>1, <3>2
      <4> QED BY <1>7, <2>4, <4>1
    <3>3. CASE k > Len(flat[n - 1])
      <4>1. Len(flat[n - 1]) = ShareSize * (n - 1)
        <5>1. (n - 1) - 1 \in Trainers /\ (n - 1) - 1 < n - 1
          BY <1>2, <2>2, <3>1 DEF Trainers
        <5>2. Len(flat[n - 1]) = ShareSize * ((n - 1) - 1) + Len(Taken((n - 1) - 1))
          BY <1>1, <3>1, JoinedLength
        <5>3. Len(Taken((n - 1) - 1)) = ShareSize
          BY <2>2, <5>1, ShareOf
        <5> QED BY <2>2, <5>2, <5>3
      <4>2. k - Len(flat[n - 1]) \in 1 .. Len(Taken(n - 1))
        <5>1. \A a, b, c \in Nat : a \in 1 .. c + b /\ a > c => a - c \in 1 .. b
          OBVIOUS
        <5>2. k \in 1 .. Len(flat[n - 1]) + Len(Taken(n - 1))
          BY <3>1
        <5> QED BY <2>2, <3>1, <3>3, <5>1, <5>2
      <4>3. k = ShareSize * (n - 1) + (k - Len(flat[n - 1]))
        BY <2>2, <3>1, <4>1
      <4>4. flat[n][k] = Taken(n - 1)[k - Len(flat[n - 1])]
        BY <2>2, <3>1, <3>3
      <4> QED BY <2>2, <4>2, <4>3, <4>4
    <3> QED BY <2>2, <3>1, <3>2, <3>3
  <2> QED BY <2>3, <2>4
<1> HIDE DEF Holds
<1>8. Holds(NumTrainers)
  <2> DEFINE T == {n \in 1 .. NumTrainers : ~ Holds(n)}
  <2>1. SUFFICES ASSUME T # {} PROVE FALSE
    BY <1>2
  <2>2. PICK n \in T : \A j \in T : n <= j
    <3>1. T \in SUBSET Nat
      OBVIOUS
    <3> QED BY <2>1, <3>1, LeastNat
  <2>3. n # 1 => n - 1 \in 1 .. NumTrainers /\ n - 1 \notin T
    BY <1>2, <2>2
  <2>4. n # 1 => Holds(n - 1)
    BY <2>3
  <2> QED BY <1>7, <2>2, <2>4
<1> QED BY <1>3, <1>4, <1>5, <1>6, <1>8 DEF Holds

-----------------------------------------------------------------------------
(* The steps of the threads.                                               *)

LEMMA StoreOne ==
  ASSUME NEW S, NEW mem \in Seq(S), NEW at \in Nat, at < Len(mem), NEW v \in S
  PROVE  /\ Store(mem, at, <<v>>) \in Seq(S)
         /\ Len(Store(mem, at, <<v>>)) = Len(mem)
         /\ \A k \in 1 .. Len(mem) : Store(mem, at, <<v>>)[k] = IF k = at + 1 THEN v ELSE mem[k]
<1> DEFINE front == SubSeq(mem, 1, at)
           one == <<v>>
           back == SubSeq(mem, at + 2, Len(mem))
<1>1. Len(mem) \in Nat /\ \A i \in 1 .. Len(mem) : mem[i] \in S
  OBVIOUS
<1>2. front \in Seq(S) /\ Len(front) = at /\ \A i \in 1 .. at : front[i] = mem[i]
  OBVIOUS
<1>3. one \in Seq(S) /\ Len(one) = 1 /\ one[1] = v
  OBVIOUS
<1>4. /\ back \in Seq(S) /\ Len(back) = Len(mem) - at - 1
      /\ \A i \in 1 .. Len(mem) - at - 1 : back[i] = mem[at + 1 + i]
  OBVIOUS
<1>5. Store(mem, at, <<v>>) = (front \o one) \o back
  <2>1. Len(one) = 1 /\ at + 1 + 1 = at + 2
    BY <1>3
  <2> QED BY <2>1 DEF Store
<1> HIDE DEF front, one, back
<1>6. /\ front \o one \in Seq(S) /\ Len(front \o one) = at + 1
      /\ \A i \in 1 .. at + 1 : (front \o one)[i] = IF i <= at THEN front[i] ELSE one[i - at]
  <2>1. front \in Seq(S) /\ one \in Seq(S) /\ Len(front) = at /\ Len(one) = 1
    BY <1>2, <1>3
  <2>2. front \o one \in Seq(S) /\ Len(front \o one) = Len(front) + Len(one)
    BY <2>1, ConcatProperties
  <2>3. \A i \in 1 .. Len(front) + Len(one) :
          (front \o one)[i] = IF i <= Len(front) THEN front[i] ELSE one[i - Len(front)]
    BY <2>1, ConcatProperties
  <2> QED BY <2>1, <2>2, <2>3
<1> DEFINE begin == front \o one
<1> HIDE DEF begin
<1>7. begin \in Seq(S) /\ Len(begin) = at + 1 /\ back \in Seq(S)
  BY <1>4, <1>6 DEF begin
<1>8. /\ begin \o back \in Seq(S) /\ Len(begin \o back) = Len(begin) + Len(back)
      /\ \A i \in 1 .. Len(begin) + Len(back) :
           (begin \o back)[i] = IF i <= Len(begin) THEN begin[i] ELSE back[i - Len(begin)]
  BY <1>7, ConcatProperties
<1>9. Len(begin) + Len(back) = Len(mem)
  BY <1>1, <1>4, <1>7
<1>10. ASSUME NEW k \in 1 .. Len(mem)
       PROVE  (begin \o back)[k] = IF k = at + 1 THEN v ELSE mem[k]
  <2>1. (begin \o back)[k] = IF k <= at + 1 THEN begin[k] ELSE back[k - (at + 1)]
    BY <1>7, <1>8, <1>9
  <2>2. CASE k <= at
    <3>1. k \in 1 .. at /\ k \in 1 .. at + 1 /\ k # at + 1
      BY <1>1, <2>2
    <3>2. begin[k] = front[k] /\ front[k] = mem[k]
      BY <1>2, <1>6, <2>2, <3>1 DEF begin
    <3> QED BY <2>1, <2>2, <3>1, <3>2
  <2>3. CASE k = at + 1
    <3>1. k \in 1 .. at + 1 /\ ~ (k <= at) /\ k - at = 1
      BY <1>1, <2>3
    <3>2. begin[k] = one[1]
      BY <1>6, <3>1 DEF begin
    <3> QED BY <1>3, <2>1, <2>3, <3>2
  <2>4. CASE k > at + 1
    <3>1. k - (at + 1) \in 1 .. Len(mem) - at - 1 /\ at + 1 + (k - (at + 1)) = k
      BY <1>1, <2>4
    <3>2. back[k - (at + 1)] = mem[k]
      BY <1>4, <3>1
    <3> QED BY <2>1, <2>4, <3>2
  <2>5. k \in Nat
    BY <1>1
  <2>6. k <= at \/ k = at + 1 \/ k > at + 1
    BY <2>5
  <2> QED BY <2>2, <2>3, <2>4, <2>6
<1>11. Store(mem, at, <<v>>) = begin \o back
  BY <1>5 DEF begin
<1> QED BY <1>8, <1>9, <1>10, <1>11

\* The sample is laid out before the threads start.
LEMMA InputStays ==
  ASSUME InputInv, UNCHANGED inputVars
  PROVE  /\ InputInv' /\ SharesFit' = SharesFit /\ TakenByAll' = TakenByAll /\ INPUT_SZ' = INPUT_SZ
         /\ ShareSize' = ShareSize /\ SampleOffset' = SampleOffset /\ AllCounts' = AllCounts
         /\ hp' = hp /\ WholeModel' = WholeModel /\ Untrained(hp)' = Untrained(hp)
         /\ \A t \in Trainers : /\ Taken(t)' = Taken(t) /\ FirstOf(t)' = FirstOf(t)
                                /\ EndOf(t)' = EndOf(t)
<1>1. keys' = keys /\ hp' = hp
  BY DEF inputVars
<1>2. INPUT_SZ' = INPUT_SZ
  BY <1>1 DEF INPUT_SZ
<1>3. SampleOffset' = SampleOffset /\ Capacity' = Capacity
  BY <1>1, <1>2 DEF SampleOffset, Capacity
<1>4. ShareSize' = ShareSize
  BY <1>3 DEF ShareSize
<1>5. \A t : FirstOf(t)' = FirstOf(t)
  BY <1>2 DEF FirstOf
<1>6. \A t : EndOf(t)' = EndOf(t)
  BY <1>2, <1>5 DEF EndOf, FirstOf
<1>7. \A t : Taken(t)' = Taken(t)
  BY <1>1, <1>3, <1>5, <1>6 DEF Taken
<1>8. TakenByAll' = TakenByAll
  BY <1>7 DEF TakenByAll
<1>9. SharesFit' = SharesFit
  BY <1>3, <1>4, <1>7, <1>8 DEF SharesFit
<1>10. AllCounts' = AllCounts
  BY <1>7 DEF AllCounts
<1>11. WholeModel' = WholeModel /\ Untrained(hp)' = Untrained(hp)
  BY <1>1, <1>8 DEF WholeModel
<1>12. InputInv'
  BY <1>1 DEF InputInv
<1> QED BY <1>1, <1>2, <1>3, <1>4, <1>5, <1>6, <1>7, <1>8, <1>9, <1>10, <1>11, <1>12

LEMMA TrainersNat == 0 \in Trainers /\ \A t \in Trainers : t \in Nat
BY SampleTrainingAssumption DEF Trainers

\* The thread that takes a step shows the phase all threads are in.
LEMMA PhaseOf ==
  ASSUME PhaseInv, NEW t \in Trainers
  PROVE  /\ trainPc[t] \in BetweenRuns => \A u \in Trainers : trainPc[u] \in BetweenRuns
         /\ trainPc[t] \in Sampling => \A u \in Trainers : trainPc[u] \in Sampling
         /\ trainPc[t] \in Training => \A u \in Trainers : trainPc[u] \in Training
BY DEF PhaseInv, BetweenRuns, Sampling, Training

LEMMA GoesTo ==
  ASSUME TrainerTypes, NEW t \in Trainers, NEW from, NEW to, Goes(t, from, to)
  PROVE  /\ trainPc[t] = from
         /\ \A u \in Trainers : trainPc'[u] = IF u = t THEN to ELSE trainPc[u]
         /\ to \in BetweenRuns \cup Sampling \cup Training =>
              trainPc' \in [Trainers -> BetweenRuns \cup Sampling \cup Training]
BY DEF Goes, TrainerTypes

LEMMA BeginRunKeeps ==
  ASSUME SampleTrainingInv, NEW t \in Trainers, BeginRun(t)
  PROVE  SampleTrainingInv'
<1>1. /\ InputInv /\ TrainerTypes /\ PhaseInv /\ CountsInv /\ ShareInv /\ OneModelInv
  BY DEF SampleTrainingInv
<1>2. /\ Goes(t, "init", "wait_init")
      /\ sample_count' = IF t = 0 THEN ClearedCounts ELSE sample_count
      /\ UNCHANGED inputVars
      /\ UNCHANGED <<sample, model, sampling_ptr, tmp_training_sample, slopes>>
  BY DEF BeginRun
<1>3. /\ trainPc[t] = "init"
      /\ \A u \in Trainers : trainPc'[u] = IF u = t THEN "wait_init" ELSE trainPc[u]
      /\ trainPc' \in [Trainers -> BetweenRuns \cup Sampling \cup Training]
  BY <1>1, <1>2, GoesTo DEF BetweenRuns
<1>4. \A u \in Trainers : trainPc[u] \in BetweenRuns /\ trainPc'[u] \in BetweenRuns
  BY <1>1, <1>3, PhaseOf DEF BetweenRuns
<1>5. ClearedCounts \in [Trainers -> Nat] /\ \A u \in Trainers : ClearedCounts[u] = 0
  BY DEF ClearedCounts
<1>6. TrainerTypes'
  BY <1>1, <1>2, <1>3, <1>5 DEF TrainerTypes
<1>7. PhaseInv'
  BY <1>4 DEF PhaseInv
<1>8. CountsInv'
  <2>1. ASSUME NEW u \in Trainers
        PROVE  /\ sampling_ptr'[u] = FirstOf(u)'
               /\ sample_count'[u] <= Len(Taken(u)')
               /\ trainPc'[u] # "sample" /\ trainPc'[u] \notin {"wait_sample"} \cup Training
    <3>1. trainPc'[u] # "sample" /\ trainPc[u] # "sample" /\ trainPc'[u] \notin {"wait_sample"} \cup Training
      BY <1>4 DEF BetweenRuns, Training
    <3>2. sampling_ptr[u] = FirstOf(u) + 0
      BY <1>1, <3>1 DEF CountsInv
    <3>3. FirstOf(u) \in Nat /\ Len(Taken(u)) \in Nat
      BY <1>1, Parts, TakenFacts
    <3>4. sample_count'[u] <= Len(Taken(u))
      BY <1>1, <1>2, <1>5, <3>3 DEF CountsInv
    <3> QED BY <1>1, <1>2, <3>1, <3>2, <3>3, <3>4, InputStays
  <2>2. trainPc'[0] = "wait_init" => sample_count' = ClearedCounts
    BY <1>1, <1>2, <1>3, TrainersNat DEF CountsInv
  <2>3. trainPc'[0] \in {"trained", "done"} => sample_count' = AllCounts'
    <3>1. ASSUME trainPc'[0] \in {"trained", "done"} PROVE t # 0 /\ trainPc[0] \in {"trained", "done"}
      BY <1>3, <3>1, TrainersNat
    <3> QED BY <1>1, <1>2, <3>1, InputStays DEF CountsInv
  <2>4. \A u \in Trainers : FirstOf(u)' \in Nat
    BY <1>1, <1>2, InputStays, Parts
  <2> QED BY <2>1, <2>2, <2>3, <2>4 DEF CountsInv, ClearedCounts
<1>9. ShareInv'
  <2>1. SUFFICES ASSUME SharesFit'
                 PROVE  /\ tmp_training_sample' \in Seq(0 .. KeyRange - 1)
                        /\ Len(tmp_training_sample') = 2 * INPUT_SZ' + 1
                        /\ \A u \in Trainers : \A i \in 1 .. sample_count'[u] :
                             tmp_training_sample'[ShareSize' * u + i] = Taken(u)'[i]
    BY DEF ShareInv
  <2>2. SharesFit
    BY <1>1, <1>2, <2>1, InputStays
  <2>3. /\ tmp_training_sample \in Seq(0 .. KeyRange - 1) /\ Len(tmp_training_sample) = 2 * INPUT_SZ + 1
        /\ \A u \in Trainers : \A i \in 1 .. sample_count[u] :
             tmp_training_sample[ShareSize * u + i] = Taken(u)[i]
    BY <1>1, <2>2 DEF ShareInv
  <2>4. ASSUME NEW u \in Trainers, NEW i \in 1 .. sample_count'[u]
        PROVE  i \in 1 .. sample_count[u]
    BY <1>1, <1>2, <1>5, <2>4 DEF TrainerTypes
  <2> QED BY <1>1, <1>2, <2>3, <2>4, InputStays
<1>10. OneModelInv'
  <2>1. trainPc'[0] \in {"wait_train", "trained", "done"} => trainPc[0] \in {"wait_train", "trained", "done"}
    BY <1>3, TrainersNat
  <2>2. trainPc'[0] = "done" <=> trainPc[0] = "done"
    BY <1>3, TrainersNat
  <2> QED BY <1>1, <1>2, <2>1, <2>2, InputStays DEF OneModelInv
<1> QED BY <1>1, <1>2, <1>6, <1>7, <1>8, <1>9, <1>10, InputStays DEF SampleTrainingInv

LEMMA SharesStay ==
  ASSUME InputInv, ShareInv, UNCHANGED inputVars, UNCHANGED <<tmp_training_sample, sample_count>>
  PROVE  ShareInv'
<1>1. /\ SharesFit' = SharesFit /\ INPUT_SZ' = INPUT_SZ /\ ShareSize' = ShareSize
      /\ \A u \in Trainers : Taken(u)' = Taken(u)
  BY InputStays
<1> QED BY <1>1 DEF ShareInv

LEMMA ModelStays ==
  ASSUME InputInv, OneModelInv, UNCHANGED inputVars, UNCHANGED <<sample, model, slopes>>,
         trainPc'[0] = "done" <=> trainPc[0] = "done",
         trainPc'[0] \in {"wait_train", "trained"} => trainPc[0] \in {"wait_train", "trained", "done"}
  PROVE  OneModelInv'
<1>1. /\ SharesFit' = SharesFit /\ TakenByAll' = TakenByAll /\ hp' = hp /\ WholeModel' = WholeModel
      /\ Untrained(hp)' = Untrained(hp)
  BY InputStays
<1> QED BY <1>1 DEF OneModelInv

LEMMA BarrierKeeps ==
  ASSUME SampleTrainingInv, Barriers
  PROVE  SampleTrainingInv'
<1>1. /\ InputInv /\ TrainerTypes /\ PhaseInv /\ CountsInv /\ ShareInv /\ OneModelInv
  BY DEF SampleTrainingInv
<1>2. PICK from, to : /\ <<from, to>> \in {<<"wait_init", "sample">>, <<"wait_sample", "train">>,
                                          <<"wait_train", "trained">>}
                      /\ BarrierOpens(from, to)
  BY DEF Barriers
<1>3. /\ \A t \in Trainers : trainPc[t] = from
      /\ trainPc' = [t \in Trainers |-> IF trainPc[t] = from THEN to ELSE trainPc[t]]
      /\ UNCHANGED inputVars
      /\ UNCHANGED <<sample, model, sample_count, sampling_ptr, tmp_training_sample, slopes>>
  BY <1>2 DEF BarrierOpens, Arrived
<1>4. \A t \in Trainers : trainPc'[t] = to
  BY <1>3
<1>5. TrainerTypes'
  <2>1. to \in BetweenRuns \cup Sampling \cup Training
    BY <1>2 DEF BetweenRuns, Sampling, Training
  <2> QED BY <1>1, <1>3, <2>1 DEF TrainerTypes
<1>6. PhaseInv'
  <2>1. \E phase \in {BetweenRuns, Sampling, Training} : to \in phase
    BY <1>2 DEF BetweenRuns, Sampling, Training
  <2> QED BY <1>4, <2>1 DEF PhaseInv
<1>7. CountsInv'
  <2>1. ASSUME NEW u \in Trainers
        PROVE  /\ sampling_ptr'[u] =
                    FirstOf(u)' + (IF trainPc'[u] = "sample" THEN sample_count'[u] * SampleOffset' ELSE 0)
               /\ sample_count'[u] <= Len(Taken(u)')
               /\ trainPc'[u] \in {"wait_sample"} \cup Training => sample_count'[u] = Len(Taken(u)')
    <3>1. /\ FirstOf(u)' = FirstOf(u) /\ Taken(u)' = Taken(u) /\ SampleOffset' = SampleOffset
          /\ SampleOffset \in Nat /\ FirstOf(u) \in Nat
      BY <1>1, <1>3, InputStays, SampleSizes, Parts
    <3>2. trainPc[u] = from /\ trainPc'[u] = to /\ from # "sample"
      BY <1>2, <1>3, <1>4
    <3>3. sampling_ptr'[u] = FirstOf(u) /\ sample_count'[u] = sample_count[u]
          /\ sample_count[u] <= Len(Taken(u))
      BY <1>1, <1>3, <3>1, <3>2 DEF CountsInv
    <3>4. to = "sample" => sample_count[u] = 0
      <4>1. to = "sample" => trainPc[0] = "wait_init"
        BY <1>2, <1>3, TrainersNat
      <4> QED BY <1>1, <4>1 DEF CountsInv, ClearedCounts
    <3>5. to \in {"wait_sample"} \cup Training => sample_count[u] = Len(Taken(u))
      <4>1. to \in {"wait_sample"} \cup Training => from = "wait_sample"
        BY <1>2 DEF Training
      <4> QED BY <1>1, <3>2, <4>1 DEF CountsInv
    <3>6. 0 * SampleOffset = 0
      BY <3>1
    <3> QED BY <3>1, <3>2, <3>3, <3>4, <3>5, <3>6
  <2>2. trainPc'[0] # "wait_init"
    BY <1>2, <1>4, TrainersNat
  <2>3. trainPc'[0] \in {"trained", "done"} => sample_count' = AllCounts'
    <3>1. SUFFICES ASSUME trainPc'[0] \in {"trained", "done"} PROVE sample_count' = AllCounts'
      OBVIOUS
    <3>2. from = "wait_train"
      BY <1>2, <1>4, <3>1, TrainersNat
    <3>3. \A u \in Trainers : sample_count[u] = Len(Taken(u))
      BY <1>1, <1>3, <3>2 DEF CountsInv, Training
    <3>4. sample_count = AllCounts
      <4>1. sample_count \in [Trainers -> Nat]
        BY <1>1 DEF TrainerTypes
      <4> QED BY <3>3, <4>1 DEF AllCounts
    <3> QED BY <1>1, <1>3, <3>4, InputStays
  <2> QED BY <2>1, <2>2, <2>3 DEF CountsInv
<1>8. ShareInv'
  BY <1>1, <1>3, SharesStay
<1>9. OneModelInv'
  <2>1. trainPc[0] = from /\ trainPc'[0] = to
    BY <1>3, <1>4, TrainersNat
  <2>2. /\ trainPc'[0] = "done" <=> trainPc[0] = "done"
        /\ trainPc'[0] \in {"wait_train", "trained"} => trainPc[0] \in {"wait_train", "trained", "done"}
    BY <1>2, <2>1
  <2> QED BY <1>1, <1>3, <2>2, ModelStays
<1> QED BY <1>1, <1>3, <1>5, <1>6, <1>7, <1>8, <1>9, InputStays DEF SampleTrainingInv

\* The tuple taken is the next one of the part, and nothing in the share of
\* another thread is overwritten.
LEMMA TakenIntoShare ==
  ASSUME SampleTrainingInv, NEW t \in Trainers, TakeSample(t)
  PROVE  ShareInv'
<1>1. /\ InputInv /\ TrainerTypes /\ CountsInv /\ ShareInv
  BY DEF SampleTrainingInv
<1>2. /\ trainPc[t] = "sample" /\ sampling_ptr[t] < EndOf(t)
      /\ tmp_training_sample' = Store(tmp_training_sample, ShareSize * t + sample_count[t],
                                      <<keys[sampling_ptr[t] + 1]>>)
      /\ sample_count' = [sample_count EXCEPT ![t] = @ + 1]
      /\ UNCHANGED inputVars
  BY DEF TakeSample
<1> DEFINE c == sample_count[t]
           at == ShareSize * t + c
           K == 0 .. KeyRange - 1
           v == keys[sampling_ptr[t] + 1]
<1>3. c \in Nat /\ sampling_ptr[t] = FirstOf(t) + c * SampleOffset
  BY <1>1, <1>2 DEF CountsInv, TrainerTypes
<1>4. c < Len(Taken(t)) /\ Len(Taken(t)) \in Nat
  BY <1>1, <1>2, <1>3, TakenFacts
<1>5. v = Taken(t)[c + 1] /\ v \in K
  <2>1. c + 1 \in 1 .. Len(Taken(t)) /\ (c + 1) - 1 = c
    BY <1>3, <1>4
  <2>2. Taken(t)[c + 1] = keys[FirstOf(t) + ((c + 1) - 1) * SampleOffset + 1] /\ Taken(t)[c + 1] \in K
    BY <1>1, <2>1, TakenFacts
  <2> QED BY <1>3, <2>1, <2>2
<1>6. SUFFICES ASSUME SharesFit'
               PROVE  /\ tmp_training_sample' \in Seq(K)
                      /\ Len(tmp_training_sample') = 2 * INPUT_SZ' + 1
                      /\ \A u \in Trainers : \A i \in 1 .. sample_count'[u] :
                           tmp_training_sample'[ShareSize' * u + i] = Taken(u)'[i]
  BY DEF ShareInv
<1>7. SharesFit
  BY <1>1, <1>2, <1>6, InputStays
<1>8. /\ tmp_training_sample \in Seq(K) /\ Len(tmp_training_sample) = 2 * INPUT_SZ + 1
      /\ \A u \in Trainers : \A i \in 1 .. sample_count[u] :
           tmp_training_sample[ShareSize * u + i] = Taken(u)[i]
  BY <1>1, <1>7 DEF ShareInv
<1>9. /\ ShareSize \in Nat /\ INPUT_SZ \in Nat /\ Len(TakenByAll) <= 2 * INPUT_SZ + 1
      /\ Len(TakenByAll) \in Nat
      /\ \A u \in Trainers : ShareSize * u + Len(Taken(u)) <= Len(TakenByAll)
  BY <1>1, <1>7, SampleSizes, SharesLie
<1>10. \A u \in Trainers : u \in Nat /\ ShareSize * u \in Nat /\ Len(Taken(u)) \in Nat
  <2>1. ASSUME NEW u \in Trainers PROVE u \in Nat /\ ShareSize * u \in Nat
    <3>1. u \in Nat
      BY TrainersNat
    <3> QED BY <1>9, <3>1
  <2> QED BY <1>1, <2>1, TakenFacts
<1>11. at \in Nat /\ at < Len(tmp_training_sample)
  <2> DEFINE share == ShareSize * t
  <2>1. share \in Nat /\ share + Len(Taken(t)) <= Len(tmp_training_sample)
    <3>1. /\ share \in Nat /\ Len(Taken(t)) \in Nat
          /\ share + Len(Taken(t)) <= Len(TakenByAll)
      BY <1>9, <1>10
    <3> HIDE DEF share
    <3> QED BY <1>8, <1>9, <3>1
  <2> HIDE DEF share, c
  <2>2. share + c \in Nat /\ share + c < Len(tmp_training_sample)
    BY <1>3, <1>4, <1>8, <1>9, <2>1
  <2> QED BY <2>2 DEF share
<1>12. tmp_training_sample' = Store(tmp_training_sample, at, <<v>>)
  BY <1>2
<1> HIDE DEF at, v, K
<1>13. /\ tmp_training_sample' \in Seq(K)
       /\ Len(tmp_training_sample') = Len(tmp_training_sample)
       /\ \A k \in 1 .. Len(tmp_training_sample) :
            tmp_training_sample'[k] = IF k = at + 1 THEN v ELSE tmp_training_sample[k]
  <2> DEFINE stored == Store(tmp_training_sample, at, <<v>>)
  <2>1. /\ stored \in Seq(K) /\ Len(stored) = Len(tmp_training_sample)
        /\ \A k \in 1 .. Len(tmp_training_sample) :
             stored[k] = IF k = at + 1 THEN v ELSE tmp_training_sample[k]
    <3> DEFINE mem == tmp_training_sample
    <3>1. mem \in Seq(K) /\ at \in Nat /\ at < Len(mem) /\ v \in K
      BY <1>5, <1>8, <1>11
    <3> HIDE DEF mem
    <3>2. /\ Store(mem, at, <<v>>) \in Seq(K) /\ Len(Store(mem, at, <<v>>)) = Len(mem)
          /\ \A k \in 1 .. Len(mem) : Store(mem, at, <<v>>)[k] = IF k = at + 1 THEN v ELSE mem[k]
      BY <3>1, StoreOne
    <3> QED BY <3>2 DEF mem
  <2> HIDE DEF stored
  <2>2. tmp_training_sample' = stored
    BY <1>12 DEF stored
  <2> QED BY <2>1, <2>2
<1>14. ASSUME NEW u \in Trainers, NEW i \in 1 .. sample_count'[u]
       PROVE  tmp_training_sample'[ShareSize * u + i] = Taken(u)[i]
  <2>1. sample_count'[u] = IF u = t THEN c + 1 ELSE sample_count[u]
    BY <1>1, <1>2 DEF TrainerTypes
  <2>2. sample_count[u] \in Nat /\ sample_count[u] <= Len(Taken(u)) /\ sample_count'[u] <= Len(Taken(u))
        /\ sample_count'[u] \in Nat /\ i \in Nat
    BY <1>1, <1>3, <1>4, <2>1 DEF CountsInv, TrainerTypes
  <2>3. ShareSize * u + i \in 1 .. Len(tmp_training_sample)
    <3>1. ShareSize * u + Len(Taken(u)) <= Len(TakenByAll)
      BY <1>9
    <3>2. ShareSize * u \in Nat /\ Len(Taken(u)) \in Nat /\ i <= Len(Taken(u)) /\ i >= 1
      BY <1>10, <2>2
    <3>3. ShareSize * u + i <= 2 * INPUT_SZ + 1 /\ ShareSize * u + i >= 1 /\ ShareSize * u + i \in Nat
      BY <1>9, <2>2, <3>1, <3>2
    <3> QED BY <1>8, <1>9, <3>3
  <2>4. CASE u = t /\ i = c + 1
    <3>1. ShareSize * u + i = at + 1
      BY <1>3, <1>10, <2>4 DEF at
    <3> QED BY <1>5, <1>13, <2>3, <2>4, <3>1
  <2>5. CASE ~ (u = t /\ i = c + 1)
    <3>1. i \in 1 .. sample_count[u]
      BY <1>3, <2>1, <2>2, <2>5
    <3>2. ShareSize * u + i # at + 1
      <4>1. CASE u = t
        BY <1>3, <1>10, <2>2, <2>5, <4>1 DEF at
      <4>2. CASE u < t
        <5>1. ShareSize * u + Len(Taken(u)) <= ShareSize * t
          BY <1>1, <1>7, <4>2, ShareOf
        <5> QED BY <1>3, <1>10, <2>2, <5>1 DEF at
      <4>3. CASE t < u
        <5>1. ShareSize * t + Len(Taken(t)) <= ShareSize * u
          BY <1>1, <1>7, <4>3, ShareOf
        <5>2. i >= 1
          BY <2>2
        <5> QED BY <1>3, <1>4, <1>10, <2>2, <5>1, <5>2 DEF at
      <4>4. u \in Nat /\ t \in Nat
        BY <1>10
      <4> QED BY <4>1, <4>2, <4>3, <4>4
    <3> QED BY <1>8, <1>13, <2>3, <3>1, <3>2
  <2> QED BY <2>4, <2>5
<1>15. /\ INPUT_SZ' = INPUT_SZ /\ ShareSize' = ShareSize /\ \A u \in Trainers : Taken(u)' = Taken(u)
  BY <1>1, <1>2, InputStays
<1> QED BY <1>8, <1>13, <1>14, <1>15

LEMMA TakeSampleKeeps ==
  ASSUME SampleTrainingInv, NEW t \in Trainers, TakeSample(t)
  PROVE  SampleTrainingInv'
<1>1. /\ InputInv /\ TrainerTypes /\ PhaseInv /\ CountsInv /\ ShareInv /\ OneModelInv
  BY DEF SampleTrainingInv
<1>2. /\ trainPc[t] = "sample" /\ sampling_ptr[t] < EndOf(t)
      /\ sample_count' = [sample_count EXCEPT ![t] = @ + 1]
      /\ sampling_ptr' = [sampling_ptr EXCEPT ![t] = @ + SampleOffset]
      /\ UNCHANGED inputVars /\ UNCHANGED <<sample, model, trainPc, slopes>>
  BY DEF TakeSample
<1>3. SampleOffset \in Nat
  BY <1>1, SampleSizes
<1>4. TrainerTypes'
  BY <1>1, <1>2, <1>3 DEF TrainerTypes
<1>5. PhaseInv'
  BY <1>1, <1>2 DEF PhaseInv
<1>6. \A u \in Trainers : trainPc[u] \in Sampling
  BY <1>1, <1>2, PhaseOf DEF Sampling
<1>7. CountsInv'
  <2>1. ASSUME NEW u \in Trainers
        PROVE  /\ sampling_ptr'[u] =
                    FirstOf(u)' + (IF trainPc'[u] = "sample" THEN sample_count'[u] * SampleOffset' ELSE 0)
               /\ sample_count'[u] <= Len(Taken(u)')
               /\ trainPc'[u] \in {"wait_sample"} \cup Training => sample_count'[u] = Len(Taken(u)')
    <3>1. FirstOf(u)' = FirstOf(u) /\ Taken(u)' = Taken(u) /\ SampleOffset' = SampleOffset
      BY <1>1, <1>2, InputStays
    <3>2. CASE u = t
      <4>1. sample_count[t] \in Nat /\ sampling_ptr[t] = FirstOf(t) + sample_count[t] * SampleOffset
            /\ FirstOf(t) \in Nat
        BY <1>1, <1>2, Parts DEF CountsInv, TrainerTypes
      <4>2. sample_count[t] < Len(Taken(t)) /\ Len(Taken(t)) \in Nat
        BY <1>1, <1>2, <4>1, TakenFacts
      <4>3. sample_count'[t] = sample_count[t] + 1 /\ sampling_ptr'[t] = sampling_ptr[t] + SampleOffset
        BY <1>1, <1>2 DEF TrainerTypes
      <4>4. (sample_count[t] + 1) * SampleOffset = sample_count[t] * SampleOffset + SampleOffset
            /\ sample_count[t] * SampleOffset \in Nat
        BY <1>3, <4>1
      <4>5. sampling_ptr'[t] = FirstOf(t) + sample_count'[t] * SampleOffset
        BY <1>3, <4>1, <4>3, <4>4
      <4>6. trainPc'[u] = "sample" /\ "sample" \notin {"wait_sample"} \cup Training
        BY <1>2, <3>2 DEF Training
      <4>7. sample_count'[t] <= Len(Taken(t))
        BY <4>1, <4>2, <4>3
      <4> QED BY <3>1, <3>2, <4>5, <4>6, <4>7
    <3>3. CASE u # t
      <4>1. sample_count'[u] = sample_count[u] /\ sampling_ptr'[u] = sampling_ptr[u] /\ trainPc'[u] = trainPc[u]
        BY <1>1, <1>2, <3>3 DEF TrainerTypes
      <4> QED BY <1>1, <3>1, <4>1 DEF CountsInv
    <3> QED BY <3>2, <3>3
  <2>2. trainPc'[0] \notin {"wait_init", "trained", "done"}
    BY <1>2, <1>6, TrainersNat DEF Sampling
  <2> QED BY <2>1, <2>2 DEF CountsInv
<1>8. ShareInv'
  BY TakenIntoShare
<1>9. OneModelInv'
  BY <1>1, <1>2, ModelStays
<1> QED BY <1>1, <1>2, <1>4, <1>5, <1>7, <1>8, <1>9, InputStays DEF SampleTrainingInv

LEMMA EndSampleKeeps ==
  ASSUME SampleTrainingInv, NEW t \in Trainers, EndSample(t)
  PROVE  SampleTrainingInv'
<1>1. /\ InputInv /\ TrainerTypes /\ PhaseInv /\ CountsInv /\ ShareInv /\ OneModelInv
  BY DEF SampleTrainingInv
<1>2. /\ sampling_ptr[t] >= EndOf(t) /\ Goes(t, "sample", "wait_sample")
      /\ sampling_ptr' = [sampling_ptr EXCEPT ![t] = FirstOf(t)]
      /\ UNCHANGED inputVars
      /\ UNCHANGED <<sample, model, sample_count, tmp_training_sample, slopes>>
  BY DEF EndSample
<1>3. /\ trainPc[t] = "sample"
      /\ \A u \in Trainers : trainPc'[u] = IF u = t THEN "wait_sample" ELSE trainPc[u]
      /\ trainPc' \in [Trainers -> BetweenRuns \cup Sampling \cup Training]
  BY <1>1, <1>2, GoesTo DEF Sampling
<1>4. \A u \in Trainers : trainPc[u] \in Sampling /\ trainPc'[u] \in Sampling
  BY <1>1, <1>3, PhaseOf DEF Sampling
<1>5. TrainerTypes'
  <2>1. FirstOf(t) \in Nat
    BY <1>1, Parts
  <2> QED BY <1>1, <1>2, <1>3, <2>1 DEF TrainerTypes
<1>6. PhaseInv'
  BY <1>4 DEF PhaseInv
<1>7. CountsInv'
  <2>1. ASSUME NEW u \in Trainers
        PROVE  /\ sampling_ptr'[u] =
                    FirstOf(u)' + (IF trainPc'[u] = "sample" THEN sample_count'[u] * SampleOffset' ELSE 0)
               /\ sample_count'[u] <= Len(Taken(u)')
               /\ trainPc'[u] \in {"wait_sample"} \cup Training => sample_count'[u] = Len(Taken(u)')
    <3>1. FirstOf(u)' = FirstOf(u) /\ Taken(u)' = Taken(u) /\ SampleOffset' = SampleOffset
      BY <1>1, <1>2, InputStays
    <3>2. CASE u = t
      <4>1. sample_count[t] \in Nat /\ sampling_ptr[t] = FirstOf(t) + sample_count[t] * SampleOffset
            /\ FirstOf(t) \in Nat /\ EndOf(t) \in Nat /\ sampling_ptr[t] \in Nat
            /\ sample_count[t] <= Len(Taken(t))
        BY <1>1, <1>3, Parts DEF CountsInv, TrainerTypes
      <4>2. Len(Taken(t)) \in Nat /\ ~ (sample_count[t] < Len(Taken(t)))
        <5> DEFINE c == sample_count[t]
        <5>1. /\ c * SampleOffset \in Nat /\ Len(Taken(t)) \in Nat
              /\ c < Len(Taken(t)) <=> FirstOf(t) + c * SampleOffset < EndOf(t)
          BY <1>1, <4>1, TakenFacts
        <5>2. ~ (FirstOf(t) + c * SampleOffset < EndOf(t))
          BY <1>2, <4>1
        <5> QED BY <5>1, <5>2
      <4>3. sample_count[t] = Len(Taken(t))
        BY <4>1, <4>2
      <4>4. sampling_ptr'[t] = FirstOf(t) /\ trainPc'[t] = "wait_sample" /\ sample_count'[t] = sample_count[t]
        BY <1>1, <1>2, <1>3 DEF TrainerTypes
      <4> QED BY <3>1, <3>2, <4>1, <4>2, <4>3, <4>4
    <3>3. CASE u # t
      <4>1. sample_count'[u] = sample_count[u] /\ sampling_ptr'[u] = sampling_ptr[u] /\ trainPc'[u] = trainPc[u]
        BY <1>1, <1>2, <1>3, <3>3 DEF TrainerTypes
      <4> QED BY <1>1, <3>1, <4>1 DEF CountsInv
    <3> QED BY <3>2, <3>3
  <2>2. trainPc'[0] \notin {"wait_init", "trained", "done"}
    BY <1>4, TrainersNat DEF Sampling
  <2> QED BY <2>1, <2>2 DEF CountsInv
<1>8. ShareInv'
  BY <1>1, <1>2, SharesStay
<1>9. OneModelInv'
  <2>1. trainPc[0] \in Sampling /\ trainPc'[0] \in Sampling
    BY <1>4, TrainersNat
  <2> QED BY <1>1, <1>2, <2>1, ModelStays DEF Sampling
<1> QED BY <1>1, <1>2, <1>5, <1>6, <1>7, <1>8, <1>9, InputStays DEF SampleTrainingInv

\* Filled shares hold the tuples taken one after the other.
LEMMA WholeSample ==
  ASSUME InputInv, ShareInv, SharesFit, sample_count = AllCounts
  PROVE  Load(tmp_training_sample, 0, total_sample_count) = TakenByAll
<1> DEFINE K == 0 .. KeyRange - 1
           n == Len(TakenByAll)
           all == TakenByAll
           part == SubSeq(tmp_training_sample, 1, n)
<1>1. /\ tmp_training_sample \in Seq(K) /\ Len(tmp_training_sample) = 2 * INPUT_SZ + 1
      /\ \A t \in Trainers : \A i \in 1 .. sample_count[t] :
           tmp_training_sample[ShareSize * t + i] = Taken(t)[i]
  BY DEF ShareInv
<1>2. /\ all \in Seq(K) /\ n \in Nat /\ n <= Len(tmp_training_sample)
      /\ \A k \in 1 .. n : \E t \in Trainers : \E j \in 1 .. Len(Taken(t)) :
           k = ShareSize * t + j /\ all[k] = Taken(t)[j]
  BY <1>1, SharesLie
<1>3. ASSUME NEW k \in 1 .. n PROVE tmp_training_sample[k] = all[k]
  <2>1. PICK t \in Trainers : \E j \in 1 .. Len(Taken(t)) : k = ShareSize * t + j /\ all[k] = Taken(t)[j]
    BY <1>2
  <2>2. PICK j \in 1 .. Len(Taken(t)) : k = ShareSize * t + j /\ all[k] = Taken(t)[j]
    BY <2>1
  <2>3. sample_count[t] = Len(Taken(t))
    BY DEF AllCounts
  <2> QED BY <1>1, <2>2, <2>3
<1>4. total_sample_count = n
  BY TotalIs
<1>5. Load(tmp_training_sample, 0, total_sample_count) = part
  BY <1>2, <1>4 DEF Load
<1> HIDE DEF n, all, K
<1>6. part \in Seq(K) /\ Len(part) = n /\ \A k \in 1 .. n : part[k] = tmp_training_sample[k]
  BY <1>1, <1>2
<1>7. Len(all) = n
  BY DEF n, all
<1>8. part = all
  <2> HIDE DEF part
  <2>1. \A k \in 1 .. Len(part) : part[k] = all[k]
    BY <1>3, <1>6
  <2> QED BY <1>2, <1>6, <1>7, <2>1, SeqEqual
<1> QED BY <1>5, <1>8 DEF all

\* Equal keys train no model, and neither does the model then differ from the
\* one the constructor made.
LEMMA OneModel ==
  ASSUME InputInv, TrainerTypes, ShareInv, OneModelInv, SharesFit, sample_count = AllCounts,
         sample' = SortedKeys(Load(tmp_training_sample, 0, total_sample_count)),
         model' = ModelFrom(sample')
  PROVE  sample' = SortedKeys(TakenByAll) /\ model' = WholeModel
<1>1. total_sample_count = Len(TakenByAll) /\ total_sample_count # 0
  BY TotalIs
<1>2. sample' = SortedKeys(TakenByAll)
  BY WholeSample
<1> DEFINE s == SortedKeys(TakenByAll)
<1>3. WholeModel = IF s[1] = Last(s) THEN Untrained(hp) ELSE WholeModel
  BY DEF WholeModel, Trained
<1>4. model \in {Untrained(hp), WholeModel}
  BY DEF OneModelInv
<1>5. model' = IF s[1] = Last(s) THEN model ELSE Trained(s, total_sample_count, hp)
  BY <1>1, <1>2 DEF ModelFrom
<1>6. model' = IF s[1] = Last(s) THEN model ELSE WholeModel
  BY <1>1, <1>5 DEF WholeModel
<1> HIDE DEF s
<1> QED BY <1>2, <1>3, <1>4, <1>6 DEF s

LEMMA TrainTogetherKeeps ==
  ASSUME SampleTrainingInv, NEW t \in Trainers, TrainTogether(t)
  PROVE  SampleTrainingInv'
<1>1. /\ InputInv /\ TrainerTypes /\ PhaseInv /\ CountsInv /\ ShareInv /\ OneModelInv
  BY DEF SampleTrainingInv
<1>2. /\ Goes(t, "train", "wait_train")
      /\ UNCHANGED inputVars
      /\ UNCHANGED <<sample_count, sampling_ptr, tmp_training_sample, slopes>>
  BY DEF TrainTogether
<1>3. /\ trainPc[t] = "train"
      /\ \A u \in Trainers : trainPc'[u] = IF u = t THEN "wait_train" ELSE trainPc[u]
      /\ trainPc' \in [Trainers -> BetweenRuns \cup Sampling \cup Training]
  BY <1>1, <1>2, GoesTo DEF Training
<1>4. \A u \in Trainers : trainPc[u] \in Training /\ trainPc'[u] \in Training
  BY <1>1, <1>3, PhaseOf DEF Training
<1>5. sample_count = AllCounts
  <2>1. sample_count \in [Trainers -> Nat] /\ \A u \in Trainers : sample_count[u] = Len(Taken(u))
    BY <1>1, <1>4 DEF TrainerTypes, CountsInv
  <2> QED BY <2>1 DEF AllCounts
<1>6. TrainerTypes'
  BY <1>1, <1>2, <1>3 DEF TrainerTypes
<1>7. PhaseInv'
  BY <1>4 DEF PhaseInv
<1>8. CountsInv'
  <2>1. ASSUME NEW u \in Trainers
        PROVE  /\ sampling_ptr'[u] = FirstOf(u)'
               /\ trainPc'[u] # "sample"
               /\ sample_count'[u] <= Len(Taken(u)')
               /\ sample_count'[u] = Len(Taken(u)') /\ FirstOf(u)' \in Nat
    <3>1. FirstOf(u)' = FirstOf(u) /\ Taken(u)' = Taken(u) /\ FirstOf(u) \in Nat
      BY <1>1, <1>2, InputStays, Parts
    <3>2. trainPc[u] # "sample" /\ trainPc'[u] # "sample"
      BY <1>4 DEF Training
    <3>3. sampling_ptr[u] = FirstOf(u) + 0 /\ sample_count[u] = Len(Taken(u)) /\ sample_count[u] <= Len(Taken(u))
      BY <1>1, <1>4, <3>2 DEF CountsInv
    <3> QED BY <1>2, <3>1, <3>2, <3>3
  <2>2. trainPc'[0] \notin {"wait_init", "trained", "done"}
    BY <1>4, TrainersNat DEF Training
  <2> QED BY <2>1, <2>2 DEF CountsInv
<1>9. ShareInv'
  BY <1>1, <1>2, SharesStay
<1>10. OneModelInv'
  <2>1. trainPc[0] # "done" /\ trainPc'[0] # "done"
    BY <1>4, TrainersNat DEF Training
  <2>2. CASE t # 0
    <3>1. UNCHANGED <<sample, model>>
      BY <2>2 DEF TrainTogether
    <3>2. trainPc'[0] = trainPc[0]
      BY <1>3, <2>2, TrainersNat
    <3> QED BY <1>1, <1>2, <3>1, <3>2, ModelStays
  <2>3. CASE t = 0
    <3>1. /\ sample' = SortedKeys(Load(tmp_training_sample, 0, total_sample_count))
          /\ model' = ModelFrom(sample')
      BY <2>3 DEF TrainTogether
    <3>2. SharesFit => sample' = SortedKeys(TakenByAll) /\ model' = WholeModel
      BY <1>1, <1>5, <3>1, OneModel
    <3>3. slopes' = <<>>
      BY <1>1, <1>2, <2>1 DEF OneModelInv
    <3>4. SharesFit' = SharesFit /\ TakenByAll' = TakenByAll /\ WholeModel' = WholeModel
      BY <1>1, <1>2, InputStays
    <3> QED BY <2>1, <3>2, <3>3, <3>4 DEF OneModelInv
  <2> QED BY <2>2, <2>3
<1> QED BY <1>1, <1>2, <1>6, <1>7, <1>8, <1>9, <1>10, InputStays DEF SampleTrainingInv

LEMMA EndRunKeeps ==
  ASSUME SampleTrainingInv, NEW t \in Trainers, EndRun(t)
  PROVE  SampleTrainingInv'
<1> DEFINE last == trainRun[t] = TrainRuns
           to == IF last THEN "done" ELSE "init"
<1>1. /\ InputInv /\ TrainerTypes /\ PhaseInv /\ CountsInv /\ ShareInv /\ OneModelInv
  BY DEF SampleTrainingInv
<1>2. /\ Goes(t, "trained", to)
      /\ slopes' = IF t = 0 /\ last
                   THEN slopes \o [j \in 1 .. hp.arch |-> model.leaf[j - 1]] ELSE slopes
      /\ UNCHANGED inputVars
      /\ UNCHANGED <<sample, model, sample_count, sampling_ptr, tmp_training_sample>>
  BY DEF EndRun
<1>3. /\ trainPc[t] = "trained"
      /\ \A u \in Trainers : trainPc'[u] = IF u = t THEN to ELSE trainPc[u]
      /\ trainPc' \in [Trainers -> BetweenRuns \cup Sampling \cup Training]
  BY <1>1, <1>2, GoesTo DEF BetweenRuns
<1>4. \A u \in Trainers : trainPc[u] \in BetweenRuns /\ trainPc'[u] \in BetweenRuns
  BY <1>1, <1>3, PhaseOf DEF BetweenRuns
<1>5. TrainerTypes'
  BY <1>1, <1>2, <1>3 DEF TrainerTypes
<1>6. PhaseInv'
  BY <1>4 DEF PhaseInv
<1>7. CountsInv'
  <2>1. ASSUME NEW u \in Trainers
        PROVE  /\ sampling_ptr'[u] = FirstOf(u)' /\ FirstOf(u)' \in Nat
               /\ sample_count'[u] <= Len(Taken(u)')
               /\ trainPc'[u] # "sample" /\ trainPc'[u] \notin {"wait_sample"} \cup Training
    <3>1. trainPc'[u] # "sample" /\ trainPc[u] # "sample" /\ trainPc'[u] \notin {"wait_sample"} \cup Training
      BY <1>4 DEF BetweenRuns, Training
    <3>2. sampling_ptr[u] = FirstOf(u) + 0 /\ sample_count[u] <= Len(Taken(u))
      BY <1>1, <3>1 DEF CountsInv
    <3>3. FirstOf(u)' = FirstOf(u) /\ Taken(u)' = Taken(u) /\ FirstOf(u) \in Nat
      BY <1>1, <1>2, InputStays, Parts
    <3> QED BY <1>2, <3>1, <3>2, <3>3
  <2>2. trainPc'[0] = "wait_init" => sample_count' = ClearedCounts
    BY <1>1, <1>2, <1>3, TrainersNat DEF CountsInv
  <2>3. trainPc'[0] \in {"trained", "done"} => sample_count' = AllCounts'
    <3>1. trainPc'[0] \in {"trained", "done"} => trainPc[0] \in {"trained", "done"}
      BY <1>3, TrainersNat
    <3> QED BY <1>1, <1>2, <3>1, InputStays DEF CountsInv
  <2> QED BY <2>1, <2>2, <2>3 DEF CountsInv, ClearedCounts
<1>8. ShareInv'
  BY <1>1, <1>2, SharesStay
<1>9. OneModelInv'
  <2>1. CASE ~ (t = 0 /\ last)
    <3>1. /\ trainPc'[0] = "done" <=> trainPc[0] = "done"
          /\ trainPc'[0] \in {"wait_train", "trained"} => trainPc[0] \in {"wait_train", "trained", "done"}
      BY <1>3, <2>1, TrainersNat
    <3> QED BY <1>1, <1>2, <2>1, <3>1, ModelStays
  <2>2. CASE t = 0 /\ last
    <3>1. trainPc[0] = "trained" /\ trainPc'[0] = "done"
      BY <1>3, <2>2, TrainersNat
    <3>2. slopes = <<>>
      BY <1>1, <3>1 DEF OneModelInv
    <3>3. hp.arch \in Nat
      BY <1>1 DEF InputInv, ParamType
    <3> DEFINE leaves == [j \in 1 .. hp.arch |-> model.leaf[j - 1]]
               L == {model.leaf[j - 1] : j \in 1 .. hp.arch}
    <3>4. leaves \in Seq(L)
      <4>1. \A j \in 1 .. hp.arch : model.leaf[j - 1] \in L
        OBVIOUS
      <4> HIDE DEF L
      <4> QED BY <3>3, <4>1, SeqDef
    <3>5. slopes' = <<>> \o leaves
      BY <1>2, <2>2, <3>2
    <3> HIDE DEF leaves, L
    <3>6. slopes' = leaves
      BY <3>4, <3>5, ConcatEmptySeq
    <3>7. /\ SharesFit' = SharesFit /\ TakenByAll' = TakenByAll /\ hp' = hp /\ WholeModel' = WholeModel
          /\ Untrained(hp)' = Untrained(hp)
      BY <1>1, <1>2, InputStays
    <3>8. slopes' = [j \in 1 .. hp'.arch |-> model'.leaf[j - 1]]
      BY <1>2, <3>6, <3>7 DEF leaves
    <3> QED BY <1>1, <1>2, <3>1, <3>7, <3>8 DEF OneModelInv
  <2> QED BY <2>1, <2>2
<1> QED BY <1>1, <1>2, <1>5, <1>6, <1>7, <1>8, <1>9, InputStays DEF SampleTrainingInv

LEMMA SampleStutters ==
  ASSUME SampleTrainingInv, UNCHANGED sampleVars
  PROVE  SampleTrainingInv'
<1>1. /\ InputInv /\ TrainerTypes /\ PhaseInv /\ CountsInv /\ ShareInv /\ OneModelInv
  BY DEF SampleTrainingInv
<1>2. /\ UNCHANGED inputVars
      /\ UNCHANGED <<trainPc, sample, model, sample_count, sampling_ptr, tmp_training_sample, slopes>>
  BY DEF sampleVars, trainerVars
<1>3. TrainerTypes' /\ PhaseInv'
  BY <1>1, <1>2 DEF TrainerTypes, PhaseInv
<1>4. CountsInv'
  <2>1. /\ SampleOffset' = SampleOffset /\ AllCounts' = AllCounts
        /\ \A u \in Trainers : FirstOf(u)' = FirstOf(u) /\ Taken(u)' = Taken(u)
    BY <1>1, <1>2, InputStays
  <2> QED BY <1>1, <1>2, <2>1 DEF CountsInv, ClearedCounts
<1>5. ShareInv'
  BY <1>1, <1>2, SharesStay
<1>6. OneModelInv'
  BY <1>1, <1>2, ModelStays
<1> QED BY <1>1, <1>2, <1>3, <1>4, <1>5, <1>6, InputStays DEF SampleTrainingInv

LEMMA ValidatedType ==
  ASSUME NEW p \in ParamType, NEW n \in Nat
  PROVE  Validated(p, n) \in ParamType
BY KeyModelAssumption DEF Validated, ParamType

LEMMA SampleInitInv == SampleInit => SampleTrainingInv
<1> SUFFICES ASSUME SampleInit PROVE SampleTrainingInv
  OBVIOUS
<1>1. InputInv
  <2>1. keys \in Seq(0 .. KeyRange - 1) /\ keys # <<>>
    BY SampleTrainingAssumption DEF SampleInit
  <2>2. PICK p \in SortMergeParams : hp = Validated(p, Len(keys))
    BY DEF SampleInit
  <2>3. p \in ParamType /\ Len(keys) \in Nat
    BY <2>1, KeyModelAssumption
  <2> QED BY <2>1, <2>2, <2>3, ValidatedType DEF InputInv
<1>2. /\ trainPc = [t \in Trainers |-> "init"] /\ sample_count = [t \in Trainers |-> 0]
      /\ sampling_ptr = [t \in Trainers |-> FirstOf(t)] /\ slopes = <<>> /\ model = Untrained(hp)
  BY DEF SampleInit
<1>3. \A t \in Trainers : FirstOf(t) \in Nat /\ Len(Taken(t)) \in Nat
  BY <1>1, Parts, TakenFacts
<1>4. TrainerTypes
  BY <1>2, <1>3 DEF TrainerTypes, BetweenRuns
<1>5. PhaseInv
  BY <1>2 DEF PhaseInv, BetweenRuns
<1>6. CountsInv
  <2>1. ASSUME NEW u \in Trainers
        PROVE  /\ sampling_ptr[u] = FirstOf(u) + 0 /\ sample_count[u] <= Len(Taken(u))
               /\ trainPc[u] # "sample" /\ trainPc[u] \notin {"wait_sample"} \cup Training
    BY <1>2, <1>3 DEF Training
  <2>2. trainPc[0] = "init"
    BY <1>2, TrainersNat
  <2> QED BY <2>1, <2>2 DEF CountsInv
<1>7. ShareInv
  <2>1. PICK left \in Leftovers : tmp_training_sample = [i \in 1 .. 2 * INPUT_SZ + 1 |-> left]
    BY DEF SampleInit
  <2>2. left \in 0 .. KeyRange - 1 /\ INPUT_SZ \in Nat
    BY <1>1, SampleTrainingAssumption, SampleSizes
  <2>3. tmp_training_sample \in Seq(0 .. KeyRange - 1) /\ Len(tmp_training_sample) = 2 * INPUT_SZ + 1
    BY <2>1, <2>2
  <2>4. \A t \in Trainers : 1 .. sample_count[t] = {}
    BY <1>2
  <2> QED BY <2>3, <2>4 DEF ShareInv
<1>8. OneModelInv
  <2>1. trainPc[0] = "init"
    BY <1>2, TrainersNat
  <2> QED BY <1>2, <2>1 DEF OneModelInv
<1> QED BY <1>1, <1>4, <1>5, <1>6, <1>7, <1>8 DEF SampleTrainingInv

LEMMA SampleNextInv ==
  SampleTrainingInv /\ [SampleNext]_sampleVars => SampleTrainingInv'
<1> SUFFICES ASSUME SampleTrainingInv, [SampleNext]_sampleVars PROVE SampleTrainingInv'
  OBVIOUS
<1>1. CASE Barriers
  BY <1>1, BarrierKeeps
<1>2. ASSUME NEW t \in Trainers, BeginRun(t) PROVE SampleTrainingInv'
  BY <1>2, BeginRunKeeps
<1>3. ASSUME NEW t \in Trainers, TakeSample(t) PROVE SampleTrainingInv'
  BY <1>3, TakeSampleKeeps
<1>4. ASSUME NEW t \in Trainers, EndSample(t) PROVE SampleTrainingInv'
  BY <1>4, EndSampleKeeps
<1>5. ASSUME NEW t \in Trainers, TrainTogether(t) PROVE SampleTrainingInv'
  BY <1>5, TrainTogetherKeeps
<1>6. ASSUME NEW t \in Trainers, EndRun(t) PROVE SampleTrainingInv'
  BY <1>6, EndRunKeeps
<1>7. CASE UNCHANGED sampleVars
  BY <1>7, SampleStutters
<1> QED BY <1>1, <1>2, <1>3, <1>4, <1>5, <1>6, <1>7 DEF SampleNext

LEMMA SampleInvComplete == SampleTrainingInv => SampleComplete
<1> SUFFICES ASSUME SampleTrainingInv PROVE SampleComplete
  OBVIOUS
<1>1. /\ InputInv /\ TrainerTypes /\ CountsInv /\ OneModelInv
  BY DEF SampleTrainingInv
<1>2. ASSUME trainPc[0] \in {"wait_train", "trained", "done"}
      PROVE  sample_count = [t \in Trainers |-> Len(Taken(t))]
  <2>1. CASE trainPc[0] = "wait_train"
    <3>1. \A u \in Trainers : trainPc[u] \in Training
      BY <2>1, PhaseOf, TrainersNat DEF SampleTrainingInv, Training
    <3>2. sample_count \in [Trainers -> Nat] /\ \A u \in Trainers : sample_count[u] = Len(Taken(u))
      BY <1>1, <3>1 DEF TrainerTypes, CountsInv
    <3> QED BY <3>2
  <2>2. CASE trainPc[0] \in {"trained", "done"}
    BY <1>1, <2>2 DEF CountsInv, AllCounts
  <2> QED BY <1>2, <2>1, <2>2
<1> QED BY <1>1, <1>2 DEF OneModelInv, WholeModel, SampleComplete

\* hashing_runner.cpp: whatever the order of the threads, the relation, the
\* parameters and the number of threads and runs, the threads count all their
\* tuples, and where the parts fill their shares the models are those of the
\* whole sample.
THEOREM AlwaysSampleComplete == SampleSpec => []SampleComplete
<1>1. SampleInit => SampleTrainingInv
  BY SampleInitInv
<1>2. SampleTrainingInv /\ [SampleNext]_sampleVars => SampleTrainingInv'
  BY SampleNextInv
<1>3. SampleTrainingInv => SampleComplete
  BY SampleInvComplete
<1> QED BY <1>1, <1>2, <1>3, PTL DEF SampleSpec
=============================================================================
