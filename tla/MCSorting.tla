----------------------------- MODULE MCSorting ------------------------------
(***************************************************************************)
(* The sorting procedures and the builders of the learned models, one call *)
(* of one of them per behaviour.                                           *)
(***************************************************************************)
EXTENDS AvxSort, MultiwayMerge, LearnedSort, SortMerge, SampleTraining, LearnedModels,
        Relations

sortingVars == <<sortVars, treeVars, learnVars, mergeVars, trainerVars, modelVars, relationVars>>

SortingInit ==
  \/ SortInit /\ TreeIdle /\ LearnIdle /\ MergeIdle /\ SampleIdle /\ ModelIdle /\ RelationIdle
  \/ SortIdle /\ TreeInit /\ LearnIdle /\ MergeIdle /\ SampleIdle /\ ModelIdle /\ RelationIdle
  \/ SortIdle /\ TreeIdle /\ LearnInit /\ MergeIdle /\ SampleIdle /\ ModelIdle /\ RelationIdle
  \/ SortIdle /\ TreeIdle /\ MergeInit /\ SampleIdle /\ ModelIdle /\ RelationIdle
  \/ SortIdle /\ TreeIdle /\ ArrayIdle /\ MergeIdle /\ SampleInit /\ ModelIdle /\ RelationIdle
  \/ SortIdle /\ TreeIdle /\ LearnIdle /\ MergeIdle /\ SampleIdle /\ ModelInit /\ RelationIdle
  \/ SortIdle /\ TreeIdle /\ LearnIdle /\ MergeIdle /\ SampleIdle /\ ModelIdle /\ RelationInit

SortingNext ==
  \/ SortNext /\ UNCHANGED <<treeVars, learnVars, mergeVars, trainerVars, modelVars, relationVars>>
  \/ TreeNext /\ UNCHANGED <<sortVars, learnVars, mergeVars, trainerVars, modelVars, relationVars>>
  \/ LearnNext /\ UNCHANGED <<sortVars, treeVars, mergeVars, trainerVars, modelVars, relationVars>>
  \/ MergeNext /\ UNCHANGED <<sortVars, treeVars, trainerVars, modelVars, relationVars>>
  \/ SampleNext /\ UNCHANGED <<sortVars, treeVars, arrayVars, mergeVars, modelVars, relationVars>>
  \/ ModelNext /\ UNCHANGED <<sortVars, treeVars, learnVars, mergeVars, trainerVars, relationVars>>
  \/ RelationNext /\ UNCHANGED <<sortVars, treeVars, learnVars, mergeVars, trainerVars, modelVars>>

Returned == \/ "done" \in {sortPc, treePc, learnPc, mergePc, modelPc, relPc}
            \/ \A t \in Trainers : trainPc[t] = "done"

\* The calling thread runs on: a call that has not returned takes a step, and
\* so do the threads that sample, of which each has finitely many steps to
\* take.  This is WF_sortingVars(SortingNext), as SortingNext is
\* enabled until the call returns or can never return.
SortingFairness == []<>Returned \/ []<>ScansForever \/ []<><<SortingNext>>_sortingVars

SortingSpec == SortingInit /\ [][SortingNext]_sortingVars /\ SortingFairness

\* Every call returns: the rounds of merges come to an end, and the loop of
\* the multi-way merge does not go on while every node waits for another.
\* Only the scan of a relation's file without a line goes on for ever.
SortEnds == <>(Returned \/ ScansForever)

-----------------------------------------------------------------------------
\* learned_sort.h:1041-1042: sort "Sorts a sequence of numerical keys from
\* [begin, end) using Learned Sort, in ascending order"; line 122 calls it a
\* "Drop-in replacement for std::sort()".
LearnedAscending == learnPc = "done" => data = SortedKeys(data)

\* multi_map.h:12 and :30: "A drop-in replacement for std::multimap" with
\* "Lookup functions, like in std::multimap": find finds every key there is.
MultiMapFinds ==
  modelPc = "done" /\ second_level_models = <<>> =>
    \A i \in 1 .. num_keys : find(keysToLearn[i]) < num_keys

-----------------------------------------------------------------------------
\* Sizes below, at and above the sizes of a chunk and of a register.
MCSortInputs ==
  {[i \in 1 .. n |-> (i * a + c) % 257] :
     n \in {0, 5, 70, 136, 230, 256, 300, 486, 747}, a \in {1, 100}, c \in {0, 13}}

\* nb blocks of 7 items, the last one shorter: in order, in falling order,
\* interleaved, all equal, or the first half before the second one.
MultiwayItem(shape, nb, b, i) ==
  CASE shape = "sorted" -> b * 10 + i
    [] shape = "falling" -> (nb - b) * 10 + i
    [] shape = "mixed" -> i * 10 + b
    [] shape = "equal" -> 1
    [] shape = "half" -> ((2 * b) \div nb) * 100 + i * 10 + b

MultiwayBlocks(counts) ==
  {[b \in 1 .. nb |-> [i \in 1 .. IF b = nb THEN last ELSE 7 |-> MultiwayItem(shape, nb, b, i)]] :
     nb \in counts, last \in {1, 4, 7},
     shape \in {"sorted", "falling", "mixed", "equal", "half"}}

MCMultiwayInputs == MultiwayBlocks(6 .. 9)
FanInFour == MultiwayBlocks(4 .. 5)

\* Distinct keys, repeated keys, and few keys of which some are frequent; and
\* a smallest key that is alone in its leaf model and there twice.
MCLearnedInputs ==
  {[i \in 1 .. n |-> (i * a + c) % k] :
     n \in {12, 20, 24}, a \in {1, 7, 11, 30}, c \in {0, 3}, k \in {3, 9, 31, 64}}
  \cup {[i \in 1 .. n |-> few[1 + ((i * a + (i * i) \div 5) % Len(few))]] :
     n \in {20, 24, 30}, a \in {1, 2, 3},
     few \in {<<1, 5, 9>>, <<1, 1, 9, 5, 9>>, <<0, 0, 0, 5, 9>>, <<2, 8, 8, 8, 8, 9, 9, 9>>,
              <<4, 4, 4>>, <<1, 3, 3, 20, 20, 21>>}}
  \cup {[i \in 1 .. n |-> IF i <= 2 THEN 1 ELSE 30 + ((i * a) % 31)] : n \in {22, 24}, a \in {1, 4}}

Params(batch, fanout, threshold, arch, overallocation, rate) ==
  [batch_sz |-> batch, fanout |-> fanout, threshold |-> threshold, arch |-> arch,
   overallocation_ratio |-> overallocation, sampling_rate |-> rate]
MCHyperParams ==
  {Params(2, 3, 3, 3, 110, 50), Params(3, 2, 3, 4, 110, 100), Params(30, 30, 1, 3, 0, 0)}
MCDefaultParams == Params(2, 3, 2, 3, 110, 50)

\* Pairs of relations: with distinct keys, with keys that are frequent in one
\* or in both of them, and with equal keys only.
SpreadRelation(n, a, c) == [i \in 1 .. n |-> (i * a + c) % 64]
FrequentRelation(n, a, few) == [i \in 1 .. n |-> few[1 + ((i * a + (i * i) \div 5) % Len(few))]]
MCRelationPairs ==
  {<<SpreadRelation(14, a, 3), SpreadRelation(12, 5, c)>> : a \in {1, 11, 23}, c \in {0, 40}}
  \cup {<<FrequentRelation(16, a, few), SpreadRelation(12, 13, 7)>> :
           a \in {1, 2}, few \in {<<1, 5, 9, 5, 40>>, <<2, 8, 8, 8, 50>>, <<4, 4, 4>>}}
MCSortMergeParams == {Params(2, 2, 2, 3, 110, 50), Params(3, 3, 2, 4, 160, 100)}

Build(two, is_R, imv, prefetch, zero, avx, counted) ==
  [two |-> two, is_R |-> is_R, imv |-> imv, prefetch |-> prefetch, zero |-> zero,
   avx |-> avx, counted |-> counted]
MCBuilds ==
  {Build(two, is_R, FALSE, FALSE, FALSE, avx, TRUE) :
     two \in BOOLEAN, is_R \in BOOLEAN, avx \in BOOLEAN}
  \cup {Build(TRUE, is_R, TRUE, prefetch, zero, TRUE, TRUE) :
           is_R \in BOOLEAN, prefetch \in BOOLEAN, zero \in BOOLEAN}
  \cup {Build(TRUE, is_R, FALSE, FALSE, FALSE, TRUE, FALSE) : is_R \in BOOLEAN}
MCZeroLane == [key |-> 0, idx |-> 0]

\* Lengths at which the threads fill their shares, leave gaps in them or
\* write beyond them; and equal keys only.
MCTrainRelations ==
  {SpreadRelation(n, 11, 3) : n \in {2, 5, 8, 9, 12, 14}} \cup {FrequentRelation(10, 1, <<4, 4>>)}

\* Samples in order: spread evenly or in clusters, with many equal keys, with
\* a last key far behind the others, and with many copies of the last key.
InOrder(s) == SortSeq(s, <)
MCSamples ==
  {InOrder([i \in 1 .. n |-> 1 + ((i * a * i + c) % md)]) :
     n \in {4, 9, 16}, a \in {1, 3, 7}, c \in {0, 5}, md \in {17, 40, 97}}
  \cup {InOrder([i \in 1 .. n |-> IF i < n \div 2 THEN 3 + (i \div 3) ELSE i * i]) :
           n \in {6, 10, 14}}
  \cup {[i \in 1 .. n |-> IF i = n THEN 200 ELSE 5 + (i \div 4)] : n \in {6, 10, 14}}
  \cup {[i \in 1 .. n |-> IF i < few THEN a * i ELSE a * few] :
           n \in {9, 18}, few \in {3, 5, 8}, a \in {1, 4}}
=============================================================================
