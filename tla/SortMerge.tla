----------------------------- MODULE SortMerge ------------------------------
(***************************************************************************)
(* learned_sort_for_sort_merge.h: the learned sort taken apart for a       *)
(* sort-merge join.  A model is trained on one or on both relations, one   *)
(* relation is partitioned by it, and sort_avx sorts one partition after   *)
(* the other into its part of the output.  The join that calls these       *)
(* functions is not in the repository: here it gives every partition as    *)
(* much room as the histogram says, and passes on the counts it is given.  *)
(*                                                                         *)
(* A tuple is its key; its 64-bit item has the payload in the high half,   *)
(* which data_generation.h makes the key again, or 0.                      *)
(***************************************************************************)
EXTENDS LearnedSort

CONSTANTS
  RelationPairs,    \* the pairs <<R, S>> of relations
  Builds,           \* what is compiled and what is called, see below
  VectorScale, StateSize, ZeroLane  \* see Lanes and JoinVector

IMV == INSTANCE JoinVector

ASSUME SortMergeAssumption ==
  /\ \A pair \in RelationPairs : \A s \in {pair[1], pair[2]} :
       s \in Seq(0 .. KeyRange - 1) /\ s # <<>> /\ Len(s) % ExcBatch = 0
  /\ Builds \subseteq
       [two : BOOLEAN,       \* the model is trained on both relations
        is_R : BOOLEAN,      \* R is sorted, or else S
        imv : BOOLEAN,       \* LS_FOR_SORT_MERGE_IMV_AVX_MINOR_BCKTS
        prefetch : BOOLEAN,  \* ..._PREFETCH_SLOPES_AND_INTERCEPTS_MINOR_BCKTS
        zero : BOOLEAN,      \* ZERO_PAYLOAD
        avx : BOOLEAN,       \* USE_AVXSORT_FOR_SORTING_MINOR_BCKTS
        counted : BOOLEAN]   \* the caller counts the repeated keys itself

VARIABLES
  mergePc,      \* the function, or the part of sort_avx, that comes next
  build,        \* a member of Builds
  relations,    \* <<R, S>>
  out_hist,     \* the histogram of the relation, by partition
  handed,       \* the totals of repeated keys sort_avx is called with
  minor_bckts,  \* the minor buckets of the partition
  vec           \* the vector states, see JoinVector

\* The variables of LearnedSort hold here what they hold there: keys the
\* relation, data the output, major_bckts the partitions one after the other.
mergeVars == <<mergePc, build, relations, out_hist, handed, minor_bckts, vec>>

LOCAL trainVars == <<hp, sample, model>>
LOCAL partitionVars == <<exceptions, major_bckt_sizes>>
LOCAL sortVars == <<num_tot_elms_in_bckts, spill_bucket, minor_bckts, vec>>
LOCAL callVars == <<build, relations, learnPc, keys, total_repeated_keys>>

Item(k) == IF build.zero THEN k ELSE k + KeyRange * k

partition == major_bckt_idx
FANOUT == hp.fanout

\* Where a partition begins, in out_partitions and in the output.
Offset(p) == FoldLeft(LAMBDA sum, i : sum + out_hist[i - 1], 0, [i \in 1 .. p |-> i])

-----------------------------------------------------------------------------
MergeIdle ==
  /\ mergePc = "idle" /\ build = CHOOSE b \in Builds : TRUE
  /\ relations = <<>> /\ out_hist = <<>> /\ handed = <<>> /\ minor_bckts = <<>> /\ vec = <<>>

MergeInit ==
  /\ mergePc = "train" /\ build \in Builds /\ relations \in RelationPairs
  /\ out_hist = <<>> /\ handed = <<>> /\ minor_bckts = <<>> /\ vec = <<>>
  /\ hp \in SortMergeParams /\ keys = relations[IF build.is_R THEN 1 ELSE 2]
  /\ sample = <<>> /\ model = <<>> /\ ArrayIdle

\* The model of the samples of two relations, sorted together.
TrainedOnTwo(samples, sizes, p) ==
  Trained(SortedKeys(samples[1] \o samples[2]), sizes[1] + sizes[2], p)

\* train on one relation, with parameters the caller has validated; `sample` is what rmi->training_sample points to.
TrainOnOne ==
  /\ mergePc = "train" /\ ~build.two
  /\ hp' = Validated(hp, INPUT_SZ)
  /\ sample' = Sampled(hp', keys)
  /\ model' = Trained(sample', SAMPLE_SZ(hp', INPUT_SZ), hp')
  /\ mergePc' = "histogram"
  /\ UNCHANGED <<callVars, data, out_hist, handed, partitionVars, major_bckts, major_bckt_idx,
                 sortVars>>

\* train on both: each sample is sorted for itself as well, for the repeated
\* keys of that relation.
TrainOnTwo ==
  /\ mergePc = "train" /\ build.two
  /\ hp' = Validated(hp, Len(relations[1]))
  /\ LET samples == [r \in 1 .. 2 |-> Sampled(hp', relations[r])]
         sizes == [r \in 1 .. 2 |-> SAMPLE_SZ(hp', Len(relations[r]))]
     IN  /\ model' = TrainedOnTwo(samples, sizes, hp')
         /\ sample' = samples[IF build.is_R THEN 1 ELSE 2]
  /\ mergePc' = "histogram"
  /\ UNCHANGED <<callVars, data, out_hist, handed, partitionVars, major_bckts, major_bckt_idx,
                 sortVars>>

\* histogram_and_get_max_capacity_for_major_buckets; the caller makes room.
Histogram ==
  /\ mergePc = "histogram"
  /\ out_hist' = [b \in 0 .. FANOUT - 1 |->
                    Len(SelectSeq(keys, LAMBDA k : MajorBucketOf(k) = b))]
  /\ major_bckts' = [i \in 1 .. INPUT_SZ |-> 0]
  /\ data' = [i \in 1 .. INPUT_SZ |-> 0]
  /\ mergePc' = "partition"
  /\ UNCHANGED <<callVars, trainVars, handed, partitionVars, major_bckt_idx, sortVars>>

\* partition_major_buckets, one key: counted, or stored in its partition.
PutInPartition(s, k) ==
  LET b == MajorBucketOf(k)
      same == {e \in DOMAIN s.exc[b] : s.exc[b][e].key = k}
  IN  IF same # {} THEN [s EXCEPT !.exc[b][Min(same)].count = @ + 1]
      ELSE [s EXCEPT !.parts = Store(@, Offset(b) + s.sizes[b], <<k>>), !.sizes[b] = @ + 1]

\* curr_out_total_repeated_keys_hist
Counted(exc) == FoldLeft(LAMBDA n, e : n + e.count, 0, exc)

\* out_total_repeated_keys_hist is the number of exceptions again, not that
\* of the keys that were found to be one.  The counts of the exceptions begin
\* at 0 because the caller's memory is assumed to be zeroed: the line that
\* resets them (934) is commented out.  FANOUT, THRESHOLD and BATCH_SZ are
\* static constants, which keep the values of the first call.
Partition ==
  /\ mergePc = "partition"
  /\ LET In(b) == SelectSeq(RepeatedKeys, LAMBDA k : MajorBucketOf(k) = b)
         s == FoldLeft(PutInPartition,
                       [exc |-> [b \in 0 .. FANOUT - 1 |->
                                   [e \in DOMAIN In(b) |-> [key |-> In(b)[e], count |-> 0]]],
                        parts |-> major_bckts, sizes |-> [b \in 0 .. FANOUT - 1 |-> 0]],
                       keys)
     IN  /\ exceptions' = s.exc /\ major_bckts' = s.parts /\ major_bckt_sizes' = s.sizes
         /\ handed' = [b \in 0 .. FANOUT - 1 |->
                         IF build.counted THEN Counted(s.exc[b]) ELSE Len(s.exc[b])]
  /\ mergePc' = "sort_avx"
  /\ UNCHANGED <<callVars, trainVars, data, out_hist, major_bckt_idx, sortVars>>

-----------------------------------------------------------------------------
(* sort_avx of one partition: its keys into the minor buckets.             *)

PartitionKeys(p) == Load(major_bckts, Offset(p), major_bckt_sizes[p])

EmptyBuckets == [b \in 0 .. NUM_MINOR_BCKT_PER_MAJOR_BCKT - 1 |-> <<>>]

\* Batch by batch, and the rest.
Batches ==
  /\ mergePc = "sort_avx" /\ ~build.imv
  /\ LET s == FoldLeft(PutMinor, [minor |-> EmptyBuckets, spill |-> <<>>],
                       PartitionKeys(partition))
     IN  minor_bckts' = s.minor /\ spill_bucket' = s.spill
  /\ mergePc' = "minors"
  /\ UNCHANGED <<callVars, trainVars, data, out_hist, handed, partitionVars, major_bckts,
                 major_bckt_idx, num_tot_elms_in_bckts, vec>>

StartVectors ==
  /\ mergePc = "sort_avx" /\ build.imv
  /\ minor_bckts' = EmptyBuckets /\ spill_bucket' = <<>>
  /\ vec' = IMV!ImvStart
  /\ mergePc' = "vectors"
  /\ UNCHANGED <<callVars, trainVars, data, out_hist, handed, partitionVars, major_bckts,
                 major_bckt_idx, num_tot_elms_in_bckts>>

LOCAL loopVars == <<callVars, trainVars, data, out_hist, handed, partitionVars, major_bckts,
                    major_bckt_idx, num_tot_elms_in_bckts>>

LOCAL num_keys_here == major_bckt_sizes[partition]

RetireState ==
  /\ mergePc = "vectors" /\ IMV!Retiring(vec, num_keys_here)
  /\ vec' = IMV!Retire(vec)
  /\ UNCHANGED <<mergePc, minor_bckts, spill_bucket>> /\ UNCHANGED loopVars

LeaveVectors ==
  /\ mergePc = "vectors" /\ IMV!Leaving(vec, num_keys_here)
  /\ mergePc' = "minors"
  /\ UNCHANGED <<vec, minor_bckts, spill_bucket>> /\ UNCHANGED loopVars

\* The switch: the state whose turn it is is in this stage.
LOCAL Turned == IMV!Turn(vec, num_keys_here, "scatter")
LOCAL InStage(stage) ==
  /\ mergePc = "vectors"
  /\ ~IMV!Retiring(vec, num_keys_here) /\ ~IMV!Leaving(vec, num_keys_here)
  /\ Turned.st[Turned.k].stage = stage
  /\ UNCHANGED mergePc /\ UNCHANGED loopVars

SkipState ==
  /\ InStage("done")
  /\ vec' = [Turned EXCEPT !.k = @ + 1]
  /\ UNCHANGED <<minor_bckts, spill_bucket>>

\* The whole 64-bit item is converted where the batches convert the key.
LOCAL MinorOfLeaf(leaf, k) ==
  Scaled(LeafCdf(leaf, Item(k)), TOT_NUM_MINOR_BCKTS,
         partition * NUM_MINOR_BCKT_PER_MAJOR_BCKT, NUM_MINOR_BCKT_PER_MAJOR_BCKT - 1)

\* case 1: pred_model_idx is the leaf model, and with nothing to prefetch the
\* minor bucket at once.
LoadState ==
  /\ InStage("load")
  /\ LET ks == PartitionKeys(partition)
         leaf(i) == LeafOf(model.root, Item(ks[i]))
         lanes == [i \in DOMAIN ks |->
                     [key |-> ks[i],
                      idx |-> IF build.prefetch THEN leaf(i) ELSE MinorOfLeaf(leaf(i), ks[i])]]
     IN  vec' = IMV!Load(Turned, num_keys_here, lanes,
                         IF build.prefetch THEN "predict" ELSE "scatter")
  /\ UNCHANGED <<minor_bckts, spill_bucket>>

\* case 0
PredictState ==
  /\ InStage("predict")
  /\ LET m == Turned
         Predicted(v) == [key |-> v.key, idx |-> MinorOfLeaf(v.idx, v.key)]
     IN  vec' = [m EXCEPT !.k = @ + 1, !.st[m.k].stage = "scatter",
                          !.st[m.k].lane = [i \in DOMAIN @ |-> IF i \in m.st[m.k].have
                                                               THEN Predicted(@[i]) ELSE @[i]]]
  /\ UNCHANGED <<minor_bckts, spill_bucket>>

\* Mutated form: lanes with the same minor bucket are all handled at once.
AllLanes(have, lane) == have

\* The lanes without a conflict with a lower one.
NoConflict(have, lane) == IMV!FirstOfEach(have, [i \in have |-> lane[i].idx])

\* All lanes of the mask at once: every one reads the size of its bucket, and
\* of two lanes that write the same place the higher one does.
ScatterLanes(s, mask, lane) ==
  LET fits == {i \in mask : Len(s.minor[lane[i].idx]) < hp.threshold}
      To(b) == {i \in fits : lane[i].idx = b}
      spilled == SetToSortSeq(mask \ fits, <)
  IN  [minor |-> [b \in DOMAIN s.minor |-> IF To(b) = {} THEN s.minor[b]
                                           ELSE Append(s.minor[b], lane[Max(To(b))].key)],
       spill |-> s.spill \o [i \in DOMAIN spilled |-> lane[spilled[i]].key]]

\* case 2: what conflicts waits for another turn of a state; in the residual
\* state it is put into the buckets one by one.
ScatterState ==
  /\ InStage("scatter")
  /\ LET m == Turned
         v == m.st[m.k]
         free == NoConflict(v.have, v.lane)
         rest == v.have \ free
         oneByOne == Cardinality(rest) = VectorScale \/ m.done >= StateSize
         scattered == ScatterLanes([minor |-> minor_bckts, spill |-> spill_bucket], free, v.lane)
         s == IF oneByOne
              THEN FoldLeft(LAMBDA t, i : ScatterLanes(t, {i}, v.lane), scattered,
                            SetToSortSeq(rest, <))
              ELSE scattered
     IN  /\ minor_bckts' = s.minor /\ spill_bucket' = s.spill
         /\ vec' = IF oneByOne
                   THEN [m EXCEPT !.st[m.k].have = {}, !.st[m.k].stage = "load"]
                   ELSE IMV!Continue(m, rest, "scatter", 1)

-----------------------------------------------------------------------------
(* sort_avx: the minor buckets, the spill bucket and the exceptions.       *)

\* Minor bucket after minor bucket is sorted behind the ones before: with
\* avxsort_tuples each for itself, or with the counting sort and a touch-up.
SortMinorBuckets ==
  /\ mergePc = "minors"
  /\ LET Compact(sorted, b) ==
           IF minor_bckts[b] = <<>> THEN sorted
           ELSE IF build.avx THEN sorted \o SortedKeys(minor_bckts[b])
           ELSE TouchUp(sorted, CountingSort(b, minor_bckts[b]))
         sorted == FoldLeft(Compact, <<>>, [i \in 1 .. NUM_MINOR_BCKT_PER_MAJOR_BCKT |-> i - 1])
     IN  /\ major_bckts' = Store(major_bckts, Offset(partition), sorted)
         /\ num_tot_elms_in_bckts' = Len(sorted)
  /\ mergePc' = "spill"
  /\ UNCHANGED <<callVars, trainVars, data, out_hist, handed, partitionVars, major_bckt_idx,
                 spill_bucket, minor_bckts, vec>>

\* The sorted spill bucket and the buckets are merged behind the place left
\* for the exceptions in sorted_output.
MergeSpilled ==
  /\ mergePc = "spill"
  /\ spill_bucket' = SortedKeys(spill_bucket)
  /\ LET n == num_tot_elms_in_bckts
         spilled == Len(spill_bucket)
         mem == Load(major_bckts, Offset(partition), n) \o spill_bucket'
                \o Load(data, Offset(partition), out_hist[partition])
         merged == avx_merge_int64(16, FALSE, mem, 0, n, n + spilled + handed[partition],
                                   n, spilled)
     IN  data' = Store(data, Offset(partition), Load(merged, n + spilled, out_hist[partition]))
  /\ mergePc' = "exceptions"
  /\ UNCHANGED <<callVars, trainVars, out_hist, handed, partitionVars, major_bckts,
                 major_bckt_idx, num_tot_elms_in_bckts, minor_bckts, vec>>

\* The exceptions are merged in, and the next partition is sorted.
PlaceRepeatedKeys ==
  /\ mergePc = "exceptions"
  /\ data' = Store(data, Offset(partition),
       PlaceBack([data |-> Load(data, Offset(partition), out_hist[partition]),
                  limit |-> major_bckt_sizes[partition] + handed[partition],
                  input_idx |-> handed[partition], ptr |-> 0, exc_idx |-> 1],
                 exceptions[partition]))
  /\ major_bckt_idx' = major_bckt_idx + 1
  /\ mergePc' = IF major_bckt_idx' = FANOUT THEN "done" ELSE "sort_avx"
  /\ UNCHANGED <<callVars, trainVars, out_hist, handed, partitionVars, major_bckts, sortVars>>

MergeNext ==
  \/ TrainOnOne \/ TrainOnTwo \/ Histogram \/ Partition
  \/ Batches \/ StartVectors \/ RetireState \/ LeaveVectors
  \/ SkipState \/ LoadState \/ PredictState \/ ScatterState
  \/ SortMinorBuckets \/ MergeSpilled \/ PlaceRepeatedKeys

-----------------------------------------------------------------------------
\* The keys of the vector states, and those not loaded yet.
LOCAL KeysInLanes ==
  FlattenSeq([i \in 1 .. StateSize + 1 |->
    LET have == SetToSortSeq(vec.st[i - 1].have, <)
    IN  [j \in DOMAIN have |-> vec.st[i - 1].lane[have[j]].key]])
LOCAL KeysToLoad == SubSeq(PartitionKeys(partition), vec.cur + 1, num_keys_here)

LOCAL MinorOf(k, p) ==
  LET predicted == IF build.imv THEN Item(k) ELSE k
  IN  Scaled(Cdf(predicted), TOT_NUM_MINOR_BCKTS, p * NUM_MINOR_BCKT_PER_MAJOR_BCKT,
             NUM_MINOR_BCKT_PER_MAJOR_BCKT - 1)

\* learned_sort_for_sort_merge.h: the histogram and the partitioning agree on
\* the room of every partition.  Between any two turns of the vector states
\* each key of the partition is in one minor bucket, lane or place of the
\* spill bucket.  A partition is sorted to the same keys if the exact number of
\* its repeated keys was handed on, and into order if, where no touch-up sorts
\* across the minor buckets, they were predicted in ascending order.
PartitionsSorted ==
  /\ mergePc \in {"sort_avx", "minors", "done"} =>
       \A p \in 0 .. FANOUT - 1 :
         major_bckt_sizes[p] + Counted(exceptions[p]) = out_hist[p]
  /\ mergePc = "vectors" =>
       SortedKeys(FlattenSeq([b \in 1 .. NUM_MINOR_BCKT_PER_MAJOR_BCKT |-> minor_bckts[b - 1]])
                  \o spill_bucket \o KeysInLanes \o KeysToLoad)
         = SortedKeys(PartitionKeys(partition))
  /\ mergePc \in {"sort_avx", "done"} =>
       \A p \in 0 .. partition - 1 :
         LET input == SelectSeq(keys, LAMBDA k : MajorBucketOf(k) = p)
             output == Load(data, Offset(p), out_hist[p])
             inMinorOrder ==
               \A i, j \in DOMAIN input : input[i] < input[j] => MinorOf(input[i], p) <= MinorOf(input[j], p)
         IN  handed[p] = Counted(exceptions[p]) =>
               /\ SortedKeys(output) = SortedKeys(input)
               /\ ~build.avx \/ inMinorOrder => output = SortedKeys(input)
=============================================================================
