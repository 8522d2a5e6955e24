---------------------------- MODULE LearnedSort -----------------------------
(***************************************************************************)
(* learned_sort.h: a model of the distribution of the keys (two layers of  *)
(* linear functions, trained on a sample) puts every key into a bucket;    *)
(* the buckets are sorted one after the other, what found no place in them *)
(* (the spill bucket) is sorted apart and merged in, and so are the keys   *)
(* the sample repeats most (the exceptions), which are only counted.       *)
(*                                                                         *)
(* A division by zero gives no number (NaN), and min(hi, NaN) is hi in the *)
(* code: a fraction with the denominator 0 is clamped to the upper bound.  *)
(***************************************************************************)
EXTENDS AvxMerge, KeyModel

CONSTANTS
  LearnedInputs,   \* the arrays of keys to sort
  HyperParams,     \* the parameters of a call: RMI::Params
  ExcThreshold,    \* EXC_CNT_THRESHOLD, 60: a key more frequent is an exception
  ExcBatch         \* BATCH_SZ_EXP, 100

\* With exceptions the code reads whole batches, beyond the end of an input
\* whose length is no multiple of ExcBatch.
ASSUME LearnedSortAssumption ==
  /\ \A s \in LearnedInputs : s \in Seq(Nat) /\ s # <<>> /\ Len(s) % ExcBatch = 0
  /\ HyperParams \subseteq ParamType
  /\ ExcThreshold \in Nat \ {0} /\ ExcBatch \in Nat \ {0}

VARIABLES
  learnPc,    \* the part of the sort that comes next
  data,       \* the array [begin, end)
  exceptions, \* for each bucket the exceptions predicted there and their counts
  total_repeated_keys,
  major_bckts, major_bckt_sizes,
  major_bckt_idx,
  num_tot_elms_in_bckts,
  spill_bucket

LOCAL bucketVars == <<exceptions, total_repeated_keys, major_bckts, major_bckt_sizes,
                      major_bckt_idx, num_tot_elms_in_bckts, spill_bucket>>
\* All but those of KeyModel: keys is the input of the call, hp its parameters.
arrayVars == <<learnPc, data, bucketVars>>
learnVars == <<keys, hp, sample, model, arrayVars>>

\* What leaf model j predicts for key k: its place among the keys as a fraction.
LeafCdf(j, k) ==
  LET l == model.leaf[j] IN [n |-> l.y * l.dx + l.dy * (k - l.x), d |-> l.dx * model.size]
Cdf(k) == LeafCdf(LeafOf(model.root, k), k)

\* cdf * scale - offset, between 0 and limit.
Scaled(cdf, scale, offset, limit) ==
  LET n == cdf.n * scale - offset * cdf.d
  IN  IF cdf.d = 0 THEN limit ELSE IF n <= 0 THEN 0 ELSE Smaller(limit, n \div cdf.d)

-----------------------------------------------------------------------------
LOCAL NoBuckets ==
  /\ exceptions = <<>> /\ total_repeated_keys = 0
  /\ major_bckts = <<>> /\ major_bckt_sizes = <<>> /\ major_bckt_idx = 0
  /\ num_tot_elms_in_bckts = 0 /\ spill_bucket = <<>>

\* Nothing is sorted.
ArrayIdle == learnPc = "idle" /\ data = <<>> /\ NoBuckets

LearnIdle == keys = <<>> /\ hp = DefaultParams /\ sample = <<>> /\ model = <<>> /\ ArrayIdle

LearnInit ==
  /\ learnPc = "sort"
  /\ keys \in LearnedInputs /\ data = keys /\ hp \in HyperParams
  /\ sample = <<>> /\ model = <<>> /\ NoBuckets

\* sort: small arrays go to std::sort.
SortSmall ==
  /\ learnPc = "sort"
  /\ INPUT_SZ <= Larger(hp.fanout * hp.threshold, 5 * hp.arch)
  /\ data' = SortedKeys(data)
  /\ learnPc' = "done"
  /\ UNCHANGED <<keys, hp, sample, model>> /\ UNCHANGED bucketVars

\* sort and train: a sample of equal keys trains no model, and std::sort sorts.
TrainModel ==
  /\ learnPc = "sort"
  /\ INPUT_SZ > Larger(hp.fanout * hp.threshold, 5 * hp.arch)
  /\ hp' = Validated(hp, INPUT_SZ)
  /\ sample' = Sampled(hp', keys)
  /\ IF sample'[1] = Last(sample')
     THEN data' = SortedKeys(data) /\ learnPc' = "done" /\ UNCHANGED model
     ELSE /\ model' = train(sample', SAMPLE_SZ(hp', INPUT_SZ), hp'.arch)
          /\ learnPc' = "detect"
          /\ UNCHANGED data
  /\ UNCHANGED keys /\ UNCHANGED bucketVars

-----------------------------------------------------------------------------
(* _sort_trained                                                           *)

\* BATCH_SZ, OA_RATIO, FANOUT and THRESHOLD (and NUM_LAYERS of train) are static
\* constants of functions: they keep the values of the first call of the
\* program.  Here there is one call, and hp are its parameters.
MAJOR_BCKT_CAPACITY == INPUT_SZ \div hp.fanout
NUM_MINOR_BCKT_PER_MAJOR_BCKT ==
  Larger(1, (MAJOR_BCKT_CAPACITY * hp.overallocation_ratio) \div (100 * hp.threshold))
TOT_NUM_MINOR_BCKTS == NUM_MINOR_BCKT_PER_MAJOR_BCKT * hp.fanout

MajorBucketOf(k) == Scaled(Cdf(k), hp.fanout, 0, hp.fanout - 1)
MinorBucketOf(k, major) ==
  Scaled(Cdf(k), TOT_NUM_MINOR_BCKTS, major * NUM_MINOR_BCKT_PER_MAJOR_BCKT,
         NUM_MINOR_BCKT_PER_MAJOR_BCKT - 1)

\* The keys that are in the sorted sample more than ExcThreshold times.
RepeatedKeys ==
  LET EndsRun(i) == i = Len(sample) \/ sample[i + 1] # sample[i]
      ends == SelectSeq([i \in DOMAIN sample |-> i],
                        LAMBDA i : EndsRun(i) /\ i > ExcThreshold
                                   /\ sample[i - ExcThreshold] = sample[i])
  IN  [e \in DOMAIN ends |-> sample[ends[e]]]

\* An exception is noted at the bucket the model predicts for it.
DetectRepeatedKeys ==
  /\ learnPc = "detect"
  /\ LET In(b) == SelectSeq(RepeatedKeys, LAMBDA k : MajorBucketOf(k) = b)
     IN  exceptions' = [b \in 0 .. hp.fanout - 1 |->
                          [e \in DOMAIN In(b) |-> [key |-> In(b)[e], count |-> 0]]]
  /\ major_bckts' = [i \in 1 .. INPUT_SZ + 1 |-> 0]
  /\ major_bckt_sizes' = [b \in 0 .. hp.fanout - 1 |-> 0]
  /\ learnPc' = "shuffle"
  /\ UNCHANGED <<keys, data, hp, sample, model, total_repeated_keys, major_bckt_idx,
                 num_tot_elms_in_bckts, spill_bucket>>

\* One key: counted, put into its bucket, or spilled if that is full.
PutMajor(s, k) ==
  LET b == MajorBucketOf(k)
      same == {e \in DOMAIN s.exc[b] : s.exc[b][e].key = k}
  IN  IF same # {}
      THEN [s EXCEPT !.exc[b][Min(same)].count = @ + 1, !.total = @ + 1]
      ELSE IF s.sizes[b] < MAJOR_BCKT_CAPACITY
      THEN [s EXCEPT !.bckts = Store(@, MAJOR_BCKT_CAPACITY * b + s.sizes[b], <<k>>),
                     !.sizes[b] = @ + 1]
      ELSE [s EXCEPT !.spill = Append(@, k)]

ShuffleKeys ==
  /\ learnPc = "shuffle"
  /\ LET s == FoldLeft(PutMajor,
                       [exc |-> exceptions, total |-> 0, bckts |-> major_bckts,
                        sizes |-> major_bckt_sizes, spill |-> spill_bucket], data)
     IN  /\ exceptions' = s.exc /\ total_repeated_keys' = s.total
         /\ major_bckts' = s.bckts /\ major_bckt_sizes' = s.sizes
         /\ spill_bucket' = s.spill
  /\ learnPc' = "bucket"
  /\ UNCHANGED <<keys, data, hp, sample, model, major_bckt_idx, num_tot_elms_in_bckts>>

\* The keys of a major bucket: whole batches, then the remaining ones.
BucketKeys(major) ==
  LET start == major * MAJOR_BCKT_CAPACITY
      num_batches == major_bckt_sizes[major] \div hp.batch_sz
      rest == num_batches * hp.batch_sz
  IN  FlattenSeq([b \in 1 .. num_batches |->
                    Load(major_bckts, start + (b - 1) * hp.batch_sz, hp.batch_sz)])
      \o Load(major_bckts, start + rest, major_bckt_sizes[major] - rest)

PutMinor(s, k) ==
  LET b == MinorBucketOf(k, major_bckt_idx)
  IN  IF Len(s.minor[b]) < hp.threshold THEN [s EXCEPT !.minor[b] = Append(@, k)]
      ELSE [s EXCEPT !.spill = Append(@, k)]

\* Model-based counting sort of minor bucket b: by the predicted place in it,
\* keys of the same place in reverse.  If the first and the last key have the
\* same leaf model it is used for all.
CountingSort(b, bucket) ==
  LET start == ((major_bckt_idx * NUM_MINOR_BCKT_PER_MAJOR_BCKT + b) * INPUT_SZ)
                 \div TOT_NUM_MINOR_BCKTS
      first == LeafOf(model.root, bucket[1])
      oneModel == first = LeafOf(model.root, Last(bucket))
      PlaceOf(k) == Scaled(IF oneModel THEN LeafCdf(first, k) ELSE Cdf(k),
                           INPUT_SZ, start, hp.threshold - 1)
  IN  FlattenSeq([i \in 1 .. hp.threshold |->
        Reverse(SelectSeq(bucket, LAMBDA k : PlaceOf(k) = i - 1))])

\* Mutated form: the insertion sort stops at the border of the bucket.
TouchUpInBucket(sorted, bucket) == sorted \o SortedKeys(bucket)

\* Touch-up: every key is inserted among all the keys before it.
TouchUp(sorted, bucket) ==
  LET Insert(s, k) == InsertAt(s, Max({0} \cup {i \in DOMAIN s : s[i] <= k}) + 1, k)
  IN  FoldLeft(Insert, sorted, bucket)

\* One major bucket is split into minor ones, which are sorted and moved
\* behind the keys sorted so far.
SortMajorBucket ==
  /\ learnPc = "bucket"
  /\ LET empty == [b \in 0 .. NUM_MINOR_BCKT_PER_MAJOR_BCKT - 1 |-> <<>>]
         s == FoldLeft(PutMinor, [minor |-> empty, spill |-> spill_bucket],
                       BucketKeys(major_bckt_idx))
         Compact(sorted, b) == IF s.minor[b] = <<>> THEN sorted
                               ELSE TouchUp(sorted, CountingSort(b, s.minor[b]))
         sorted == FoldLeft(Compact, Load(major_bckts, 0, num_tot_elms_in_bckts),
                            [i \in 1 .. NUM_MINOR_BCKT_PER_MAJOR_BCKT |-> i - 1])
     IN  /\ spill_bucket' = s.spill
         /\ major_bckts' = Store(major_bckts, 0, sorted)
         /\ num_tot_elms_in_bckts' = Len(sorted)
  /\ major_bckt_idx' = major_bckt_idx + 1
  /\ learnPc' = IF major_bckt_idx' = hp.fanout THEN "spill" ELSE "bucket"
  /\ UNCHANGED <<keys, data, hp, sample, model, exceptions, total_repeated_keys,
                 major_bckt_sizes>>

\* avxsort_int64 of the spill bucket.
SortSpillBucket ==
  /\ learnPc = "spill"
  /\ spill_bucket' = SortedKeys(spill_bucket)
  /\ learnPc' = "merge"
  /\ UNCHANGED <<keys, data, hp, sample, model, exceptions, total_repeated_keys, major_bckts,
                 major_bckt_sizes, major_bckt_idx, num_tot_elms_in_bckts>>

\* avx_merge_int64 of the buckets and the spill bucket into the array, behind
\* the place for the exceptions.
MergeSpillBucket ==
  /\ learnPc = "merge"
  /\ LET n == num_tot_elms_in_bckts
         spilled == Len(spill_bucket)
         mem == Load(major_bckts, 0, n) \o spill_bucket \o data
         merged == avx_merge_int64(16, FALSE, mem, 0, n, n + spilled + total_repeated_keys,
                                   n, spilled)
     IN  data' = Load(merged, n + spilled, INPUT_SZ)
  /\ learnPc' = "exceptions"
  /\ UNCHANGED <<keys, hp, sample, model>> /\ UNCHANGED bucketVars

\* linear_vals and linear_count: the exceptions in the order of their buckets.
LinearExceptions ==
  FlattenSeq([i \in 1 .. hp.fanout |-> exceptions[i - 1]])

\* One turn of the merge of the exceptions into the array, in place.
RECURSIVE PlaceBack(_, _)
PlaceBack(s, linear) ==
  IF s.input_idx < s.limit
     /\ (s.exc_idx > Len(linear) \/ s.data[s.input_idx + 1] < linear[s.exc_idx].key)
  THEN PlaceBack([s EXCEPT !.data = Store(@, s.ptr, <<s.data[s.input_idx + 1]>>),
                           !.ptr = @ + 1, !.input_idx = @ + 1], linear)
  ELSE IF s.exc_idx <= Len(linear)
  THEN LET e == linear[s.exc_idx]
       IN  PlaceBack([s EXCEPT !.data = Store(@, s.ptr, [i \in 1 .. e.count |-> e.key]),
                               !.ptr = @ + e.count, !.exc_idx = @ + 1], linear)
  ELSE s.data

PlaceExceptions ==
  /\ learnPc = "exceptions"
  /\ data' = PlaceBack([data |-> data, limit |-> INPUT_SZ, input_idx |-> total_repeated_keys,
                        ptr |-> 0, exc_idx |-> 1], LinearExceptions)
  /\ learnPc' = "done"
  /\ UNCHANGED <<keys, hp, sample, model>> /\ UNCHANGED bucketVars

LearnNext ==
  \/ SortSmall \/ TrainModel \/ DetectRepeatedKeys \/ ShuffleKeys
  \/ SortMajorBucket \/ SortSpillBucket \/ MergeSpillBucket \/ PlaceExceptions

-----------------------------------------------------------------------------
LOCAL SameKeys(s) == SortedKeys(s) = SortedKeys(keys)

LOCAL CountedKeys ==
  FlattenSeq([i \in DOMAIN LinearExceptions |->
    [j \in 1 .. LinearExceptions[i].count |-> LinearExceptions[i].key]])

\* The keys of the buckets still to be sorted.
LOCAL UnsortedKeys ==
  FlattenSeq([i \in 1 .. hp.fanout - major_bckt_idx |-> BucketKeys(major_bckt_idx + i - 1)])

\* The first leaf model has two different keys to take its slope from.  If all
\* of its training keys are equal the slope is infinite, and what it predicts
\* for that key is the last bucket.
LOCAL FirstLeafRises == model = <<>> \/ model.leaf[0].dx # 0

LOCAL Repeated(k) == \E i \in DOMAIN LinearExceptions : LinearExceptions[i].key = k

\* learned_sort.h: no key is lost and none is there twice, although the
\* sorted buckets are moved over the unsorted ones and the exceptions into
\* the array they are merged with; what is sorted so far is in order however
\* wrong the predictions are.  At the end the array holds its keys, those that
\* are no exceptions are in order among themselves, and all of them are if the
\* first leaf model has a slope: nothing sorts the exceptions again, which are
\* in the order of the buckets predicted for them (LearnedAscending of
\* MCSorting is what the documentation promises).
LearnedSorted ==
  /\ learnPc \in {"bucket", "spill", "merge"} =>
       LET sorted == Load(major_bckts, 0, num_tot_elms_in_bckts)
       IN  /\ sorted = SortedKeys(sorted)
           /\ SameKeys(sorted \o UnsortedKeys \o spill_bucket \o CountedKeys)
  /\ learnPc = "done" =>
       LET others == IF exceptions = <<>> THEN data
                     ELSE SelectSeq(data, LAMBDA k : ~Repeated(k))
       IN  /\ SameKeys(data)
           /\ others = SortedKeys(others)
           /\ FirstLeafRises => data = SortedKeys(data)
=============================================================================
