# A verification model of the hashing benchmark suite

The repository compares classical hash functions with learned ones: hash
tables and reductions, learned models (RMI, PGM, RadixSpline), drivers that
measure collisions, throughput and table operations over datasets, and a
multi-threaded hash join. This directory holds TLA+ modules for the parts of
it that have state, the TLC instances that check them, and TLAPS proofs.

Paths below are relative to the repository root.

## 1. Inventory

| component | source | state | operations | hard behaviour |
|---|---|---|---|---|
| Probing table | `hashtable/include/probing.hpp:54-238` | buckets of slots | insert, lookup, clear | a walk decides at run time that it is back at its start; presence depends on what every earlier insert stepped over |
| Robin Hood table | `probing.hpp:247-453` | buckets of slots with a probe length | same | an insert changes the key it is inserting; it may throw after it has moved entries |
| Cuckoo table | `hashtable/include/cuckoo.hpp` | buckets of slots, generator | same | chains of kicks with a bound, an insert that throws has lost an entry |
| Chained table | `hashtable/include/chained.hpp` | first-level slots, linked buckets | same | two places a key can be in |
| Reductions, hash functions | `reduction/reduction.hpp`, `hashing/include` | none | hash, reduce | machine arithmetic |
| Semaphore | `convenience/include/semaphore.hpp` | counter, waiting threads | aquire, release | lost wakeups, spurious wakeups, newcomers overtaking |
| Worker pool | `src/collisions_hash.cpp` (`collisions_learned.cpp`, `throughput_*.cpp` repeat it) | threads, loop position | spawn, join, measure | threads share the file and permits; a load may throw while threads run |
| Result file | `src/include/csv.hpp` | file, index of rows read at the start | constructor, write, exists | stops inside a row, a second start on what is left |
| Hashtable drivers | `src/hashtable_*.cpp`, `src/include/benchmark.hpp` | as above | measure | a row is written for a failed measurement too |
| Datasets, arguments | `src/include/{dataset,args}.hpp` | none | load, parse | file sizes |
| Learned models | `learned_models/include/{rmi,pgm,rs}.hpp`, `learned_models/rs` | spline, corridor, radix table, two levels of lines | build, predict | boundary keys, equal keys, shifts by the word size |
| Hash join | `learned_models/learned_imv_threaded_hashing/src/runners/hashing_runner.cpp` | shared buckets, latches, overflow buffers, vector states | build and probe functions, phases of `hash_thread`, sampling | threads and vector lanes in the same bucket, phases kept apart by barriers |
| Relations | `learned_imv_threaded_hashing/include/utils/{data_generation,io}.h` | arrays of tuples, files | generate, shuffle, write, load, localize | short files, files without a tuple, parts of threads |
| AVX merge sort | `utils/eth_avx_sort/avxsort*.h`, `utils/eth_avx_merge/merge.h` | two arrays, chunks in either of them | sort a chunk, a remainder, merge | output of a merge over the input of the next; numbers of rounds |
| Multi-way merge | `utils/eth_avx_merge/*multiwaymerge.h`, `avxsort_multiway.h` | tree of ring buffers | merge, flush, copy, read | rings that wrap or are full, nodes waiting for each other |
| Learned sort | `utils/learned_sort.h`, `learned_sort_for_sort_merge.h` | model, buckets, spill bucket, exceptions | train, sort, histogram, partition, sort a partition | repeated keys, empty models, lanes with the same bucket |
| Barrier, lock, task queue | `utils/{barrier,lock,eth_generic_task_queue}.h` | counters, list | wait, lock, add, get | the queue is used nowhere, the home-made barrier is compiled out |
| Vendored code | `thirdparty`, `hashing/external`, `3rdparty` | - | - | not this project's logic |

How they interact: a driver's `main` builds the result file and the semaphore,
starts a thread per dataset and load factor, and joins them; each thread waits
for a permit, measures, and writes rows under the file's mutex. The hashtable
drivers build a table per measurement, call insert until it throws or all keys
are in, look all keys up and clear. A table calls its hash function, its
reduction and (open addressing) its probing function or (Cuckoo) its kicking
function; nothing calls back. The join has its own buckets: `main` starts the
threads, which sample the relation and train the first models if the learned
variants are compiled in, build one shared table between two barriers as often
as there are build functions and repetitions, and probe the last one. The
sorting procedures are called by nothing but each other: the sort-merge join
they were taken over for is not in the repository.

What makes each one correct:

* tables: every call is an atomic operation on a map from keys to payloads,
  with the differences the doc comments state (first or last insert wins, what
  a throw may lose); the slot layout keeps every key reachable; every call ends.
* pool and semaphore: permits are neither lost nor made, no wakeup is lost,
  every run comes to its end.
* result file: over any stops and starts no measurement is in it twice, and a
  run that ends well has left none out.
* join: every tuple of R is in exactly one slot after the build, whatever the
  interleaving of threads (with the latch) or lanes (in one thread), a probe
  counts every match once, and no thread sees the table of another repetition.
* sampling: the counts the models are trained with are those of this run.
* relations: each key as often as promised, moved by the shuffle, and loaded
  again as it was written.
* sorts: the output is the input in order; nothing is lost between two steps.
* learned sort: the same, in spite of any prediction.
* models: the position of every key of the sample lies inside the search bound.

## 2. Modules and how they correspond to the code

**`HashMap`** is the abstract promise: `map` from keys to payloads or `Absent`,
and `ret`, the last call that ended. `Overwrite` says whether inserting a
present key replaces (Cuckoo) or is refused (Probing, Robin Hood), `LossyThrow`
whether a throwing insert may have taken its key in and lost another. It is
refined by the three open tables.

**`ProbingFuncs`**: `LinearProbingFunc` and `QuadraticProbingFunc`
(`probing.hpp:11-45`) and `probingfn`, the one a table is instantiated with.

**`Probing`** (`probing.hpp:54-238`). `buckets` is the directory, `call` the
locals of the insert or lookup under way (`slot_index`, `probing_step`, the
inner loop's `i`), `ret` the last outcome, `home` the composition of hash
function and reduction, any function of the keys into the directory. Each loop
iteration is a step: `InsertEmpty`, `InsertExisting`, `LookupHit`,
`LookupMiss`, `NextSlot` in the inner loop, `NextBucket` and `WayExhausted`
after it. `Clear` resets the keys and keeps the payloads, as the code does.

**`RobinHood`** (`probing.hpp:247-453`) adds the probe length `psl` of each slot
and `orig_key` to the call. `Displace` is the swap with a richer entry,
`LoopDetected` the throw when the richer entry is found for a key already
displaced once, the rest is as above.

**`Cuckoo`** (`cuckoo.hpp:123-277`). One step per round of the `start:` label:
`Update` of a present key, `Place` into room found by the kicking function,
`Kick` out a victim and go round again, `GiveUp` when the bound is passed.
`kickingfn` is balanced (any of the two buckets) or biased (the threshold
against the generator's value). The generator is a free choice.

**`Chained`** (`chained.hpp`). Here a call is one step: there is one caller, and
the loops only search. `first` holds the first-level slots, `chain` the linked
buckets, each as the sequence of its entries.

**`Semaphore`** (`semaphore.hpp`). The two operations hold the mutex, so each is
one step; the wait in `aquire` splits it into the test before and the test
after. A notified thread is `woken`, not holding: it tests again.
`SpuriousWake` is the wakeup without a cause.

**`ResultFile`** (`csv.hpp`). `lines` is the file behind its header; a line is
the sequence of the pieces appended to it, because a start after a torn row
continues that line. `existing` is what the constructor read: `exists` does not
see rows written since. `RowTorn` and `HeaderTorn` are what a machine that goes
down may leave; a killed process leaves whole lines, the stream is handed to
the file at `std::endl` only (rows are far shorter than the stream's buffer).
A header cut off exactly before its line end is left out.

**`BenchmarkPool`** composes the two with `main` and the threads of
`collisions_hash.cpp`. `low_memory` is the build with `LOW_MEMORY`, which joins
after each dataset. `LoadThrows` with threads still to be joined ends in
`"terminated"`: the vector's destructor meets joinable threads.

**`HashJoin`** (`hashing_runner.cpp:67-2108`, `eth_data_structures.h`, `lock.h`)
is the whole join: `main`, and every thread's `hash_thread`. `phase` says
between which two barriers each thread is and in which repetition, `at`
whether it works, has done its work or waits. The barrier is that of the
threads library: its last thread lets all go on. A tuple-at-a-time build takes
the latch of a bucket, claims a slot, stores and unlocks, each a step of its
own; the vectorised build gathers and scatters lane by lane, so that the lanes
of two threads interleave too. Buckets are numbered, a tuple's bucket is given
for the scalar and for the vector functions separately (`idx`, `vidx`), since
with murmur hashing they differ. Build functions with a learned model compute
the same bucket but look up a second level in a stage of its own. `ht`, `live`
and `args_ht` are the global pointer, the tables not destroyed and what each
thread has fetched.

**`JoinVector`** and **`Lanes`** are the loop every vectorised function of the
join (and the vectorised bucket sort) has: `StateSize` vector states in turn,
lanes not finished compressed into a residual state or expanded out of it.

**`SampleTraining`** (`hashing_runner.cpp:1632-1958, 2129-2320`): the threads
sample the relation between barriers, each into its share of one array, and
thread 0 trains. Compiled in with `RUN_LEARNED_TECHNIQUES` only. It extends
**`KeyModel`** (`learned_sort.h:210-440`, `learned_sort_for_sort_merge.h:344-480`),
which has what both learned sorts and this training share: the parameters and how
they are validated, the sampling, and the root and leaf models a sample gives; and
**`Memory`** (`avxcommon.h`, `avxsort_core.h`), loads and stores on a sequence of
items. These two are modules of their own so that no recursive operator is
in reach of the proofs about `SampleTraining`.

**`Relations`** (`data_generation.h`, `io.h`): `create_eth_workload_relation_pk`
and `_fk` with the shuffle, `write_relation`, `load_relation`, and the threads of
`numa_localize`. The types of key and payload are abstracted to whether `io.h`
lists them (`printable`).

**`BitonicMerge`** and **`AvxMerge`** (`avxcommon.h`, `avxsort_core.h`, `merge.h`)
are the merges as operators on a memory: the networks, the loops that choose
which list to load from next, and the scalar tails; by their recursion they
are for the model checker only. **`AvxSort`** (`avxsort.h`, `avxsort_core.h`) is
the sort built on them. `mem` holds the input array and the output array behind
it, so that a merge that writes over what is still to be read does so here. A
chunk is a step, a merge of two chunks is a step.

**`MultiwayMerge`** (`avx_multiwaymerge.h`, `scalar_multiwaymerge.h`,
`avxsort_multiway.h`): one step per node the loop visits, in the four versions
of the procedures. The output is a sequence of its own.

**`LearnedSort`** (`learned_sort.h`): train, put into major buckets in batches,
sort bucket by bucket, spill bucket, merge of the exceptions, each a step.
Doubles are fractions; a fraction with denominator 0 stands for the NaN a
division by zero gives there, and is clamped the way `std::min` and `std::max`
clamp it. **`SortMerge`** (`learned_sort_for_sort_merge.h`) is its version taken
apart for a sort-merge join, with the vectorised distribution into minor
buckets. Its caller is not in the repository; the module's calls give each
partition the room its histogram says and hand the counts on, as returned or
as counted by the caller (`counted`).

**`LearnedModels`**: the radix spline (`rs/builder.h`, `rs/radix_spline.h`,
`rs.hpp`), one key of the sample per step, and the two-level RMI (`rmi.hpp`), one
key placed (`PlaceKey`) or one model trained (`TrainSecondLevel`) per step. A slope is a
rise and a run, compared by cross products as `ComputeOrientation` does.

## 3. Runs

Each of the twelve runs takes an instance of its own, except two that hold two
components each, one of them per behaviour: `pool_and_chained`, in which a behaviour
is the pool's or the chained table's, and `sorting_and_robinhood`, in which it is
a call of one procedure, and after the aligned sort of no items, which returns at
once, calls of the Robin Hood table. No step of either component depends on the
other. Deadlock is checked for the open tables by themselves and for the join; the
pool stops when its starts are used up, and a procedure when it has returned.

| run | instance | shows |
|---|---|---|
| `probing` | 2 two-slot buckets, 5 keys, all distributions of home buckets, linear | `Reachable`, `KeysUnique`, `ThrowsOnFullWay`, `ImplementsMap`, `CallsEnd` |
| `probing_cycle` | 9 one-slot buckets, quadratic, one home | a disagreement: `insert` throws on the first return of the walk, the doc comment speaks of the cycle; with 9 buckets step 3 is back and step 4 would reach a new bucket |
| `robinhood_loop` | 10 one-slot buckets, 6 keys, quadratic | a disagreement: `insert` throws ("infinite loop detected") with room on every way |
| `cuckoo` | 3 two-slot buckets, 5 keys, both kicking functions, at most 3 kicks | `WellPlaced` (keys unique, with the entry in hand), `ImplementsMap`, `CallsEnd` |
| `chained_duplicate` | one first-level slot | a disagreement: a key of a first-level slot can be inserted twice |
| `pool_and_chained` | pool: 2 datasets, 2 load factors, 2 permits, 2 starts | `PermitsBalanced`, `NoLostWakeup`, `RowsOnce`, `RunCovers`, `PoolEnds` |
| | table: 2 first-level slots, two-slot buckets, 3 keys, all hash functions | `ChainShape`, `AtMostOneShadow`, `FirstInsertWins` |
| `join` | 3 lanes, 2 vector states, 2 buckets of 1 or 2 slots, overflow buffers of 2; one thread with up to 7 tuples in every distribution, two threads with up to 5 | `TuplesOnce`, `LatchExclusion`, `NoUseAfterFree`, `ProbeCounts`, `JoinEnds` |
| `join_variations` | one thread, 3 tuples, every pair of index functions | a disagreement: the naive and the vectorised variant do not look in the same buckets with murmur hashing |
| `sorting_and_robinhood` | one call of a sorting, training, model or relation procedure per behaviour, some 1300 calls | `ChunksWhole`, `TreeOrder`, `LearnedSorted`, `PartitionsSorted`, `SampleComplete`, `ModelsPredict`, `RelationWhole`, `SortEnds` |
| | table: 5 one-slot buckets, quadratic, ways that overlap in part | `RobinHoodOrder` (keys unique with the carried entry), `ExistingUntouched`, both throws (`ThrowsOnFullWay`), `ImplementsMap`, `CallsEnd` |
| `fan_in_four` | the multi-way merge of 4 or 5 blocks | a disagreement: it ends while a leaf has tuples left to read |
| `learned_ascending` | the calls of the learned sort | a disagreement: the result is not in order when the keys of the first leaf model are all equal |
| `multi_map_finds` | samples with several copies of the largest key | a disagreement: `find` misses a smaller key that is there |

*Why the bounds are enough.* Five keys on four slots are the least that fill a
table and then throw, with walks that wrap. In `probing` the keys are
interchangeable, so only the ascending home functions are taken: every
distribution occurs, and none twice. Five buckets are the least for which
quadratic ways overlap without being equal. Three kicks let an entry come back
to where it started and leave again. Three keys, the first of them in the
first-level slot and in the chain, fill a bucket of the chain and begin another;
chains of any length are covered by the proofs. Four threads on two permits let a
newcomer take the permit a woken thread was notified of while another one still waits. Two
starts are enough for a torn row and its continuation; in each start every
dataset may or may not be loadable. `Threshold` and `Rng` of `Cuckoo` are
chosen so that the biased function can go either way.

*The join.* Real widths are 8 lanes and 5 states, 10 repetitions, buffers of
1024 buckets. Three lanes are the least with which a residual state can take
lanes from one state, overflow into the next and keep some; two states the
least that take turns. Seven tuples leave a last load that is not full. Two
build functions with one repetition each are two repetitions for the barriers,
with a table destroyed between them. A buffer of 2 makes a thread take a second
one. Two threads that meet in one bucket, with overflow chains, take every
order of their steps; more tuples repeat the same meetings. Two threads that
build with vectors may lose tuples, as their gathers and scatters take no
latch; `TuplesOnce` promises presence only where a latch or
a single thread gives it, and that nothing is ever there twice.

*The sorting procedures.* The sizes of the code would need millions of items; all of
them are constants, chosen so that each loop and each boundary is passed:
`BLOCKSIZE` 256 for 2^21 with `SmallBlock` 32 for 128, lengths below, at and above
one to three chunks, multiples of the register and not; `Width` 2 for 16 and
`FifoSize` 5 so that rings wrap inside a merge, 6 to 9 blocks for a tree of two
levels with an odd block; `ExcThreshold` 2 for 60, `ExcBatch` 2 for 100,
`MinSortingSize` 5 for 10^4, so that samples of some ten keys repeat keys and
leave leaf models empty; `KeyRange` 64 for 2^32, so that unsigned differences
wrap; 3 lanes and 2 states as for the join; `NumRadixBits` 3 for 18, `MaxError` 1
for 32, `LinearLimit` 2 for 32, so that both searches are taken; 3 sampling
threads for 64 and 2 runs for 10, with relations whose parts fill their shares
exactly, leave gaps, or overrun them; relations of up to 5 tuples, for which
every shuffle is enumerated, of 1 to 3 blocks with a remainder, loaded with
fewer, as many and more tuples. Inputs are chosen by shape (in order, falling,
interleaved, few values, one value, clusters): a sort may behave differently on
another input of the same length, and that is the run's limit.

*Fairness.* The tables: weak fairness of the steps of a call, since nothing in
their loops waits; nothing is assumed of the callers. The pool: weak fairness
of `main` and of each thread, which is what a scheduler gives; a thread
waiting on the condition variable has no step of its own, so `PoolEnds` rests
on the notifications, and spurious wakeups are not assumed to happen. Weak
fairness on a thread is enough although permits are contended: every thread
takes one permit once, so overtaking ends. No fairness of restarts. The join:
weak fairness of each thread and of `main`. A thread that spins for a latch is
disabled in the model while another holds it; as every holder unlocks after
finitely many steps and finitely many tuples are inserted, weak fairness is
enough. The sorting procedures: the caller's thread (and the sampling threads, as a
whole) goes on until it returns, stated as "returned, or infinitely many
steps", which is weak fairness of the next-state action. In the runs
with two components each has its own fairness; the chained table has none, and what
is said of it holds step by step.

## 4. Proofs

| theorem | module | states |
|---|---|---|
| `ProbeReturns` | `Probing_proofs` | both probing functions are back at the first bucket at step `N` |
| `TypeCorrect` | `Probing_proofs` | `Spec => []TypeOK` |
| `AlwaysReachable` | `Probing_proofs` | `Spec => []Reachable` |
| `AlwaysUnique` | `Probing_proofs` | `Spec => []KeysUnique` |
| `ThrowsRightly` | `Probing_proofs` | `Spec => ThrowsOnFullWay` |
| `Refinement` | `Probing_proofs` | `Spec => ImplementsMap` |
| `TypeCorrect` | `RobinHood_proofs` | `Spec => []TypeOK` |
| `AlwaysRobinHoodOrder` | `RobinHood_proofs` | `Spec => []RobinHoodOrder` |
| `PresentKeyUntouched` | `RobinHood_proofs` | `Spec => ExistingUntouched` |
| `ThrowsRightly` | `RobinHood_proofs` | `Spec => ThrowsOnFullWay` |
| `Refinement` | `RobinHood_proofs` | `Spec => ImplementsMap` |
| `AlwaysRowsOnce` | `BenchmarkPool_proofs` | `PoolSpec => []RowsOnce` |
| `PoolUsesSemaphore` | `BenchmarkPool_proofs` | `PoolSpec => SemaphoreSpec` |
| `PoolBalanced`, `PoolWakeups` | `BenchmarkPool_proofs` | `PoolSpec => []PermitsBalanced`, `PoolSpec => []NoLostWakeup` |
| `PoolTypeCorrect` | `BenchmarkPool_proofs` | `PoolSpec => []PoolTypeOK` |
| `AlwaysCovers` | `BenchmarkPool_proofs` | `PoolSpec => []RunCovers` |
| `ReleaseHasRoom` | `BenchmarkPool_proofs` | `release` never throws |
| `TypeCorrect` | `Chained_proofs` | `ChainSpec => []ChainTypeOK` |
| `AlwaysChainShape` | `Chained_proofs` | `ChainSpec => []ChainShape` |
| `AlwaysOneShadow` | `Chained_proofs` | `ChainSpec => []AtMostOneShadow` |
| `FirstInsertIsKept` | `Chained_proofs` | `ChainSpec => FirstInsertWins` |
| `TypeCorrect` | `Cuckoo_proofs` | `CuckooSpec => []CuckooTypeOK` |
| `AlwaysWellPlaced` | `Cuckoo_proofs` | `CuckooSpec => []WellPlaced` |
| `Refinement` | `Cuckoo_proofs` | `CuckooSpec => ImplementsMap` |
| `ContinueMoves` | `HashJoin_proofs` | compress and expand lose and double no lane |
| `TypeCorrect` | `HashJoin_proofs` | `Spec => []TypeOK` |
| `AlwaysExclusive` | `HashJoin_proofs` | `Spec => []LatchExclusion` |
| `AlwaysTableLive` | `HashJoin_proofs` | `Spec => []TableLive` |
| `AlwaysNoUseAfterFree` | `HashJoin_proofs` | `Spec => []NoUseAfterFree` |
| `AlwaysTuplesOnce` | `HashJoinTuples_proofs` | `Spec => []TuplesOnce` |
| `AlwaysProbeCounts` | `HashJoinTuples_proofs` | `Spec => []ProbeCounts` |
| `AlwaysRelationWhole` | `RelationsAndModels_proofs` | `RelationSpec => []RelationWhole` |
| `AlwaysSampleComplete` | `RelationsAndModels_proofs` | `SampleSpec => []SampleComplete` |
| `AlwaysModelsPredict` | `RelationsAndModels_proofs` | `ModelSpec => []ModelsPredict` |

### The probing table

The theorems hold for every number of buckets, bucket size, set of keys and payloads,
set of hash functions and either probing function; the assumptions are
`DirectoryAssumption` (`N` a positive number, `Quadratic` a truth value) and
`TableAssumption` (the Sentinel is no key, `Absent` no payload, a bucket has a
slot, home buckets are in the directory).

The inductive invariant is `TableInv`: `TypeOK`, `PayloadsGiven`, `Reachable`,
`KeysUnique` and `WalkSoFar`. `Reachable` is not inductive alone: an insert
stores at the slot its walk stands at, so one needs to know that everything the
walk has passed is occupied. Nor is `KeysUnique`: one needs that the walk has
not passed its own key. `WalkSoFar` says both of the call under way. Then:

* `NotBeyondEmpty`: if the walk stands at an empty slot, its key is nowhere.
  Were it stored, `Reachable` gives a step at which its own walk meets it with
  only full slots before; that step is neither earlier (`WalkSoFar`) nor later
  (the empty slot would be in between) than the present one.
* `NotBeyondReturn`: the same when the walk is about to return to its start.
* so `InsertEmpty` keeps keys unique, and the stored slot is reachable by the
  walk just made; the slots stored earlier stay reachable, since a slot is only
  filled. `Clear` empties all slots. Every other step leaves the slots alone.
* for the refinement, `MapAgrees` says that `AbstractMap` gives for each key the
  payload of the one slot that holds it, and `Absent` if none does; the CHOOSE
  in it is harmless because keys are unique. Each step then maps to one step
  of `HashMap` or leaves its variables alone.

### The Robin Hood table

The same assumptions. The inductive invariant is `OrderInv`: `TypeOK`,
`PayloadsGiven`, `EntriesInOrder` (every entry stands where its walk first met
somebody richer), `KeysUnique`, `CarriedAlone` (what an insert carries is in no
slot), `WalkSoFar` (what the call has passed) and `NewStored` (a carried entry
means that the new one has been stored). The order survives a displacement
because the entry that comes in is poorer than the one that goes out, so
whoever passed the slot before may still pass it; the entry that goes out
continues its own walk at the step its `psl` recorded. A present key is met
before a displacement: at its slot the walk is as poor as it is, and every slot
before is poorer (`PresentKeyUntouched`). For `ThrowsRightly`, linear probing
makes the way of the carried entry a full round, and a carried entry that has
come back to the one just stored has seen every bucket. In the refinement
`AbstractMap` counts the carried entry and leaves out the one it gave way to, so
that displacements are stuttering and the last step is the insert; an insert
that throws leaves the map with one entry exchanged.

### The chained table

For any directory, bucket size, keys, payloads and home functions
(`ChainedAssumption`). `ChainedInv` is `ChainTypeOK`, `ChainShape` and
`AtMostOneShadow`, and none of them is inductive without the others: `lookup`
answers the payload of the one position of the chain that holds the key, which
is a payload only if there is one such position; `insert` appends to the last
bucket or a new one, which keeps the shape only if the buckets before are full,
and keeps keys single only because the whole chain was compared.
`ExtendedChain` says which positions a chain has after an insert: those it had,
and one new one.

`AnswerInv` adds that an occupied first-level slot has a given payload.
`FirstInsertIsKept` splits `LookupResult` into the first-level slot and the
chain: a key found in either keeps its payload, because slots and buckets are
only filled and appended to; a key found in the chain cannot come to stand in
the first-level slot later, since that slot must have been taken for the chain
to be used at all.

### The cuckoo table

For any directory, bucket size, hash functions, limit of kicks and either
kicking strategy (`CuckooAssumption`). `CuckooInv` is `CuckooTypeOK` and `WellPlaced`.
`CountFirst` shows that the occupied slots of a bucket are its first `Count`,
so that the slot written next is empty and no hole arises. `Nowhere`: a key
absent from its two buckets is in none. `WrittenPlaced` covers both writes, of
`Place` and of `Kick`: the key written is in a bucket of its own and was stored
nowhere before. A kicked key leaves the table in the same step and is in hand
until it is placed, which is why its next round may be treated like an insert.
For the refinement the abstract map counts the entry in hand; a kick then
leaves it as it is, and an insert given up after the last kick has exchanged one
entry for its own.

### The join

For any number of threads, tuples, buckets and repetitions
(`SetupsAssumption`, `BoundsAssumption`). `LatchExclusion` is not inductive
for two reasons. A latch protects only while nobody resets it, and
`allocate` resets all of them: so threads must never be in the allocating and
the building phase at once. And a thread may work on its bucket only because
its own test-and-set succeeded, which the latch has to remember. `LatchInv`
says both: `Together`, that threads go from barrier to barrier together and
the barrier counts those that wait; `Latched`, that past the test-and-set the
latch names its thread; with the types of the control state (`ControlOK`,
`ScalarOK`). `AllDone` is the step at a barrier: when the last thread arrives,
everyone has finished the work of the phase, so the next phase begins with
no latch held by anyone at work.

`TableLive` says that who builds or probes has the pointer to the table
allocated last, and that it is live. `TableInv` adds to `LatchInv` what each
thread knows of the table in each phase (`TableReady`).

The types of the vectorised loops need an invariant of their own, `TypesInv`. Of
each loop `MachineInv` says that `done` counts the states that are done, that a state
to be loaded and one that is done have no lanes, that the residual state has its
lanes at the low end until it gets the turns itself, and that a gather or scatter is under
way in a state at work only; `LoopInv` that the lanes held are those of the
thread's own tuples. The first part of `HashJoin_proofs` proves of the loop alone,
for every number of lanes and states, what `compress` and `expand` do to the lanes.
`ContinueMoves` is its result: after a case, the lanes the states hold are, one
for one, those held before that still have work.

For `NoUseAfterFree` (`BuffersInv`): an overflow bucket has a place, made of its
thread, buffer and slot. `AllGot` says that every place is one the
thread has been given, so that the next one `get_new_bucket` gives is linked
nowhere; `DistinctChains` and `Owned` that no place is linked twice, in one bucket or
in two. The chains a lane has gathered count as linked (`Behind`), since the
scatter writes them back. Freed buffers are never reached because the heads are
reset (`Emptied`) between the barriers before the next build.

`TuplesOnce` is proved in two parts. At most one slot holds a tuple (`OnceInv`):
`Single` says so of the slots, those of gathered chains included; `Fresh`, that
a tuple its thread has not stored yet is in none; `VectorsCarry`, that the lanes
and what is not yet loaded have each tuple at most once. So every store writes a tuple that
is nowhere. This holds for racing vectorised threads too, which may overwrite
each other's tuples but never double one. At least one slot (`FillInv`):
`There` says that a tuple a build has gone past is in the table. With latches
`SlotsOK` is why nothing is overwritten: a slot claimed and not written yet is
empty and within the count of its bucket, and beyond the count all slots are empty;
`LatchInv` keeps others from the bucket. With vectors and one thread it is
`VectorSound`: what a lane gathered is still what its bucket holds, and the lanes
chosen have different buckets (`Apart`), so that no lane of a scatter undoes
another. `BuildsDone` and `Complete` carry this over the barrier: who has arrived has
stored its whole part, and the parts cover the relation (`PartsCover`),
the remainder of the division included.

`ProbeCounts` needs to know where a probe that compares first slots only can find a
tuple, and which ones the vectors have counted so far. `VectorInv` is about the
first. The probes work on the table with the highest number (`TableNumber`), and
every table with a number above `RunNums` was built with vectors, so (`VectorTable`)
it has tuples in first slots only, each behind the head its key
leads to, no latch is held, and a head that counts nothing has no chain, which is why a
probe may give up a lane there. None of this is kept unless the lanes of the build that
goes on are at the right heads: `VectorsGraded` says of each lane, by the stage of its
state, that its head is that of its tuple once the model has answered, that the head
is occupied once its stage is over, and, while a gather or scatter is under way, which
of the lanes not chosen may rely on a lane chosen for that (`Settled`).

`CountInv` is about the second. `FoundBy` are the tuples loaded that are first in a
bucket which their lane, if one still carries them, has gone past; a vector
probe's `matches` is their number (`VectorSums`). A turn that only moves lanes
between states leaves them alone, an empty head gives up a lane whose tuple
is in no bucket (`HeadFound`), and a comparison adds exactly the lanes that match
(`ChainFound`): a tuple is first in one bucket only (`ForemostOnce`, from `OnceInv`),
and no two lanes carry it (`Carries`). When the loop is left, no lane is held
(`LeaveHolds`), so `FoundBy` is all that is present. A tuple-at-a-time probe
has counted the tuples below the one it is at (`ScalarSums`), provided both kinds of
functions look in the same bucket; the run `join_variations` shows that they may not.
With one thread the part is all of R and `Complete` puts all of it into the table, so
the last probe, and what `main` adds up, is |R| (`EndInv`).

### The semaphore and the pool

These hold for any number of datasets, load factors, measurements, permits and
starts, either build, and any sets of unloadable datasets. The assumptions are
`SemaphoreAssumption` (finitely many threads, at least one permit) and
`PoolAssumption` (what the threads and rows are).

`PermitsBalanced` and `NoLostWakeup` are inductive with the types: a step moves
one thread from one set to another, `Release` with a waiter two, and the
cardinalities follow. The second one survives `Release` because the notified
thread joins the woken ones as the counter grows, and `Block` because it
happens at counter 0 only. The pool adds nothing to these steps but guards
(`PoolUsesSemaphore`), so both carry over.

`RowsOnce` needs `PoolInv`. A row is appended when its thread is done with it,
long after it was looked up in `existing`, which is older still. So:
`FileAccountedFor` says that a row read from the file was there when it was
opened or is one its thread has gone past (`combo`), and `WriterAtRow` that the
row under way belongs to a thread which holds a permit, found it missing and
has not moved on. Together (`WrittenIsNew`) the row appended is not read from
any line yet, and `AppendedRow` does the rest, torn lines included: a piece
either begins a line or leaves all first pieces alone.

`RunCovers` needs `CoverInv`: `PassedInFile`, a thread goes past a measurement
only when its row is in the file, found there or written by itself; and
`ThreadsCover`, `main` ends well only after every thread it started has
finished. `CutHasLine` keeps a row found once found for ever: lines are only
appended to, and a cut ends a line that was begun.

### The relations

For any sizes of relations, blocks and pages, any number of threads and any
length of the relation loaded (`RelationsAssumption`). `RelationInv` says of the
block under way that it is `Whole`, each of its keys once with its payload, which an
exchange keeps because it moves two tuples with key and payload. `KeyInBlocks` pairs the places that hold a foreign key
with the blocks large enough for it, and `ManyBlocks` counts those blocks; so each key is
there as often as every other, or once less. `PartsPartition` is the arithmetic of
`numa_localize`: the threads' parts overlap nowhere and cover the relation,
even if a relation has fewer pages than there are threads.

### The learned models

For every set of sorted samples of 64-bit keys that are not all equal
(`LearnedModelsAssumption`; of equal keys `__builtin_clzl(0)` would be taken), any
error, radix, limit of the linear search, number of second-level models and range. A
fraction is its numerator and denominator throughout, and two of them are compared by
the cross products (`DivMonotone`, `ClampedMonotone`).

*The spline.* `SplineInv` says what `AddKey` keeps. `Corridor`: seen from the last
spline point, the upper limit is not above the upper limit of any key since then, the
lower one not below, and the last key is in between. So when a key is outside and
the key before it becomes a spline point, the new segment misses no key in between by
more than `MaxError` (`Precise`). That narrowing keeps this is transitivity of the
comparison of slopes from one point (`BelowTransitive`), which needs all points to
the right of it. `Indexed`: up to the prefix of the last point an entry of the radix
table is the number of points with a smaller prefix. At the end this holds for all
prefixes, so the two entries of a key enclose the end of its segment, and
`GetSplineSegment` finds it, searching linearly or not (`SegmentFound`).
The line of a segment stays between its ends (`OnLineBetween`), so estimates keep
the order of all keys and stay within the sample.

The corridor does not give `MaxError` for every key: `Finalize` ends the last segment
at the last copy of the largest key, not at the first, the only spline point that
is not on the CDF the corridor was drawn for. A key of that segment may be estimated
as many positions too high as the largest key has further copies (`Slack` of the
proof, `EstimateError`). So the theorem has `lower_bound` find the first position of
every key before that segment, and of the keys in it if the largest key is there
once (`BoundedError`); of all keys that no bound ends before that position. The run
`multi_map_finds` shows what becomes of the others, section 5 has it as a finding.

*The RMI.* While keys are placed, a bucket spans the keys the root predicts it for, and
begins at or behind every key of the buckets before it (`BucketInv`): as the
root rises (`HomeFacts`), a key never goes into a bucket before the last one.
`TrainSecondLevel` turns this into the same of the model (`TrainedInv`), whose right end is the
last key up to its bucket; an empty bucket takes over the one before, and bucket
0 is never empty. So a model ends no higher than any later one begins. Between
its ends a line stays between their heights (`LinearBetween`), so keys of two
buckets keep their order; those of one do because no line falls (`LinearRises`).

What a proof needs by induction over positions of a sample (that a sorted
sample is sorted, the first copy of a key, the shift) is taken from the least element of a
set of numbers (`LeastNat`), as the induction theorems cannot be used here.

### The sample of the join's threads

For every set of relations that are not empty, parameters, number of threads and of runs, and
leftovers in the memory of the sample (`KeyModelAssumption`,
`SampleTrainingAssumption`). `SampleTrainingInv` has four parts of interest.
`PhaseInv`: the barriers keep all threads in one of three phases, between two runs,
sampling or training. So thread 0 clears the counts while nobody samples
and adds them up while nobody does. `CountsInv`: how many tuples a thread has
counted says where it is in its part, no more than the part has, and all of them once it
waits behind it (`TakenFacts`, the rounding up of the division); between `"train"`
and the next clearing they are the counts of the whole parts, whatever run it is.
`ShareInv`: what a thread has counted is in its share, as long as the parts fill the shares
(`SharesFit`); then the shares lie one behind the other as the whole sample does
(`SharesLie`), a store is in no other thread's share (`TakenIntoShare`), and the
beginning that thread 0 sorts is all that was taken (`WholeSample`). `OneModelInv`: there is
one model to train, `WholeModel`, so a later run changes nothing, and where all
keys are equal it is the untrained one. The slopes handed on are still none before thread 0's last step.

`SharesFit` is a premise of the property and not of the model: whether the
parts fill the shares is up to the sizes. The relations of the run meet
both cases. What thread 0 trains on if they do not is in the comment of
`SampleComplete`; section 5 names sizes for which they do.

`FlattenSeq` and `FoldFunction` of the library are recursive functions. That such a
function exists is proved by the least counterexample, over lengths (`FlattenExists`) and over
cardinalities (`FoldCounts`), which takes one sum of counts to be the cardinality of a set
of pairs (`Cells`). `SortedKeys` is not expanded: that sorting sorts is the library's.

*Only model-checked:* liveness (`CallsEnd`, `PoolEnds`, `JoinEnds`, `SortEnds`;
fairness and ENABLED are beyond the prover), and the sorts: `ChunksWhole`,
`TreeOrder`, `LearnedSorted` and `PartitionsSorted`. The merges and the learned sort are
written with recursive operators, which the prover does not take in any module
that reaches them, and their properties say that items are those of a sorted input,
while the prover knows nothing of `SortSeq`. Of `SampleComplete` this does not matter: both
sides sort the same sequence.

## 5. Findings

* `probing.hpp:76-77` promises a throw iff all buckets of the cycle are full;
  the test at line 109 ends the walk at the first return, which for quadratic
  probing is not the cycle.
* `probing.hpp:269-270` makes the same promise for Robin Hood; line 307 throws as
  well when the carried entry meets the one this insert has stored. With linear
  probing that means a full table (`ThrowsOnFullWay`, proved); with quadratic
  probing it happens with six keys for ten buckets, none of whose ways is full.
  The attempt to prove it of both showed this: the table of `sorting_and_robinhood` is
  too small for it.
* `chained.hpp:37-38` promises that inserting an existing key fails; the
  occupied first-level slot is not compared (lines 50-63). Lookups are not
  changed by it (`FirstInsertWins`).
* `avx_multiwaymerge.h:174`: with four parts the leaves are the children of the
  root. A leaf that is not done but holds `readthreshold` tuples or more is
  skipped there without clearing `finished`, so that when the other leaf becomes done
  in the same turn the loop ends (line 210), with the skipped leaf's ring and the rest
  of its parts unmerged; line 47 promises the total number of tuples. In the run
  leaf 0 becomes done while leaf 1 holds 21..25 and has nine tuples left to read.
  With more parts the inner nodes, not done either, keep the loop going.
* `learned_sort.h:378`: the slope of the first leaf model is a quotient by the distance
  of the keys of its sample, infinite if they are all equal, and its keys go to the
  last bucket (lines 375-385). Exceptions (repeated keys) predicted there are merged
  behind larger ones, and nothing sorts them again, although lines 1041-1042 promise
  ascending order, line 1037 says "The input array is now sorted", and line 122 calls
  the procedure a "Drop-in replacement for std::sort()". In the run 20 keys 0, 1
  and 2 end as 1s, 0s and 2s (`LearnedAscending`). `LearnedSorted` of the passing run
  says what is left of the promise: the keys are those of the input, all but the
  exceptions are in order, and all are if the first leaf model rises.
* `rs/builder.h:50`: the spline ends in the last copy of the largest key, so keys
  behind the point before it are estimated too high by up to the number of further
  copies, and `lower_bound` (`multi_map.h:89-98`), which searches within
  `GetSearchBound` only, misses them: `find` answers `end()` for a key that is there.
  Lines 12 and 30 of `multi_map.h` call it "A drop-in replacement for std::multimap" with
  "Lookup functions, like in std::multimap". With the keys 0..9 and a thousand copies
  of 10, `max_error` 32, the key 5 is estimated at 504, and its bound begins at 472; in
  the run it is key 2 of 1, 2 and seven copies of 3 (`MultiMapFinds`). The hash
  functions of the benchmark do not use this class.
* `hashing_runner.cpp:930`: with murmur hashing the naive probe takes the 32-bit
  hash of the key modulo the buckets, the table it probes was built with the
  64-bit hash of key and payload, masked; `README.md:26` of the join offers both
  variations in one run.

Observations without a run, as no text says otherwise or reading is enough; the
models follow the code in each:

* `args.hpp:38` (and the same text of the other drivers) says the result file
  is always overwritten; `csv.hpp:17` opens it to append, and the skipping of
  existing rows (`RowsOnce`) depends on it.
* `learned_sort.h:578-650` reads whole batches of 100 beyond the input's end; the
  models take inputs of whole batches only.
* `learned_sort_for_sort_merge.h:1029` returns the number of distinct repeated
  keys where their total is wanted; a caller that hands it on loses keys
  (`PartitionsSorted`, builds not `counted`). Differences of unsigned keys wrap
  (lines 441, 466), the vectorised loop predicts from the 64-bit item (1175).
* The shares of the sampling threads fit what the threads take only for some
  sizes: 16 million tuples and 64 threads, the values of `base_configs.h`, do.
* `math.h:46` says that `RAND_RANGE(N)` is "in range [0,N]"; it is below `N`, so
  `knuth_shuffle` exchanges every tuple with another one, leaves none in its place, and
  not every permutation can occur (`data_generation.h:106`).
* `data_generation.h:70` says that of foreign keys "each key between 0 and maxid exists
  at least once". They begin at 1, and every key up to `maxid` is there only if
  there are at least `maxid` tuples; sizes 1 and `maxid` 2 or 3 of the run are such a
  case. `RelationWhole` states what holds of both, with these words in its comment.
* `read_relation` scans a file without a tuple for ever, and repeats the last
  tuple of a file that is too short (`io.h:185-312`).
* `avxsortmultiway_*` with no items subtracts 1 from 0 blocks.

## 6. Not modelled, and why

* Hash functions and reductions: pure arithmetic on words. The tables are
  checked and proved for any function into the directory instead.
* PGM: a submodule without content.
* Loading of datasets, argument parsing, printing: input and output. The
  synthetic distributions of `data_generation.h` are calls of the standard
  library, and the binary loaders of `io.h` copy a file.
* The drivers' lists of template instances and timing loops.
* The task queue: nothing uses it. The home-made barrier: compiled out by
  `config.h:33`. `learned_sort_avx.h`: included nowhere, and it does not compile.
* Variants of the sorts for other item types: the same code again. Comparisons
  of tuples as 64-bit items are taken as comparisons of items.
* Rounding of floating point numbers: the models compute with fractions.
* Values kept in `static const` locals of the learned sorts (`learned_sort.h:253`,
  449-452, `learned_sort_for_sort_merge.h:746`, 805, 1045-1046): a later call with
  other parameters would run with those of the first one. A behaviour of the models
  has one call, with its own.
* Memory the learned sort for a sort-merge join takes as zeroed: the counts of
  repeated keys, whose reset (`learned_sort_for_sort_merge.h:934`) is commented out.
* Samples whose first `SAMPLE_SZ` sorted keys are equal while the others are not:
  they would give the root model an infinite slope. No input of the run is one.
* Payloads in the keys of the learned build functions: the vectorised ones predict
  from key and payload as one word, the scalar ones from the key. The setups have
  the same index for both, which is so with payload 0; no property rests on it.
* Vendored libraries: not part of this program's logic.
* A file without a tuple is scanned for ever (`io.h:195`): `SortEnds` excepts it
  (`ScansForever`), as nothing in the repository speaks of such files.
* Threads of the unlatched vectorised build that lose each other's tuples: they do so
  in the model, and `TuplesOnce` does not ask for presence there.
* `lookup_statistics` and the name functions of the tables: they only read.
* Calls of `Cuckoo` with the Sentinel, which its insert does not refuse.
* `--max-threads 0`: every thread would wait for ever; it is excluded by
  `SemaphoreAssumption`, and listed as a hazard.

## 7. Plan

What is left, in order of worth: the drivers of the hash table benchmark over
`ResultFile`; real floating point rounding in the models, for which the tools
have no arithmetic.
