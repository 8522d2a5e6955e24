------------------------------ MODULE HashJoin ------------------------------
(***************************************************************************)
(* The no-partition hash join of hashing_runner.cpp: main starts the       *)
(* threads, each of which runs hash_thread.  For every build function and  *)
(* repetition thread 0 allocates the hash table, all threads build it from *)
(* their part of R and, except after the last build, it is destroyed;      *)
(* afterwards every probe function runs on the table that is left.         *)
(*                                                                         *)
(* Build function 0 is the tuple-at-a-time one (naive or learned), which   *)
(* takes a bucket's latch; 1 is the vectorised one (IMV), which does not.  *)
(* main passes R as both relations.                                        *)
(***************************************************************************)
EXTENDS JoinVector, Sequences

CONSTANTS
  Setups,          \* the joins considered, see SetupsAssumption
  NumBuckets,
  RunNums,         \* RUN_NUMS
  OverflowBufSize, \* OVERFLOW_BUF_SIZE
  NoTuple,         \* the zeroed memory of a slot
  Free             \* a latch of 0

Heads == 0 .. (NumBuckets - 1)

(* A setup has the number of threads and of tuples, BUCKET_SIZE, the model
   ("none": the hashing functions; "root", "leaves": the learned ones with one
   level of the RMI or two), and the bucket each tuple's key gets in the
   functions for one tuple at a time (idx) and in the vector functions (vidx):
   a mask, murmur hashes of 32 and of 64 bits, or a prediction.  The scalar
   functions predict from the 32-bit key, the vector functions by the same
   formula from the 64-bit word with the payload above it: the assumption
   that they agree stands for payloads of 0 (ZERO_PAYLOAD). *)
ASSUME SetupsAssumption ==
  \A s \in Setups :
    /\ s.threads \in Nat \ {0} /\ s.n \in Nat /\ s.bucketSize \in Nat \ {0}
    /\ s.model \in {"none", "root", "leaves"}
    /\ s.idx \in [1 .. s.n -> Heads] /\ s.vidx \in [1 .. s.n -> Heads]
    /\ s.model # "none" => s.idx = s.vidx

ASSUME BoundsAssumption ==
  /\ RunNums \in Nat \ {0} /\ OverflowBufSize \in Nat \ {0}
  /\ NumBuckets \in Nat \ {0}
  /\ NoTuple = 0          \* keys and with them tuples are numbered from 1
  /\ Free \notin Nat
  /\ ZeroLane = [tuple |-> NoTuple, head |-> 0, pos |-> 0]

VARIABLES
  setup,        \* what the configuration and the data fixed
  phase,        \* where in hash_thread each thread is, between two barriers
  at,           \* "work", "arrive" (work done) or "wait" (in the barrier)
  called,       \* threads waiting in the barrier
  hash_pf_num,  \* the number of functions, set by thread 0
  ht,           \* the global pointer: the table allocated last
  live,         \* the tables not destroyed
  args_ht,      \* each thread's args->ht and build_data.ht
  heads,        \* the buckets of the table ht
  latch,        \* their latches: Free or the thread that took it
  bufs,         \* each thread's overflow buffers
  scalar,       \* the locals of the tuple-at-a-time functions
  imv,          \* the locals of the vectorised functions
  matches,      \* local count of a probe
  num_results,  \* args->num_results
  result        \* what main adds up

shared == <<ht, live, hash_pf_num>>
table == <<heads, latch, bufs>>
locals == <<scalar, imv, matches>>
vars == <<setup, phase, at, called, shared, args_ht, table, locals,
          num_results, result>>

Threads == 0 .. (setup.threads - 1)
Tuples == 1 .. setup.n

\* initialize_hash_thread_args: equal parts, the rest goes to the last thread.
numRthr == setup.n \div setup.threads
First(t) == numRthr * t
NumTuples(t) == IF t = setup.threads - 1 THEN setup.n - numRthr * t ELSE numRthr
Slice(t) == (First(t) + 1) .. (First(t) + NumTuples(t))

-----------------------------------------------------------------------------
\* Where the threads are.
At(pc, run) == [pc |-> pc, run |-> run]
LastRun == RunNums * hash_pf_num - 1
Fid(p) == p.run \div RunNums

\* What follows a barrier.
NextPhase(p) ==
  CASE p.pc = "setup"   -> IF LastRun < 0 THEN At("end", 0) ELSE At("allocate", 0)
    [] p.pc = "allocate" -> At("fetch", p.run)
    [] p.pc = "fetch"    -> At("build", p.run)
    [] p.pc = "build"    -> At("release", p.run)
    [] p.pc = "release"  -> IF p.run = LastRun THEN At("ready", 0)
                                               ELSE At("allocate", p.run + 1)
    [] p.pc = "ready"    -> At("probe", p.run)
    [] p.pc = "probe"    -> IF p.run = LastRun THEN At("end", 0)
                                               ELSE At("ready", p.run + 1)

ScalarStart == [i |-> 0, step |-> "lock", over |-> FALSE, slot |-> 1]
EmptyHead == [count |-> 0, tuples |-> [j \in 1 .. setup.bucketSize |-> NoTuple],
              chain |-> << >>]
NoBuffers == [buffers |-> 0, count |-> 0]

Init ==
  /\ setup \in Setups
  /\ phase = [t \in Threads |-> At("setup", 0)]
  /\ at = [t \in Threads |-> "work"]
  /\ called = 0
  /\ hash_pf_num = 0
  /\ ht = 0 /\ live = {0}              \* main allocates a table as well
  /\ args_ht = [t \in Threads |-> 0]
  /\ heads = [b \in Heads |-> EmptyHead]
  /\ latch = [b \in Heads |-> Free]
  /\ bufs = [t \in Threads |-> NoBuffers]
  /\ scalar = [t \in Threads |-> ScalarStart]
  /\ imv = [t \in Threads |-> ImvStart]
  /\ matches = [t \in Threads |-> 0]
  /\ num_results = [t \in Threads |-> 0]
  /\ result = -1

Working(t, pc) == phase[t].pc = pc /\ at[t] = "work"
Done(t) == at' = [at EXCEPT ![t] = "arrive"] /\ UNCHANGED <<setup, phase, called, result>>
Inside == UNCHANGED <<setup, phase, at, called, result>>

-----------------------------------------------------------------------------
\* The barrier: the last thread to arrive releases all.  Each thread then
\* starts its next stretch of work, a build or probe with new locals.
Arrive(t) ==
  /\ at[t] = "arrive" /\ phase[t].pc # "end"
  /\ IF called + 1 = setup.threads
     THEN /\ called' = 0
          /\ phase' = [u \in Threads |-> NextPhase(phase[u])]
          /\ at' = [u \in Threads |-> "work"]
          /\ scalar' = [u \in Threads |-> ScalarStart]
          /\ imv' = [u \in Threads |-> ImvStart]
          /\ matches' = [u \in Threads |-> 0]
     ELSE /\ called' = called + 1
          /\ at' = [at EXCEPT ![t] = "wait"]
          /\ UNCHANGED <<phase, locals>>
  /\ UNCHANGED <<setup, shared, args_ht, table, num_results, result>>

\* Thread 0 fills hash_pfun and hash_pfun1.
SetFunctions(t) ==
  /\ Working(t, "setup")
  /\ hash_pf_num' = IF t = 0 THEN 2 ELSE hash_pf_num
  /\ Done(t)
  /\ UNCHANGED <<ht, live, args_ht, table, locals, num_results>>

\* init_bucket_buffer by every thread, allocate_hashtable by thread 0.
Allocate(t) ==
  /\ Working(t, "allocate")
  /\ bufs' = [bufs EXCEPT ![t] = [buffers |-> 1, count |-> 0]]
  /\ IF t = 0
     THEN /\ ht' = phase[t].run + 1
          /\ live' = live \union {ht'}
          /\ heads' = [b \in Heads |-> EmptyHead]
          /\ latch' = [b \in Heads |-> Free]
     ELSE UNCHANGED <<ht, live, heads, latch>>
  /\ Done(t)
  /\ UNCHANGED <<hash_pf_num, args_ht, locals, num_results>>

Fetch(t) ==
  /\ Working(t, "fetch")
  /\ args_ht' = [args_ht EXCEPT ![t] = ht]
  /\ Done(t)
  /\ UNCHANGED <<shared, table, locals, num_results>>

\* Mutated form: the buffers are freed after the last build too.
LastReleaseFrees(t) ==
  /\ Working(t, "release")
  /\ live' = IF t = 0 /\ phase[t].run < LastRun THEN live \ {args_ht[t]} ELSE live
  /\ bufs' = [bufs EXCEPT ![t] = NoBuffers]
  /\ Done(t)
  /\ UNCHANGED <<ht, hash_pf_num, args_ht, heads, latch, locals, num_results>>

\* destroy_hashtable by thread 0, free_bucket_buffer by every thread; the
\* table of the last build is kept for the probes.
Release(t) ==
  /\ Working(t, "release")
  /\ IF phase[t].run < LastRun
     THEN /\ live' = IF t = 0 THEN live \ {args_ht[t]} ELSE live
          /\ bufs' = [bufs EXCEPT ![t] = NoBuffers]
     ELSE UNCHANGED <<live, bufs>>
  /\ Done(t)
  /\ UNCHANGED <<ht, hash_pf_num, args_ht, heads, latch, locals, num_results>>

\* Between a probe and the barrier before the next one nothing happens.
Ready(t) ==
  /\ Working(t, "ready")
  /\ Done(t)
  /\ UNCHANGED <<shared, args_ht, table, locals, num_results>>

\* pthread_join for every thread, the sum of their results.
MainJoins ==
  /\ result = -1
  /\ \A t \in Threads : phase[t].pc = "end"
  /\ result' = FoldSet(LAMBDA t, sum : sum + num_results[t], 0, Threads)
  /\ UNCHANGED <<setup, phase, at, called, shared, args_ht, table, locals,
                 num_results>>

-----------------------------------------------------------------------------
\* Building.
BuildWith(t, fid) == Working(t, "build") /\ Fid(phase[t]) = fid
BuildOnly == UNCHANGED <<shared, args_ht, matches, num_results>>

Full(count) == count = setup.bucketSize

\* get_new_bucket: from the newest buffer, or from one more when it is full.
GetNewBucket(bs) ==
  IF bs.count < OverflowBufSize THEN [bs EXCEPT !.count = @ + 1]
                                ELSE [buffers |-> bs.buffers + 1, count |-> 1]

\* The bucket got last by thread t; its slots are memory nobody has read.
NewestBucket(t, bs, count, tuple) ==
  [thread |-> t, buffer |-> bs.buffers, slot |-> bs.count, count |-> count,
   tuples |-> [j \in 1 .. setup.bucketSize |-> IF j = 1 THEN tuple ELSE NoTuple]]

\* The tuple the loop of a tuple-at-a-time function is at, and its bucket.
Tuple(t) == First(t) + scalar[t].i + 1
Bucket(t) == setup.idx[Tuple(t)]
AtStep(t, step) ==
  BuildWith(t, 0) /\ scalar[t].i < NumTuples(t) /\ scalar[t].step = step

\* Mutated form: the latch is taken whatever it was.
LatchTaken(t) == latch' = [latch EXCEPT ![Bucket(t)] = t]

\* lock(&curr->latch): test and set until the latch was 0.
TestAndSet(t) == latch[Bucket(t)] = Free /\ latch' = [latch EXCEPT ![Bucket(t)] = t]

Lock(t) ==
  /\ AtStep(t, "lock")
  /\ TestAndSet(t)
  /\ scalar' = [scalar EXCEPT ![t].step = "claim"]
  /\ Inside /\ BuildOnly /\ UNCHANGED <<heads, bufs, imv>>

\* A slot in the bucket, in the overflow bucket right behind it, or in a new
\* one that goes between the two.
Claim(t) ==
  /\ AtStep(t, "claim")
  /\ LET h == heads[Bucket(t)]
         new == GetNewBucket(bufs[t])
         Dest(over, slot) == scalar' = [scalar EXCEPT ![t].step = "store",
                                            ![t].over = over, ![t].slot = slot]
     IN  IF ~Full(h.count)
         THEN /\ heads' = [heads EXCEPT ![Bucket(t)].count = @ + 1]
              /\ Dest(FALSE, h.count + 1)
              /\ UNCHANGED bufs
         ELSE IF h.chain # << >> /\ ~Full(h.chain[1].count)
         THEN /\ heads' = [heads EXCEPT ![Bucket(t)].chain[1].count = @ + 1]
              /\ Dest(TRUE, h.chain[1].count + 1)
              /\ UNCHANGED bufs
         ELSE /\ bufs' = [bufs EXCEPT ![t] = new]
              /\ heads' = [heads EXCEPT ![Bucket(t)].chain =
                             <<NewestBucket(t, new, 1, NoTuple)>> \o @]
              /\ Dest(TRUE, 1)
  /\ Inside /\ BuildOnly /\ UNCHANGED <<latch, imv>>

\* *dest = tuples[i]
Store(t) ==
  /\ AtStep(t, "store")
  /\ LET slot == scalar[t].slot
     IN  heads' = IF scalar[t].over
                  THEN [heads EXCEPT ![Bucket(t)].chain[1].tuples[slot] = Tuple(t)]
                  ELSE [heads EXCEPT ![Bucket(t)].tuples[slot] = Tuple(t)]
  /\ scalar' = [scalar EXCEPT ![t].step = "unlock"]
  /\ Inside /\ BuildOnly /\ UNCHANGED <<latch, bufs, imv>>

Unlock(t) ==
  /\ AtStep(t, "unlock")
  /\ latch' = [latch EXCEPT ![Bucket(t)] = Free]
  /\ scalar' = [scalar EXCEPT ![t] = [ScalarStart EXCEPT !.i = scalar[t].i + 1]]
  /\ Inside /\ BuildOnly /\ UNCHANGED <<heads, bufs, imv>>

ScalarBuilt(t) ==
  /\ BuildWith(t, 0) /\ scalar[t].i = NumTuples(t)
  /\ Done(t)
  /\ BuildOnly /\ UNCHANGED <<table, scalar, imv>>

-----------------------------------------------------------------------------
\* The vectorised loop, building or probing.
InLoop(t) ==
  /\ phase[t].pc \in {"build", "probe"} /\ at[t] = "work"
  /\ Fid(phase[t]) = 1
  /\ imv[t].op = "turn"

ImvOnly == UNCHANGED <<shared, args_ht, scalar, num_results>>

\* The stage of the residual state: the chain of the bucket.
Machine(t) == Turn(imv[t], NumTuples(t), "chain")
InStage(t, stage) ==
  /\ InLoop(t)
  /\ ~Retiring(imv[t], NumTuples(t)) /\ ~Leaving(imv[t], NumTuples(t))
  /\ Machine(t).st[Machine(t).k].stage = stage
State(t) == Machine(t).st[Machine(t).k]

ImvRetire(t) ==
  /\ InLoop(t) /\ Retiring(imv[t], NumTuples(t))
  /\ imv' = [imv EXCEPT ![t] = Retire(@)]
  /\ Inside /\ ImvOnly /\ UNCHANGED <<table, matches>>

\* The loop ends; a probe returns its count.
ImvLeave(t) ==
  /\ InLoop(t) /\ Leaving(imv[t], NumTuples(t))
  /\ num_results' = IF phase[t].pc = "probe"
                    THEN [num_results EXCEPT ![t] = matches[t]] ELSE num_results
  /\ Done(t)
  /\ UNCHANGED <<shared, args_ht, table, locals>>

\* No case for a state that is done.
ImvSkip(t) ==
  /\ InStage(t, "done")
  /\ imv' = [imv EXCEPT ![t] = [Machine(t) EXCEPT !.k = @ + 1]]
  /\ Inside /\ ImvOnly /\ UNCHANGED <<table, matches>>

Loaded(t, head, stage) ==
  LET Lane(x) == [tuple |-> x, head |-> head[x], pos |-> 0]
  IN  Load(Machine(t), NumTuples(t),
           [j \in 1 .. NumTuples(t) |-> Lane(First(t) + j)], stage)

ImvLoad(t) ==
  /\ setup.model = "none" /\ InStage(t, "load")
  /\ imv' = [imv EXCEPT ![t] = Loaded(t, setup.vidx, "head")]
  /\ Inside /\ ImvOnly /\ UNCHANGED <<table, matches>>

\* The learned functions look up the second level in a stage of its own; until
\* then ht_off is an offset into the slopes and not the address of a bucket.
LearnedLoad(t) ==
  /\ setup.model # "none" /\ InStage(t, "load")
  /\ imv' = [imv EXCEPT ![t] =
               IF setup.model = "root" THEN Loaded(t, setup.vidx, "head")
               ELSE Loaded(t, [x \in Tuples |-> 0], "model")]
  /\ Inside /\ ImvOnly /\ UNCHANGED <<table, matches>>

ImvModel(t) ==
  /\ InStage(t, "model")
  /\ LET m == Machine(t)
         Placed(i, l) == IF i \in State(t).have
                         THEN [l EXCEPT !.head = setup.vidx[l.tuple]] ELSE l
     IN  imv' = [imv EXCEPT ![t] =
                  [m EXCEPT !.k = @ + 1, !.st[m.k].stage = "head",
                            !.st[m.k].lane = [i \in Lanes |-> Placed(i, @[i])]]]
  /\ Inside /\ ImvOnly /\ UNCHANGED <<table, matches>>

-----------------------------------------------------------------------------
\* Building with vectors.  The gathers and scatters of threads interleave lane
\* by lane; nothing takes a latch.
Address(t) == [i \in Lanes |-> State(t).lane[i].head]
InBuildStage(t) ==
  /\ phase[t].pc = "build"
  /\ InStage(t, "head") \/ InStage(t, "chain")

GatherStart(t) ==
  /\ InBuildStage(t)
  /\ imv' = [imv EXCEPT ![t] =
               [Machine(t) EXCEPT !.op = "gather", !.left = State(t).have]]
  /\ Inside /\ ImvOnly /\ UNCHANGED <<table, matches>>

Running(t, op) ==
  phase[t].pc = "build" /\ at[t] = "work" /\ Fid(phase[t]) = 1 /\ imv[t].op = op
Current(t) == imv[t].st[imv[t].k]
HeadOf(t, i) == heads[Current(t).lane[i].head]

\* v_ht_cell: latch and count of the head are one zero word.
GatherHead(t, i) ==
  /\ Running(t, "gather") /\ Current(t).stage = "head" /\ i \in imv[t].left
  /\ LET empty == HeadOf(t, i).count = 0 /\ latch[Current(t).lane[i].head] = Free
     IN  imv' = [imv EXCEPT ![t].left = @ \ {i},
                            ![t].chosen = IF empty THEN @ \union {i} ELSE @]
  /\ Inside /\ ImvOnly /\ UNCHANGED <<table, matches>>

\* v_next: what the head points to.
GatherNext(t, i) ==
  /\ Running(t, "gather") /\ Current(t).stage = "chain" /\ i \in imv[t].left
  /\ imv' = [imv EXCEPT ![t].left = @ \ {i}, ![t].chosen = @ \union {i},
                        ![t].next[i] = HeadOf(t, i).chain]
  /\ Inside /\ ImvOnly /\ UNCHANGED <<table, matches>>

\* Mutated form: two lanes of a vector may write to one bucket.
AllChosen(t) == imv[t].chosen

\* m_no_conflict: one lane for each bucket.
NoConflict(t) ==
  FirstOfEach(imv[t].chosen, [i \in Lanes |-> Current(t).lane[i].head])

\* With no head empty the state goes on to the chains.
Gathered(t) ==
  /\ Running(t, "gather") /\ imv[t].left = {}
  /\ imv' = [imv EXCEPT ![t] =
               IF imv[t].chosen = {}
               THEN [@ EXCEPT !.op = "turn", !.st[imv[t].k].stage = "chain"]
               ELSE [@ EXCEPT !.op = "scatter", !.chosen = NoConflict(t),
                              !.left = NoConflict(t)]]
  /\ Inside /\ ImvOnly /\ UNCHANGED <<table, matches>>

ScatterHead(t, i) ==
  /\ Running(t, "scatter") /\ Current(t).stage = "head" /\ i \in imv[t].left
  /\ heads' = [heads EXCEPT ![Current(t).lane[i].head].count = 1,
                            ![Current(t).lane[i].head].tuples[1] = Current(t).lane[i].tuple]
  /\ imv' = [imv EXCEPT ![t].left = @ \ {i}]
  /\ Inside /\ ImvOnly /\ UNCHANGED <<latch, bufs, matches>>

\* The new bucket in front of what was gathered; its count is never written.
NewChain(t, i, bs) ==
  <<NewestBucket(t, bs, 0, Current(t).lane[i].tuple)>> \o imv[t].next[i]

\* Which of the thread's new buckets a lane gets makes no difference.
ScatterNext(t, i) ==
  /\ Running(t, "scatter") /\ Current(t).stage = "chain" /\ i \in imv[t].left
  /\ bufs' = [bufs EXCEPT ![t] = GetNewBucket(@)]
  /\ heads' = [heads EXCEPT ![Current(t).lane[i].head].chain =
                              NewChain(t, i, GetNewBucket(bufs[t]))]
  /\ imv' = [imv EXCEPT ![t].left = @ \ {i}]
  /\ Inside /\ ImvOnly /\ UNCHANGED <<latch, matches>>

\* After the head stage the same state goes on, after the chain stage the next.
Scattered(t) ==
  /\ Running(t, "scatter") /\ imv[t].left = {}
  /\ LET m == [imv[t] EXCEPT !.op = "turn", !.chosen = {},
                             !.next = [i \in Lanes |-> << >>]]
         have == Current(t).have \ imv[t].chosen
     IN  imv' = [imv EXCEPT ![t] =
                   Continue(m, have, "chain", IF Current(t).stage = "head" THEN 0 ELSE 1)]
  /\ Inside /\ ImvOnly /\ UNCHANGED <<table, matches>>

-----------------------------------------------------------------------------
\* Probing.  Nothing changes the table, so an iteration is one step.

\* The first tuples of a bucket and of those behind it.
FirstTuples(b) ==
  <<heads[b].tuples[1]>> \o
  [j \in 1 .. Len(heads[b].chain) |-> heads[b].chain[j].tuples[1]]
Hits(x, b) == Cardinality({j \in DOMAIN FirstTuples(b) : FirstTuples(b)[j] = x})

ProbeOnly == UNCHANGED <<shared, args_ht, table, num_results>>

\* do { ... } while (b) for one tuple: only tuples[0] is compared.
ProbeTuple(t) ==
  /\ Working(t, "probe") /\ Fid(phase[t]) = 0 /\ scalar[t].i < NumTuples(t)
  /\ matches' = [matches EXCEPT ![t] = @ + Hits(Tuple(t), Bucket(t))]
  /\ scalar' = [scalar EXCEPT ![t].i = @ + 1]
  /\ Inside /\ ProbeOnly /\ UNCHANGED imv

ScalarProbed(t) ==
  /\ Working(t, "probe") /\ Fid(phase[t]) = 0 /\ scalar[t].i = NumTuples(t)
  /\ num_results' = [num_results EXCEPT ![t] = matches[t]]
  /\ Done(t)
  /\ UNCHANGED <<shared, args_ht, table, locals>>

\* Lanes whose bucket is empty have no match.
ProbeHead(t) ==
  /\ phase[t].pc = "probe" /\ InStage(t, "head")
  /\ LET have == {i \in State(t).have : heads[Address(t)[i]].count # 0}
     IN  imv' = [imv EXCEPT ![t] = Continue(Machine(t), have, "chain", 1)]
  /\ Inside /\ ImvOnly /\ UNCHANGED <<table, matches>>

\* Mutated form: the last bucket of a chain is not reached.
NextBeforeLast(t, i) == State(t).lane[i].pos + 1 < Len(heads[Address(t)[i]].chain)

\* The next pointer of the lane's bucket is not null.
HasNext(t, i) == State(t).lane[i].pos < Len(heads[Address(t)[i]].chain)

\* The key word of each lane against the one of its bucket, then on to the
\* bucket behind it.
ProbeChain(t) ==
  /\ phase[t].pc = "probe" /\ InStage(t, "chain")
  /\ LET m == Machine(t)
         v == State(t)
         found == {i \in v.have :
                     FirstTuples(v.lane[i].head)[v.lane[i].pos + 1] = v.lane[i].tuple}
         have == {i \in v.have : HasNext(t, i)}
         ahead == [m EXCEPT !.st[m.k].lane =
                     [i \in Lanes |-> IF i \in have
                                      THEN [v.lane[i] EXCEPT !.pos = @ + 1]
                                      ELSE v.lane[i]]]
     IN  /\ matches' = [matches EXCEPT ![t] = @ + Cardinality(found)]
         /\ imv' = [imv EXCEPT ![t] = Continue(ahead, have, "chain", 1)]
  /\ Inside /\ ImvOnly /\ UNCHANGED table

-----------------------------------------------------------------------------
\* The loop over the vector states without the stages that use the table.
Loop(t) == ImvRetire(t) \/ ImvLeave(t) \/ ImvSkip(t) \/ ImvLoad(t)
           \/ LearnedLoad(t) \/ ImvModel(t)

ScalarBuild(t) == Lock(t) \/ Claim(t) \/ Store(t) \/ Unlock(t) \/ ScalarBuilt(t)
VectorBuild(t) ==
  \/ GatherStart(t) \/ Gathered(t) \/ Scattered(t)
  \/ \E i \in Lanes : GatherHead(t, i) \/ GatherNext(t, i)
                      \/ ScatterHead(t, i) \/ ScatterNext(t, i)
  \/ phase[t].pc = "build" /\ Loop(t)
ScalarProbe(t) == ProbeTuple(t) \/ ScalarProbed(t)
VectorProbe(t) ==
  ProbeHead(t) \/ ProbeChain(t) \/ (phase[t].pc = "probe" /\ Loop(t))

\* The functions of hash_pfun and hash_pfun1.
hash_build_rel_r_partition(t) == setup.model = "none" /\ ScalarBuild(t)
hash_build_rel_r_partition_imv(t) == setup.model = "none" /\ VectorBuild(t)
hash_build_rel_r_partition_learned(t) == setup.model # "none" /\ ScalarBuild(t)
hash_build_rel_r_partition_learned_imv(t) == setup.model # "none" /\ VectorBuild(t)
hash_probe_rel_s_partition(t) == setup.model = "none" /\ ScalarProbe(t)
hash_probe_rel_s_partition_imv(t) == setup.model = "none" /\ VectorProbe(t)
hash_probe_rel_s_partition_learned(t) == setup.model # "none" /\ ScalarProbe(t)
hash_probe_rel_s_partition_learned_imv(t) == setup.model # "none" /\ VectorProbe(t)

hash_pfun(t) ==
  \/ hash_build_rel_r_partition(t) \/ hash_build_rel_r_partition_imv(t)
  \/ hash_build_rel_r_partition_learned(t) \/ hash_build_rel_r_partition_learned_imv(t)
hash_pfun1(t) ==
  \/ hash_probe_rel_s_partition(t) \/ hash_probe_rel_s_partition_imv(t)
  \/ hash_probe_rel_s_partition_learned(t) \/ hash_probe_rel_s_partition_learned_imv(t)

hash_thread(t) ==
  \/ SetFunctions(t) \/ Allocate(t) \/ Fetch(t) \/ Release(t) \/ Ready(t)
  \/ Arrive(t) \/ hash_pfun(t) \/ hash_pfun1(t)

Ended == result # -1 /\ UNCHANGED vars

Next == (\E t \in Threads : hash_thread(t)) \/ MainJoins \/ Ended

\* Every thread is scheduled by the operating system, and so is main.
Spec == Init /\ [][Next]_vars
MaxThreads == {s.threads : s \in Setups}
FairSpec ==
  /\ Spec
  /\ \A t \in 0 .. (Max(MaxThreads) - 1) : WF_vars(t \in Threads /\ hash_thread(t))
  /\ WF_vars(MainJoins)

-----------------------------------------------------------------------------
TypeOK ==
  /\ setup \in Setups
  /\ \A t \in Threads :
       /\ phase[t].pc \in {"setup", "allocate", "fetch", "build", "release",
                           "ready", "probe", "end"}
       /\ phase[t].run \in 0 .. (2 * RunNums - 1)
       /\ at[t] \in {"work", "arrive", "wait"}
       /\ scalar[t].i \in 0 .. NumTuples(t)
       /\ matches[t] \in Nat /\ num_results[t] \in Nat
       /\ imv[t].done \in 0 .. StateSize /\ imv[t].k \in 0 .. (StateSize + 1)
       /\ \A s \in 0 .. Residual : imv[t].st[s].have \subseteq Lanes
  /\ called \in 0 .. (setup.threads - 1)
  /\ live \subseteq 0 .. (2 * RunNums)
  /\ \A b \in Heads : latch[b] \in Threads \union {Free}

\* The slots that hold tuple x.
SlotsOf(b) == {<<b, 0, j>> : j \in 1 .. setup.bucketSize}
            \union {<<b, c, j>> : c \in DOMAIN heads[b].chain, j \in 1 .. setup.bucketSize}
InSlot(s) == IF s[2] = 0 THEN heads[s[1]].tuples[s[3]]
                         ELSE heads[s[1]].chain[s[2]].tuples[s[3]]
PlacesOf(x) == UNION {{s \in SlotsOf(b) : InSlot(s) = x} : b \in Heads}

TableBuilt == phase[0].pc \in {"release", "ready", "probe", "end"}

\* A tuple is never in two slots; after a build with latches, or with vectors
\* by one thread, it is in one: no interleaving, conflict of lanes or merge of
\* vector states loses or doubles it (hashing_runner.cpp:67-410).
TuplesOnce ==
  /\ \A x \in Tuples : Cardinality(PlacesOf(x)) <= 1
  /\ TableBuilt /\ (setup.threads = 1 \/ ht <= RunNums)
       => \A x \in Tuples : Cardinality(PlacesOf(x)) = 1

\* Between lock and unlock a thread has its bucket for itself (lock.h:30-50,
\* hashing_runner.cpp:101-131).
HoldsLatch(t, b) ==
  phase[t].pc = "build" /\ scalar[t].step # "lock" /\ Bucket(t) = b
LatchExclusion ==
  \A t, u \in Threads, b \in Heads : HoldsLatch(t, b) /\ HoldsLatch(u, b) => t = u

\* A thread that builds or probes works on the table of this repetition, and
\* that table is live and points only to overflow buckets of buffers that are
\* not freed, each to another one (hashing_runner.cpp:2004-2077): no barrier
\* is missing between destroying and using them.
Linked(b) == {[thread |-> c.thread, buffer |-> c.buffer, slot |-> c.slot] :
                c \in {heads[b].chain[j] : j \in DOMAIN heads[b].chain}}
NoUseAfterFree ==
  \A t \in Threads : Working(t, "build") \/ Working(t, "probe") =>
    /\ args_ht[t] = ht /\ ht \in live
    /\ \A b \in Heads :
         /\ \A a \in Linked(b) : a.buffer <= bufs[a.thread].buffers
         /\ Cardinality(Linked(b)) = Len(heads[b].chain)
         /\ \A c \in Heads \ {b} : Linked(b) \intersect Linked(c) = {}

\* Every probe counts the tuples of its part that are in the table, provided
\* it looks in the bucket the build used; with one thread the join counts all
\* of them (hashing_runner.cpp:884-1624, 2340-2344).
Probed(t) == phase[t].pc = "probe" /\ at[t] # "work"
PresentFor(t) == {x \in Slice(t) : PlacesOf(x) # {}}
ProbeCounts ==
  /\ \A t \in Threads : Probed(t) /\ (Fid(phase[t]) = 1 \/ setup.idx = setup.vidx)
                          => num_results[t] = Cardinality(PresentFor(t))
  /\ result # -1 /\ setup.threads = 1 => result = setup.n

\* Everything ends: no thread waits for a latch or in a barrier for ever, no
\* loop over the vector states goes round for ever.
JoinEnds == <>(result # -1)
=============================================================================
