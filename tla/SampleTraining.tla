--------------------------- MODULE SampleTraining ---------------------------
(***************************************************************************)
(* hashing_runner.cpp built with RUN_LEARNED_TECHNIQUES: before the join   *)
(* its threads together take a sample of the relation and thread 0 trains  *)
(* the models, as often as the join is repeated.  Every thread writes what *)
(* it takes into a share of one array laid out by the expected size of the *)
(* sample, and thread 0 sorts as many places of it as tuples were taken.   *)
(***************************************************************************)
EXTENDS KeyModel, Memory

CONSTANTS
  NumTrainers,     \* NUM_THREADS
  TrainRuns,       \* RUN_NUMS
  TrainRelations,  \* the relations R
  Leftovers        \* keys the memory of the sample may hold before it is written

Trainers == 0 .. NumTrainers - 1

ASSUME SampleTrainingAssumption ==
  /\ NumTrainers \in Nat \ {0} /\ TrainRuns \in Nat \ {0}
  /\ \A s \in TrainRelations : s \in Seq(0 .. KeyRange - 1) /\ s # <<>>
  /\ Leftovers \subseteq 0 .. KeyRange - 1

VARIABLES
  trainPc,              \* where each thread is
  trainRun,             \* rp, the turn of the loop each thread is in
  sample_count,         \* by thread
  sampling_ptr,         \* the tuple each thread would take next
  tmp_training_sample,  \* the array, and what is behind it
  slopes                \* slopes and intercepts: leaf models

trainerVars == <<trainPc, trainRun, sample_count, sampling_ptr, tmp_training_sample, slopes>>

\* keys is the relation.
inputVars == <<keys, hp>>
sampleVars == <<inputVars, sample, model, trainerVars>>

\* main adds 1 to the size of the sample before it lays out the array.
Capacity == SAMPLE_SZ(hp, INPUT_SZ) + 1
ShareSize == Capacity \div NumTrainers

\* initialize_hash_thread_args: the last thread takes what is left over.
FirstOf(t) == (INPUT_SZ \div NumTrainers) * t
EndOf(t) == IF t = NumTrainers - 1 THEN INPUT_SZ ELSE FirstOf(t + 1)

SampleOffset == INPUT_SZ \div SAMPLE_SZ(hp, INPUT_SZ)

-----------------------------------------------------------------------------
SampleIdle ==
  /\ trainPc = [t \in Trainers |-> "idle"] /\ trainRun = [t \in Trainers |-> 1]
  /\ sample_count = [t \in Trainers |-> 0] /\ sampling_ptr = [t \in Trainers |-> 0]
  /\ tmp_training_sample = <<>> /\ slopes = <<>>

\* main validates the parameters and starts the threads.
SampleInit ==
  /\ keys \in TrainRelations
  /\ \E p \in SortMergeParams : hp = Validated(p, Len(keys)) /\ model = Untrained(hp)
  /\ sample = <<>>
  /\ trainPc = [t \in Trainers |-> "init"] /\ trainRun = [t \in Trainers |-> 1]
  /\ sample_count = [t \in Trainers |-> 0] /\ sampling_ptr = [t \in Trainers |-> FirstOf(t)]
  /\ \E left \in Leftovers : tmp_training_sample = [i \in 1 .. 2 * INPUT_SZ + 1 |-> left]
  /\ slopes = <<>>

Goes(t, from, to) == trainPc[t] = from /\ trainPc' = [trainPc EXCEPT ![t] = to]

ClearedCounts == [t \in Trainers |-> 0]

\* hash_thread: thread 0 begins the run anew.
BeginRun(t) ==
  /\ Goes(t, "init", "wait_init")
  /\ sample_count' = IF t = 0 THEN ClearedCounts ELSE sample_count
  /\ UNCHANGED <<inputVars, sample, model, trainRun, sampling_ptr, tmp_training_sample, slopes>>

\* Mutated form: the thread that trains does not wait for the others.
FirstArrived(from) == trainPc[0] = from

\* The last thread to arrive lets all threads go on.
Arrived(from) == \A t \in Trainers : trainPc[t] = from

BarrierOpens(from, to) ==
  /\ Arrived(from)
  /\ trainPc' = [t \in Trainers |-> IF trainPc[t] = from THEN to ELSE trainPc[t]]
  /\ UNCHANGED <<inputVars, sample, model, trainRun, sample_count, sampling_ptr,
                 tmp_training_sample, slopes>>

Barriers ==
  \/ BarrierOpens("wait_init", "sample")
  \/ BarrierOpens("wait_sample", "train")
  \/ BarrierOpens("wait_train", "trained")

\* sample_and_train_models_threaded: every offset-th tuple of the thread's part.
TakeSample(t) ==
  /\ trainPc[t] = "sample" /\ sampling_ptr[t] < EndOf(t)
  /\ tmp_training_sample' = Store(tmp_training_sample, ShareSize * t + sample_count[t],
                                  <<keys[sampling_ptr[t] + 1]>>)
  /\ sample_count' = [sample_count EXCEPT ![t] = @ + 1]
  /\ sampling_ptr' = [sampling_ptr EXCEPT ![t] = @ + SampleOffset]
  /\ UNCHANGED <<inputVars, sample, model, trainPc, trainRun, slopes>>

EndSample(t) ==
  /\ sampling_ptr[t] >= EndOf(t)
  /\ Goes(t, "sample", "wait_sample")
  /\ sampling_ptr' = [sampling_ptr EXCEPT ![t] = FirstOf(t)]
  /\ UNCHANGED <<inputVars, sample, model, trainRun, sample_count, tmp_training_sample, slopes>>

total_sample_count == FoldFunction(+, 0, sample_count)

\* With equal keys only the models stay what they are.
ModelFrom(s) ==
  IF total_sample_count = 0 \/ s[1] = Last(s) THEN model ELSE Trained(s, total_sample_count, hp)

\* Thread 0 sorts the beginning of the array and trains.
TrainTogether(t) ==
  /\ Goes(t, "train", "wait_train")
  /\ IF t = 0
     THEN /\ sample' = SortedKeys(Load(tmp_training_sample, 0, total_sample_count))
          /\ model' = ModelFrom(sample')
     ELSE UNCHANGED <<sample, model>>
  /\ UNCHANGED <<inputVars, trainRun, sample_count, sampling_ptr, tmp_training_sample, slopes>>

\* After the last run thread 0 hands the leaf models on to the join.
EndRun(t) ==
  LET last == trainRun[t] = TrainRuns
  IN  /\ Goes(t, "trained", IF last THEN "done" ELSE "init")
      /\ trainRun' = [trainRun EXCEPT ![t] = IF last THEN @ ELSE @ + 1]
      /\ slopes' = IF t = 0 /\ last
                   THEN slopes \o [j \in 1 .. hp.arch |-> model.leaf[j - 1]] ELSE slopes
      /\ UNCHANGED <<inputVars, sample, model, sample_count, sampling_ptr, tmp_training_sample>>

SampleNext ==
  \/ Barriers
  \/ \E t \in Trainers :
       BeginRun(t) \/ TakeSample(t) \/ EndSample(t) \/ TrainTogether(t) \/ EndRun(t)

SampleSpec == SampleInit /\ [][SampleNext]_sampleVars

-----------------------------------------------------------------------------
\* What a thread takes of its part.
Taken(t) ==
  [i \in 1 .. (EndOf(t) - FirstOf(t) + SampleOffset - 1) \div SampleOffset |->
     keys[FirstOf(t) + (i - 1) * SampleOffset + 1]]
TakenByAll == FlattenSeq([i \in 1 .. NumTrainers |-> Taken(i - 1)])

\* The parts fill their shares, without a gap before the next share and
\* without reaching into it or beyond the array.
SharesFit ==
  /\ \A t \in Trainers : t < NumTrainers - 1 => Len(Taken(t)) = ShareSize
  /\ Len(TakenByAll) <= Capacity

\* hashing_runner.cpp: in every run each thread counts exactly the tuples of
\* its own part, however the threads are interleaved with thread 0, which
\* clears and adds up the counts.  The models are trained on all the tuples
\* taken and on nothing else if every share is filled exactly; otherwise the
\* sorted beginning has places no thread wrote, tuples are overwritten by those
\* of the next thread, or the last ones lie beyond the array.  The join gets
\* each leaf model once.
SampleComplete ==
  (\E t \in Trainers : trainPc[t] # "idle") =>
    /\ trainPc[0] \in {"wait_train", "trained", "done"} =>
         /\ sample_count = [t \in Trainers |-> Len(Taken(t))]
         /\ SharesFit => /\ sample = SortedKeys(TakenByAll)
                         /\ model = Trained(sample, Len(TakenByAll), hp)
    /\ trainPc[0] = "done" => slopes = [j \in 1 .. hp.arch |-> model.leaf[j - 1]]
=============================================================================
