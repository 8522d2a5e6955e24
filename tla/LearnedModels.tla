--------------------------- MODULE LearnedModels ----------------------------
(***************************************************************************)
(* Two of the learned hash functions: the radix spline of rs/builder.h and *)
(* rs/radix_spline.h, built key by key from a sorted sample, and the two-  *)
(* layer RMI of rmi.hpp.  Both predict the position of a key in the sample.*)
(*                                                                         *)
(* The models compute with fractions where the code computes with doubles; *)
(* a slope is the pair of a rise and a run, compared by cross products as  *)
(* ComputeOrientation does.                                                *)
(***************************************************************************)
EXTENDS Integers, Sequences, SequencesExt, FiniteSets, FiniteSetsExt

CONSTANTS
  Samples,              \* the sorted samples to learn from
  NumRadixBits,         \* num_radix_bits, 18 by default
  MaxError,             \* max_error, 32 by default
  LinearLimit,          \* from so many spline points on the search is binary, 32
  SecondLevelModelCount,
  FullSize              \* full_size of the RMI, the output range

\* The keys of a sample are not all equal, __builtin_clzl(0) is undefined, and
\* have 64 bits.
ASSUME LearnedModelsAssumption ==
  /\ \A s \in Samples : /\ s \in Seq(Nat) /\ Len(s) > 1 /\ s[1] < Last(s)
                        /\ \A i \in 2 .. Len(s) : s[i - 1] <= s[i]
                        /\ \E k \in 1 .. 64 : Last(s) - s[1] < 2 ^ k
  /\ NumRadixBits \in 1 .. 20 /\ MaxError \in Nat /\ LinearLimit \in Nat
  /\ SecondLevelModelCount \in Nat \ {0} /\ FullSize \in Nat \ {0}

VARIABLES
  modelPc,        \* "idle", "add", "finalize", "place", "train" or "done"
  keysToLearn,    \* the sample
  curr_num_keys, curr_num_distinct_keys,
  prev_key, prev_position, prev_prefix,
  prev_point,     \* the last point of the CDF, not on the spline yet
  upper_limit, lower_limit,  \* the corridor
  spline_points,
  radix_table,
  placed,         \* how many keys are in the RMI's training buckets
  training_buckets,
  second_level_models

splineVars == <<curr_num_keys, curr_num_distinct_keys, prev_key, prev_position, prev_prefix,
                prev_point, upper_limit, lower_limit, spline_points, radix_table>>
rmiVars == <<placed, training_buckets, second_level_models>>
modelVars == <<modelPc, keysToLearn, splineVars, rmiVars>>

Coord(x, y) == [x |-> x, y |-> y]
NoCoord == Coord(0, 0)

min_key == keysToLearn[1]
max_key == Last(keysToLearn)
num_keys == Len(keysToLearn)

\* The bits of the difference beyond num_radix_bits.
num_shift_bits ==
  LET diff == max_key - min_key
      bits == CHOOSE k \in 1 .. 64 : 2 ^ (k - 1) <= diff /\ diff < 2 ^ k
  IN  IF bits < NumRadixBits THEN 0 ELSE bits - NumRadixBits

Prefix(key) == (key - min_key) \div 2 ^ num_shift_bits

-----------------------------------------------------------------------------
NoSpline ==
  /\ curr_num_keys = 0 /\ curr_num_distinct_keys = 0
  /\ prev_position = 0 /\ prev_prefix = 0
  /\ prev_point = NoCoord /\ upper_limit = NoCoord /\ lower_limit = NoCoord
  /\ spline_points = <<>>

ModelIdle ==
  /\ modelPc = "idle" /\ keysToLearn = <<>>
  /\ prev_key = 0 /\ radix_table = <<>> /\ NoSpline
  /\ placed = 0 /\ training_buckets = <<>> /\ second_level_models = <<>>

\* Builder: every prefix up to the largest key's and one more.
ModelInit ==
  /\ modelPc \in {"add", "place"}
  /\ keysToLearn \in Samples
  /\ prev_key = min_key /\ NoSpline
  /\ radix_table = [prefix \in 0 .. Prefix(max_key) + 1 |-> 0]
  /\ placed = 0 /\ second_level_models = <<>>
  /\ training_buckets = [b \in 0 .. SecondLevelModelCount - 1 |-> <<>>]

\* CW: the second vector is below the first one.
Orientation(dx1, dy1, dx2, dy2) ==
  LET expr == dy1 * dx2 - dy2 * dx1
  IN  IF expr > 0 THEN "CW" ELSE IF expr < 0 THEN "CCW" ELSE "Collinear"

\* AddKeyToSpline: the prefixes that begin with this key refer to its point.
AddKeyToSpline(p) ==
  /\ spline_points' = Append(spline_points, p)
  /\ radix_table' = [q \in DOMAIN radix_table |->
                       IF q \in prev_prefix + 1 .. Prefix(p.x) THEN Len(spline_points)
                       ELSE radix_table[q]]
  /\ prev_prefix' = Prefix(p.x)

SetLimits(upper, lower) == upper_limit' = upper /\ lower_limit' = lower

\* Mutated form: the corridor is not narrowed.
KeepLimits(key, upper, lower) == UNCHANGED <<upper_limit, lower_limit>>

\* The corridor seen from the last spline point, narrowed to this key's.
NarrowLimits(key, upper, lower) ==
  LET last == Last(spline_points)
      From(p, y) == Orientation(p.x - last.x, p.y - last.y, key - last.x, y - last.y)
  IN  SetLimits(IF From(upper_limit, upper) = "CW" THEN Coord(key, upper) ELSE upper_limit,
                IF From(lower_limit, lower) = "CCW" THEN Coord(key, lower) ELSE lower_limit)

\* AddKey and PossiblyAddKeyToSpline.
AddKey ==
  /\ modelPc = "add"
  /\ LET key == keysToLearn[curr_num_keys + 1]
         position == IF curr_num_keys = 0 THEN 0 ELSE prev_position + 1
         upper == position + MaxError
         lower == IF position < MaxError THEN 0 ELSE position - MaxError
         NewPoint == /\ curr_num_distinct_keys' = curr_num_distinct_keys + 1
                     /\ prev_point' = Coord(key, position)
         last == Last(spline_points)
         From(p) == Orientation(p.x - last.x, p.y - last.y, key - last.x, position - last.y)
         cuts == From(upper_limit) # "CW" \/ From(lower_limit) # "CCW"
         same == UNCHANGED <<spline_points, radix_table, prev_prefix>>
     IN  /\ \/ /\ curr_num_keys = 0
               /\ AddKeyToSpline(Coord(key, position)) /\ NewPoint
               /\ UNCHANGED <<upper_limit, lower_limit>>
            \/ /\ curr_num_keys > 0 /\ key = prev_key
               /\ UNCHANGED <<curr_num_distinct_keys, prev_point, upper_limit, lower_limit>> /\ same
            \/ /\ curr_num_keys > 0 /\ key # prev_key /\ curr_num_distinct_keys = 1
               /\ SetLimits(Coord(key, upper), Coord(key, lower)) /\ NewPoint /\ same
            \/ /\ curr_num_keys > 0 /\ key # prev_key /\ curr_num_distinct_keys > 1 /\ cuts
               /\ AddKeyToSpline(prev_point)
               /\ SetLimits(Coord(key, upper), Coord(key, lower)) /\ NewPoint
            \/ /\ curr_num_keys > 0 /\ key # prev_key /\ curr_num_distinct_keys > 1 /\ ~cuts
               /\ NarrowLimits(key, upper, lower) /\ NewPoint /\ same
         /\ prev_key' = key
         /\ prev_position' = position
  /\ curr_num_keys' = curr_num_keys + 1
  /\ modelPc' = IF curr_num_keys' = num_keys THEN "finalize" ELSE "add"
  /\ UNCHANGED <<keysToLearn, rmiVars>>

\* The largest key is the last point; the prefixes after the last point's
\* refer behind the spline.
Finalize ==
  /\ modelPc = "finalize"
  /\ LET ends == Last(spline_points).x = prev_key
         points == IF ends THEN spline_points
                   ELSE Append(spline_points, Coord(prev_key, prev_position))
         last == IF ends THEN prev_prefix ELSE Prefix(prev_key)
         table == [q \in DOMAIN radix_table |->
                     IF q \in prev_prefix + 1 .. last THEN Len(points) - 1 ELSE radix_table[q]]
     IN  /\ spline_points' = points
         /\ radix_table' = [q \in DOMAIN table |-> IF q > last THEN Len(points) ELSE table[q]]
         /\ prev_prefix' = last + 1
  /\ modelPc' = "done"
  /\ UNCHANGED <<keysToLearn, curr_num_keys, curr_num_distinct_keys, prev_key, prev_position,
                 prev_point, upper_limit, lower_limit, rmiVars>>

-----------------------------------------------------------------------------
(* radix_spline.h; indices of spline points count from 0.                  *)

\* The first point from `begin` on that is not below the key; the binary
\* search looks in front of `end` only.
GetSplineSegment(key) ==
  LET begin == radix_table[Prefix(key)]
      end == radix_table[Prefix(key) + 1]
      limit == IF end - begin < LinearLimit THEN Len(spline_points) - 1 ELSE end
  IN  Min({limit} \cup {i \in begin .. limit - 1 : spline_points[i + 1].x >= key})

\* The estimated position, rounded down.
GetEstimatedPosition(key) ==
  LET index == GetSplineSegment(key)
      down == spline_points[index]
      up == spline_points[index + 1]
  IN  IF key <= min_key THEN 0
      ELSE IF key >= max_key THEN num_keys - 1
      ELSE down.y + ((key - down.x) * (up.y - down.y)) \div (up.x - down.x)

GetSearchBound(key) ==
  LET estimate == GetEstimatedPosition(key)
  IN  [begin |-> IF estimate < MaxError THEN 0 ELSE estimate - MaxError,
       end |-> IF estimate + MaxError + 2 > num_keys THEN num_keys ELSE estimate + MaxError + 2]

-----------------------------------------------------------------------------
(* multi_map.h: the lookups in the sorted data, which here are the keys; a  *)
(* position counts from 0, and num_keys is end().                          *)

\* std::lower_bound within the search bound.
lower_bound(key) ==
  LET bound == GetSearchBound(key)
  IN  Min({bound.end} \cup {i \in bound.begin .. bound.end - 1 : keysToLearn[i + 1] >= key})

find(key) ==
  LET iter == lower_bound(key)
  IN  IF iter # num_keys /\ keysToLearn[iter + 1] = key THEN iter ELSE num_keys

-----------------------------------------------------------------------------
(* rmi.hpp; y in units of 1 / num_keys.                                    *)

\* (limit + 1) times the line through the points, clamped to 0 .. limit.
LinearModel(line, scale, k, limit) ==
  LET dx == line.max.x - line.min.x
      n == IF dx = 0 THEN (limit + 1) * line.min.y
           ELSE (limit + 1) * (line.min.y * dx + (line.max.y - line.min.y) * (k - line.min.x))
      d == IF dx = 0 THEN scale ELSE scale * dx
  IN  IF n < 0 THEN 0 ELSE IF n > limit * d THEN limit ELSE n \div d

RootModel(k) ==
  LinearModel([min |-> Coord(min_key, 0), max |-> Coord(max_key, 1)], 1, k,
              SecondLevelModelCount - 1)

\* A key goes into the bucket the root predicts; every bucket begins with the
\* last point of the one before it, if that is not empty.
PlaceKey ==
  /\ modelPc = "place"
  /\ LET key == keysToLearn[placed + 1]
         index == RootModel(key)
         bucket == training_buckets[index]
         first == IF bucket = <<>> /\ index > 0 /\ training_buckets[index - 1] # <<>>
                  THEN <<Last(training_buckets[index - 1])>> ELSE <<>>
     IN  training_buckets' =
           [training_buckets EXCEPT ![index] = first \o Append(bucket, Coord(key, placed))]
  /\ placed' = placed + 1
  /\ modelPc' = IF placed' = num_keys THEN "train" ELSE "place"
  /\ UNCHANGED <<keysToLearn, splineVars, second_level_models>>

\* A bucket of less than two points gets the last one of the bucket before it
\* in front of them.
TrainSecondLevel ==
  /\ modelPc = "train"
  /\ LET index == Len(second_level_models)
         bucket == training_buckets[index]
         more == IF index = 0 THEN NoCoord ELSE Last(training_buckets[index - 1])
         filled == CASE Len(bucket) = 0 -> <<more, more>>
                     [] Len(bucket) = 1 -> <<more>> \o bucket
                     [] OTHER -> bucket
     IN  /\ training_buckets' = [training_buckets EXCEPT ![index] = filled]
         /\ second_level_models' =
              Append(second_level_models, [min |-> filled[1], max |-> Last(filled)])
  /\ modelPc' = IF Len(second_level_models') = SecondLevelModelCount THEN "done" ELSE "train"
  /\ UNCHANGED <<keysToLearn, splineVars, placed>>

RMIHash(k) == LinearModel(second_level_models[RootModel(k) + 1], num_keys, k, FullSize)

ModelNext == AddKey \/ Finalize \/ PlaceKey \/ TrainSecondLevel

ModelSpec == ModelInit /\ [][ModelNext]_modelVars

-----------------------------------------------------------------------------
FirstIndex(k) == Min({i \in 1 .. num_keys : keysToLearn[i] = k})

\* The last spline point is the last copy of the largest key, not its first
\* one.  Behind the point before it the estimates are exact to max_error only
\* if the largest key is there once.
BoundedError(k) ==
  k > spline_points[Len(spline_points) - 1].x => FirstIndex(max_key) = num_keys

\* radix_spline.h and multi_map.h: within the search bound of a key whose error
\* is bounded lies its first position, where lower_bound finds it, and no
\* key's bound ends before it; for every key inside the range, learned or not,
\* the segment is the one it is in; and the estimates keep the order of all
\* keys and stay within the sample.
SplineBounds ==
  /\ \A i \in 1 .. num_keys :
       LET k == keysToLearn[i]
           first == FirstIndex(k) - 1
       IN  /\ BoundedError(k) => lower_bound(k) = first
           /\ first < GetSearchBound(k).end
  /\ \A k \in min_key + 1 .. max_key - 1 :
       LET index == GetSplineSegment(k)
       IN  spline_points[index].x < k /\ k <= spline_points[index + 1].x
  /\ \A k \in 0 .. max_key :
       /\ GetEstimatedPosition(k) \in 0 .. num_keys - 1
       /\ GetEstimatedPosition(k) <= GetEstimatedPosition(k + 1)

\* rmi.hpp: the hash of the keys of the sample is in the range and keeps
\* their order, whichever of the second-level models is left empty.
RmiKeepsOrder ==
  \A i, j \in 1 .. num_keys :
    /\ RMIHash(keysToLearn[i]) \in 0 .. FullSize
    /\ keysToLearn[i] < keysToLearn[j] => RMIHash(keysToLearn[i]) <= RMIHash(keysToLearn[j])

\* rs/radix_spline.h and rmi.hpp: once a model is built from a sample it
\* predicts the positions of the sample's keys: the radix spline within
\* max_error where it is bounded (MultiMapFinds of MCSorting is what is promised
\* of every key), with a radix table that never points past a key's segment,
\* the RMI in their order.
ModelsPredict ==
  modelPc = "done" => IF second_level_models = <<>> THEN SplineBounds ELSE RmiKeepsOrder
=============================================================================
