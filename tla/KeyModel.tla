------------------------------ MODULE KeyModel ------------------------------
(***************************************************************************)
(* learned_sort.h, learned_sort_for_sort_merge.h and the join: the model   *)
(* of the distribution of the keys, a root and a layer of leaf models that *)
(* are lines, and how a sorted sample of the keys trains it.               *)
(*                                                                         *)
(* The model computes with fractions where the code computes with doubles. *)
(***************************************************************************)
EXTENDS Integers, Sequences, SequencesExt

CONSTANTS
  DefaultParams,    \* the default parameters: RMI::Params
  MinSortingSize,   \* MIN_SORTING_SIZE, the least size of a sample
  SortMergeParams,  \* the parameters of a call outside the sort
  KeyRange          \* 2^32, the number of keys of KeyType

ParamType ==
  [batch_sz : Nat, fanout : Nat, threshold : Nat, arch : Nat,
   overallocation_ratio : Nat, sampling_rate : Nat]  \* both in percent

ASSUME KeyModelAssumption ==
  /\ DefaultParams \in ParamType /\ SortMergeParams \subseteq ParamType
  /\ MinSortingSize \in Nat \ {0} /\ KeyRange \in Nat \ {0}

VARIABLES
  keys,    \* the input
  hp,      \* the parameters, validated for it
  sample,  \* training_sample
  model    \* the trained models

\* The keys of s in order.
SortedKeys(s) == SortSeq(s, LAMBDA x, y : x < y)
Smaller(x, y) == IF x < y THEN x ELSE y
Larger(x, y) == IF x < y THEN y ELSE x

INPUT_SZ == Len(keys)

-----------------------------------------------------------------------------
(* Training.                                                               *)

\* Parameters that make no sense for n keys are replaced by default ones.
Validated(p, n) ==
  LET fanout == IF p.fanout >= n THEN DefaultParams.fanout ELSE p.fanout
      useless == \/ p.threshold = 0 \/ p.threshold >= n
                 \/ p.threshold >= n \div fanout
  IN  [batch_sz |-> IF p.batch_sz >= n THEN DefaultParams.batch_sz ELSE p.batch_sz,
       fanout |-> fanout,
       overallocation_ratio |-> IF p.overallocation_ratio = 0 THEN 100
                                ELSE p.overallocation_ratio,
       sampling_rate |-> IF p.sampling_rate \notin 1 .. 100 THEN DefaultParams.sampling_rate
                         ELSE p.sampling_rate,
       threshold |-> IF useless THEN DefaultParams.threshold ELSE p.threshold,
       arch |-> IF p.arch = 0 THEN DefaultParams.arch ELSE p.arch]

SAMPLE_SZ(p, n) == Smaller(n, Larger((p.sampling_rate * n) \div 100, MinSortingSize))

\* Every offset-th key of s, sorted: these may be more than SAMPLE_SZ keys.
Sampled(p, s) ==
  LET n == Len(s)
      offset == n \div SAMPLE_SZ(p, n)
  IN  SortedKeys([i \in 1 .. ((n - 1) \div offset) + 1 |-> s[(i - 1) * offset + 1]])

\* The root model maps min .. min + dx to the leaf models 0 .. arch - 1.
LeafOf(m, k) == IF k <= m.min THEN 0 ELSE Smaller(m.arch - 1, ((m.arch - 1) * (k - m.min)) \div m.dx)

\* The line through x, y with the slope dy / dx, y in units of 1 / SAMPLE_SZ.
LOCAL Line(at, dy, dx) == [x |-> at.x, y |-> at.y, dy |-> dy, dx |-> dx]
LOCAL Constant(y) == [x |-> 0, y |-> y, dy |-> 0, dx |-> 1]

\* The two layers, from the first SAMPLE_SZ keys of the sorted sample.  Every
\* slope but the first is taken backwards, which is the same with doubles.
\* Those keys must not all be equal (the code only looks whether the whole
\* sample is): the slope of the root would be infinite and the rank of a key
\* NaN, whose conversion to an integer is undefined.
train(s, size, arch) ==
  LET root == [min |-> s[1], dx |-> s[size] - s[1], arch |-> arch]
      Point(i) == [x |-> s[i], y |-> i - 1]
      leaf == [i \in 1 .. size |-> LeafOf(root, s[i])]
      data_of == [j \in 0 .. arch - 1 |->
                    SelectSeq([i \in 1 .. size |-> i], LAMBDA i : leaf[i] = j)]
      \* The last training point of model j, a fictive one where it has too few.
      back[j \in 0 .. arch - 1] ==
        IF j = 0 /\ Len(data_of[0]) < 2 THEN [x |-> 0, y |-> 0]
        ELSE IF data_of[j] = <<>> THEN back[j - 1]
        ELSE Point(Last(data_of[j]))
      Leaf(j) ==
        CASE j = 0 /\ Len(data_of[0]) < 2 -> Constant(0)
          [] j = 0 /\ Len(data_of[0]) >= 2 ->
               Line(Point(data_of[0][1]), back[0].y, back[0].x - s[data_of[0][1]])
          [] j > 0 /\ data_of[j] = <<>> ->
               Constant(IF j = arch - 1 THEN size ELSE back[j - 1].y)
          [] OTHER ->
               Line(back[j - 1], (IF j = arch - 1 THEN size ELSE back[j].y) - back[j - 1].y,
                    s[Last(data_of[j])] - back[j - 1].x)
  IN  [root |-> root, leaf |-> [j \in 0 .. arch - 1 |-> Leaf(j)], size |-> size]

\* KeyType is unsigned: min.x.key - max.x.key is the distance from max up to
\* min around the range of the keys, and the slope is small and negative.
Backward(line) == [line EXCEPT !.dy = - @, !.dx = (KeyRange - @) % KeyRange]

\* What the constructor makes: all slopes and intercepts are 0.
Untrained(p) ==
  [root |-> [min |-> KeyRange * KeyRange, dx |-> 1, arch |-> p.arch],
   leaf |-> [j \in 0 .. p.arch - 1 |-> [x |-> 0, y |-> 0, dy |-> 0, dx |-> 1]], size |-> 1]

\* The model a sorted training sample of at least size keys gives.
Trained(s, size, p) ==
  IF s[1] = Last(s) THEN Untrained(p)
  ELSE LET m == train(s, size, p.arch)
       IN  [m EXCEPT !.leaf = [j \in DOMAIN @ |-> IF j = 0 THEN @[j] ELSE Backward(@[j])]]
=============================================================================
