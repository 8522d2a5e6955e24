\* One thread, three tuples, every pair of index functions.  Three lanes and two vector states, two buckets, one repetition.
CONSTANTS
  VectorScale = 3
  StateSize = 2
  NumBuckets = 2
  RunNums = 1
  OverflowBufSize = 2
  NoTuple = 0
  Free = Free
  ZeroLane <- NoLane
  Setups <- MurmurJoins
SPECIFICATION Spec
INVARIANTS EveryVariationJoins
