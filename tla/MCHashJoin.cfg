\* Three lanes and two vector states, two buckets, one repetition.
CONSTANTS
  VectorScale = 3
  StateSize = 2
  NumBuckets = 2
  RunNums = 1
  OverflowBufSize = 2
  NoTuple = 0
  Free = Free
  ZeroLane <- NoLane
  Setups <- SomeJoins
SPECIFICATION FairSpec
INVARIANTS TypeOK TuplesOnce LatchExclusion NoUseAfterFree ProbeCounts
PROPERTIES JoinEnds
