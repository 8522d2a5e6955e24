\* A call of a sort returns.
\* The table: quadratic probing, five buckets: the ways of two keys share only
\* some of their buckets.  No symmetry: CallsEnd is a liveness property.
CHECK_DEADLOCK FALSE
SPECIFICATION BothSpec
CONSTANTS
  BLOCKSIZE = 256
  SmallBlock = 32
  SortInputs <- MCSortInputs
  Width = 2
  FifoSize = 5
  Versions = {"avx", "decomposed", "modulo", "bitand"}
  MultiwayInputs <- MCMultiwayInputs
  LearnedInputs <- MCLearnedInputs
  HyperParams <- MCHyperParams
  DefaultParams <- MCDefaultParams
  MinSortingSize = 5
  ExcThreshold = 2
  ExcBatch = 2
  RelationPairs <- MCRelationPairs
  SortMergeParams <- MCSortMergeParams
  Builds <- MCBuilds
  KeyRange = 64
  VectorScale = 3
  StateSize = 2
  ZeroLane <- MCZeroLane
  NumTrainers = 3
  TrainRuns = 2
  TrainRelations <- MCTrainRelations
  Leftovers = {0, 50}
  RelationSizes = {1, 3, 4, 5}
  MaxIds = {2, 3}
  LoadSizes = {0, 3, 6}
  PageTuples = 2
  LocalThreads = 2
  UnsetKey = UnsetKey
  Samples <- MCSamples
  NumRadixBits = 3
  MaxError = 1
  LinearLimit = 2
  SecondLevelModelCount = 5
  FullSize = 20
  N = 5
  Quadratic = TRUE
  Keys = {1, 2, 3, 4, 5}
  Payloads = {p1}
  Sentinel = Sentinel
  Absent = Absent
  BucketSize = 1
  Homes <- OverlappingHomes
INVARIANTS
  ChunksWhole TreeOrder LearnedSorted PartitionsSorted SampleComplete ModelsPredict RelationWhole
  TypeOK RobinHoodOrder
PROPERTIES SortEnds ExistingUntouched ThrowsOnFullWay ImplementsMap CallsEnd
