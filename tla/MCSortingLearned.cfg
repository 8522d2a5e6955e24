\* A call returns.
CHECK_DEADLOCK FALSE
SPECIFICATION SortingSpec
CONSTANTS
  BLOCKSIZE = 256
  SmallBlock = 32
  SortInputs = {}
  Width = 2
  FifoSize = 5
  Versions = {"avx"}
  MultiwayInputs = {}
  LearnedInputs <- MCLearnedInputs
  HyperParams <- MCHyperParams
  DefaultParams <- MCDefaultParams
  MinSortingSize = 5
  ExcThreshold = 2
  ExcBatch = 2
  RelationPairs = {}
  SortMergeParams = {}
  Builds <- MCBuilds
  KeyRange = 64
  VectorScale = 3
  StateSize = 2
  ZeroLane <- MCZeroLane
  RelationSizes = {}
  MaxIds = {2, 3}
  LoadSizes = {0, 3, 6}
  PageTuples = 2
  LocalThreads = 2
  UnsetKey = UnsetKey
  NumTrainers = 3
  TrainRuns = 2
  TrainRelations = {}
  Leftovers = {0}
  Samples = {}
  NumRadixBits = 3
  MaxError = 1
  LinearLimit = 2
  SecondLevelModelCount = 5
  FullSize = 20
INVARIANT LearnedAscending
