\* The pool: two datasets with two load factors, four threads on two permits,
\* one measurement each, two starts of the program; a run comes to its end.
\* The table: two first-level slots, buckets of two slots, every hash function;
\* a chain of two buckets, with keys stored twice.
CHECK_DEADLOCK FALSE
SPECIFICATION BothSpec
CONSTANTS
  D = 2
  F = 2
  C = 1
  MaxThreads = 2
  Sessions = 2
  Workers <- JobsOfRun
  Rows <- RowsOfRun
  NoWriter = NoWriter
  LowMemorySettings = {TRUE, FALSE}
  N = 2
  BucketSize = 2
  Keys = {1, 2, 3}
  Payloads = {p1, p2}
  Sentinel = Sentinel
  Absent = Absent
  Homes <- AllHomes
INVARIANTS
  PoolTypeOK
  PermitsBalanced
  NoLostWakeup
  RowsOnce
  RunCovers
  ChainTypeOK
  ChainShape
  AtMostOneShadow
PROPERTIES PoolEnds FirstInsertWins
