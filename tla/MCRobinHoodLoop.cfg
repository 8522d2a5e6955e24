\* Quadratic probing, ten buckets, six keys: no way can be full.
CONSTANTS
  N = 10
  Quadratic = TRUE
  Keys = {1, 2, 3, 4, 5, 6}
  Payloads = {p1}
  Sentinel = Sentinel
  Absent = Absent
  BucketSize = 1
  Homes <- SparseHomes
SPECIFICATION Spec
PROPERTIES ThrowsOnFullCycle
