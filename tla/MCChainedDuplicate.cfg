\* One key inserted twice.
CONSTANTS
  N = 1
  BucketSize = 2
  Keys = {k1, k2}
  Payloads = {p1}
  Sentinel = Sentinel
  Absent = Absent
  Homes <- AllHomes
SYMMETRY Symmetry
SPECIFICATION ChainSpec
PROPERTIES InsertFailsOnExisting
