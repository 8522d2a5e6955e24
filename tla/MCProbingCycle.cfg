\* Nine buckets: the third square is a multiple of nine, so the walk returns
\* before it has seen the bucket seven places on.
CONSTANTS
  N = 9
  Quadratic = TRUE
  Keys = {1, 2, 3, 4}
  Payloads = {p1}
  Sentinel = Sentinel
  Absent = Absent
  BucketSize = 1
  Homes <- OneHome
SPECIFICATION Spec
PROPERTIES ThrowsOnFullCycle
