\* Linear probing, two buckets of two slots, five keys: the table fills up,
\* inserts throw, walks wrap around.  No symmetry: CallsEnd is a liveness
\* property.
CONSTANTS
  N = 2
  Quadratic = FALSE
  Keys = {1, 2, 3, 4, 5}
  Payloads = {p1}
  Sentinel = Sentinel
  Absent = Absent
  BucketSize = 2
  Homes <- AscendingHomes
SPECIFICATION FairSpec
INVARIANTS TypeOK Reachable KeysUnique
PROPERTIES ThrowsOnFullWay ImplementsMap CallsEnd
