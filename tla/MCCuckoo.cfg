\* Three buckets of two slots, both kicking strategies: chains of kicks, an
\* entry that kicks itself out, and the bound on kicks.  No symmetry: CallsEnd
\* is a liveness property.
CONSTANTS
  N = 3
  BucketSize = 2
  MaxKickCycleLength = 3
  KickingFns = {"balanced", "biased"}
  Threshold = 0
  Rng = {0, 1, 2, 3}
  Keys = {1, 2, 3, 4, 5}
  Payloads = {p1}
  Sentinel = Sentinel
  Absent = Absent
  Homes <- ContendedHomes
SPECIFICATION CuckooFairSpec
INVARIANTS CuckooTypeOK WellPlaced
PROPERTIES ImplementsMap CallsEnd
