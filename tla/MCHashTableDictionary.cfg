SPECIFICATION Spec
CONSTANTS
  k1 = k1
  k2 = k2
  k3 = k3
  k4 = k4
  v = v
  Keys <- MCKeys
  Hash <- MCHash
  Values <- MCValues
  DEFAULT_SIZE = 3
  MaxBuckets = 4
PROPERTY ImplementsDictionary
INVARIANT TypeOK
INVARIANT LoadBounded
PROPERTY SizeDrifts
