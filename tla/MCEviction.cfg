SPECIFICATION SizedSpec
CONSTANTS
  small = small  small2 = small2  none = none  error = error
  k1 = k1  k2 = k2  k3 = k3  k4 = k4  k5 = k5  k6 = k6  t1 = t1  t2 = t2
  Keys <- SixKeys
  Threads <- TwoThreads
  Objects <- TwoObjects
  Size <- TwoSizes
  NoObject = none
  Error = error
  Ops <- GetOnly
  MaxSize = 2
  MaxBytes = 8
  Ttl = 1
  FetchBound = 0
  MaxHeads = 2
  MaxWrites = 0
SYMMETRY SizedAlike
INVARIANT SizeAccounting
PROPERTIES DataEvictedByUse
