SPECIFICATION WatchedSpec
CONSTANTS
  small = small  small2 = small2  none = none  error = error
  k1 = k1  k2 = k2  k3 = k3  k4 = k4  k5 = k5  k6 = k6  t1 = t1  t2 = t2
  Keys <- ThreeKeys
  Threads <- OneThread
  Objects <- OneObject
  Size <- OneSize
  NoObject = none
  Error = error
  Ops <- HeadOnly
  MaxSize = 1
  MaxBytes = 4
  Ttl = 0
  FetchBound = 0
  MaxHeads = 2
  MaxWrites = 0
SYMMETRY Alike
PROPERTIES HeadsEvictedByUse
