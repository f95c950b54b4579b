SPECIFICATION ApiSpec
CONSTANTS
  empty = empty  small = small  large = large  none = none  error = error
  k1 = k1  t1 = t1  t2 = t2
  Keys <- OneKey
  Threads <- TwoThreads
  Objects <- ThreeObjects
  Size <- ThreeSizes
  NoObject = none
  Error = error
  Ops <- HeadAndReads
  MaxSize = 2
  MaxBytes = 4
  Ttl = 1
  FetchBound = 0
  MaxHeads = 1
  MaxWrites = 1
  Ranges <- SomeRanges
SYMMETRY Alike
INVARIANTS HonestNotFound ServesRecent QuietIsCoherent
