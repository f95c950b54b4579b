SPECIFICATION FairSpec
CONSTANTS
  small = small  small2 = small2  large = large  none = none  error = error
  k1 = k1  t1 = t1  t2 = t2
  Keys <- OneKey
  Threads <- TwoThreads
  Objects <- ThreeObjects
  Size <- ThreeSizes
  NoObject = none
  Error = error
  Ops <- AllOps
  MaxSize = 2
  MaxBytes = 4
  Ttl = 2
  FetchBound = 1
  MaxHeads = 1
  MaxWrites = 1
INVARIANTS TypeOK SizeAccounting FreshIsRecent
PROPERTIES LargeOnlyByChange KeepsPromise ChangesShowUp
