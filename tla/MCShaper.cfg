SPECIFICATION FairSpec
CONSTANTS
  c1 = c1  c2 = c2
  Conns <- TwoConns
  Delays <- AtOnceOrLater
  Faults <- SecondFails
  StreamCost = 1
  TotalCost = 2
  Chunk = 2
  Lengths <- SomeLengths
  MaxMessages = 1
  MaxRequests = 3
INVARIANTS TypeOK CompleteWhenClosed NoIdleLink
PROPERTY ResponsesEnd
