SPECIFICATION WatchedSpec
CONSTANTS
  c1 = c1  c2 = c2
  Conns <- TwoConns
  Delays <- AtOnce
  Faults <- NoFaults
  StreamCost = 3
  TotalCost = 2
  Chunk = 2
  Lengths <- SomeLengths
  MaxMessages = 0
  MaxRequests = 2
SYMMETRY Alike
INVARIANTS LinkKept StreamKept
