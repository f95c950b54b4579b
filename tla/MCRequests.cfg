SPECIFICATION Spec
CONSTANTS
  key = key  otherKey = otherKey  secret = secret  otherSecret = otherSecret
  empty = empty  unsigned = unsigned  streaming = streaming  forever = forever
  one = one  two = two
  AccessKey = key
  SecretKey = secret
  OtherSecret = otherSecret
  Empty = empty
  Unsigned = unsigned
  Streaming = streaming
  Forever = forever
  TicksPerSecond = 2
  Calls <- SomeCalls
  Ways <- OneChange
  Proofs <- SomeProofs
  Forged <- SomeForged
  MaxTime = 4
INVARIANTS KeepsStep HandledWasSigned HonestPasses
CHECK_DEADLOCK FALSE
