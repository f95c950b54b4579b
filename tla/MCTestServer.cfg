SPECIFICATION FairSpec
CONSTANTS
  s1 = s1  s2 = s2  p1 = p1  p2 = p2  any = any
  Servers <- TwoServers
  Ports <- TwoPorts
  AnyPort = any
  FirstPort <- OneFixed
  MaxStarts = 3
INVARIANTS UpMeansServed StopIsFinal
PROPERTIES CallsEnd ThreadsStop
