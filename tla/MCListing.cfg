SPECIFICATION FairSpec
CONSTANTS
  Names <- SevenNames
  Keys <- FiveKeys
  Common <- Grouped
  Dir <- Directory
  MaxKeys = 2
  Asked <- SomeLimits
  Starts <- NoneOrWithin
INVARIANTS TypeOK OnceInOrder ReportsSteady
PROPERTY ListingEnds
CHECK_DEADLOCK FALSE
