SPECIFICATION Spec
CONSTANTS
  noCondition = noCondition  noLimit = noLimit
  NoCondition = noCondition
  NoLimit = noLimit
  Height <- NestingOf
  NumberedName <- NameOf
  Written <- WrittenOf
  Parsed <- ParsedOf
  Wide = {10, 11}
  Huge = {11}
  Lower <- LowerOf
  Queries <- NullBoundQueries
  BatchRows = 2
INVARIANT KeepsTrueRows
CHECK_DEADLOCK FALSE
