SPECIFICATION Spec
CONSTANTS
  Names = {"a", "b", "s", "s3object"}
  QuotedNames = {"q"}
  Whole = {"2"}
  Fractions = {"2.5"}
  Strings = {"x"}
  Relations = {"=", "<>"}
  Meant <- MeantOf
  NoName = "-"
  MaxEdits = 2
  LastByte = 2
  MaxPattern = 3
  MaxValue = 4
INVARIANTS ParsesTheLanguage KernelsMatch
CHECK_DEADLOCK FALSE
