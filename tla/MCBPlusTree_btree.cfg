SPECIFICATION Spec
CONSTANTS
  MaxKeys = 2
  IntMax = 7
  Entries <- SixKeys
  MaxFails = 2
INVARIANTS
  SearchMatchesMap
  Balanced
  Ordered
PROPERTIES
  InsertWithinOutcomes
