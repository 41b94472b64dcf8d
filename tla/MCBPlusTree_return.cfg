SPECIFICATION Spec
CONSTANTS
  MaxKeys = 2
  IntMax = 7
  Entries <- FourKeys
  MaxFails = 1
PROPERTIES
  SuccessMeansFound
