SPECIFICATION Spec
CONSTANTS
  Threads = {t1, t2}
  Nobody = Nobody
  kim = kim
  lee = lee
  BadName = BadName
  Inserts <- MCGoodInserts
  Selects <- NoSelects
  InitialFiles <- EmptyFile
  FirstCapacity = 1
  MaxInt = 9999
  Faults = {"tear"}
  MaxTears = 1
  MaxCalls = 3
  MaxCrashes = 0
INVARIANTS
  AckedDurable
