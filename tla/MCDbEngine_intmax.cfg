SPECIFICATION Spec
CONSTANTS
  Threads = {t1, t2}
  Nobody = Nobody
  kim = kim
  lee = lee
  BadName = BadName
  Inserts <- MCEdgeInserts
  Selects <- NoSelects
  InitialFiles <- EmptyFile
  FirstCapacity = 1
  MaxInt = 9
  Faults = {}
  MaxTears = 0
  MaxCalls = 3
  MaxCrashes = 0
INVARIANTS
  UniqueIds
