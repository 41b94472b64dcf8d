SPECIFICATION FairSpec
CONSTANTS
  Threads = {t1, t2}
  Nobody = Nobody
  kim = kim
  lee = lee
  BadName = BadName
  Inserts <- MCGoodInserts
  Selects <- MCTwoSelects
  InitialFiles <- MCDamagedFiles
  FirstCapacity = 1
  MaxInt = 9999
  Faults = {"lock", "memory", "open", "append", "tear", "index", "json", "crash"}
  MaxTears = 1
  MaxCalls = 3
  MaxCrashes = 1
INVARIANTS
  IndexSound
  RecordsValid
  MemoryMatchesFile
PROPERTIES
  EveryRequestAnswered
