SPECIFICATION Spec
CONSTANTS
  Threads = {t1, t2}
  Nobody = Nobody
  kim = kim
  lee = lee
  BadName = BadName
  Inserts <- MCInserts
  Selects <- MCSelects
  InitialFiles <- MCAnyFiles
  FirstCapacity = 1
  MaxInt = 99
  Faults = {"lock", "memory", "open", "append", "json", "crash"}
  MaxTears = 0
  MaxCalls = 4
  MaxCrashes = 1
SYMMETRY Symmetry
INVARIANTS
  TypeOK
  ReadersExcludeWriter
  AckedDurable
  UniqueIds
  NextIdIsFresh
  FileStaysLoadable
  IndexComplete
  RoomReserved
  AnswerIsSnapshot
PROPERTIES
  ImplementsUsersTable
