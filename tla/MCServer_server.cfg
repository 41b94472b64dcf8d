SPECIFICATION FairSpec
CONSTANTS
  Workers = {w1, w2}
  Main = Main
  c1 = c1
  c2 = c2
  c3 = c3
  Connections = {c1, c2, c3}
  Silent = {c3}
  Leaving = {c1}
  Says <- MCSays
  Capacity = 1
  NoOne = NoOne
INVARIANTS
  RepliesTellTheTruth
  SelectSeesAcknowledged
  EngineOutlivesWorkers
  AcceptedAreAnswered
PROPERTIES
  OthersAreServed
  StopIsObeyed
CHECK_DEADLOCK FALSE
