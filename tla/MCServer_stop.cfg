SPECIFICATION FairSpec
CONSTANTS
  Workers = {w1, w2}
  Main = Main
  c1 = c1
  c2 = c2
  c3 = c3
  Connections = {c1}
  Silent = {}
  Leaving = {}
  Says <- MCSays
  Capacity = 1
  NoOne = NoOne
PROPERTIES
  SignalEndsServer
CHECK_DEADLOCK FALSE
