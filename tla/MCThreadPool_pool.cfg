SPECIFICATION FairSpec
CONSTANTS
  Workers = {w1, w2, w3}
  Main = main
  Capacity = 2
  Fds = {f1, f2, f3, f4}
  NoFd = NoFd
  Nobody = Nobody
  MaxSpurious = 1
INVARIANTS
  TypeOK
  OneOwner
  RingShape
  WorkConserved
  SubmitterNotForgotten
  NoUseAfterFree
  ShutdownDrains
PROPERTIES
  ImplementsFdQueue
  EveryClientServed
  ShutdownEnds
