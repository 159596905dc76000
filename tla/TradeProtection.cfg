SPECIFICATION Spec
CONSTANTS
  t1 = t1
  t2 = t2
  Threads <- TwoThreads
  Loop = Loop
  Main = Main
  Console = Console
  MaxTerm = 2
  MaxGeneration = 3
  Orders <- ThreeOrders
  MaxQueue = 1
  MaxFaults = 1
SYMMETRY Symmetry
INVARIANTS
  TypeOK
  LivePermitIsNewest
  HaltReachesAdapter
  OnlyGrantedOpenings
  OneLateOpening
PROPERTIES
  RestartFencesPermits
  ImplementsAuthority
CHECK_DEADLOCK FALSE
