SPECIFICATION Spec
CONSTANTS
  leg1 = leg1
  leg2 = leg2
  test1 = test1
  e1 = e1
  e2 = e2
  None = None
  TestProbes <- OneTest
  Legs <- TwoLegs
  Executors <- TwoExecutors
  MaxQueued = 2
  MaxCopies = 1
  MaxFaults = 1
SYMMETRY Symmetry
INVARIANTS
  TypeOK
  OrdersAreAuthorized
  HonestLegs
CHECK_DEADLOCK FALSE
