SPECIFICATION Spec
CONSTANTS
  t1 = t1
  t2 = t2
  p1 = p1
  p2 = p2
  Threads <- TwoThreads
  Previews <- TwoPreviews
  Requests <- MixedRequests
  Positions <- TwoPositions
  ClosePolicy = "TODAY_FIRST"
  MaxPosition = 3
  MaxOrders = 1
  MaxFailures = 1
  MaxPermits = 1
  MaxChanges = 2
SYMMETRY Symmetry
INVARIANTS
  TypeOK
  BudgetKept
  OneIntentPerSignal
PROPERTIES
  CoveredByGrant
  ApprovedAsShown
  UnknownStopsAuto
CHECK_DEADLOCK FALSE
