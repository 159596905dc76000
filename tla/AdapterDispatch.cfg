SPECIFICATION FairSpec
CONSTANTS
  a = a
  b = b
  o1 = o1
  o2 = o2
  k = k
  Instances <- OneInstance
  Loops <- TwoLoops
  Orders <- TwoOrders
  Cancels <- OneCancel
  MaxRestarts = 1
  MaxReadFaults = 1
INVARIANTS
  TypeOK
  OneExecutor
PROPERTIES
  ImplementsOrderExecutor
  EveryCommandRetired
