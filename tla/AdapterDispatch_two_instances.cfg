SPECIFICATION Spec
CONSTANTS
  a = a
  b = b
  o1 = o1
  o2 = o2
  k = k
  Instances <- TwoInstances
  Loops <- OneLoop
  Orders <- OneOrder
  Cancels <- NoCancel
  MaxRestarts = 0
  MaxReadFaults = 0
INVARIANTS
  ClaimedOnce
