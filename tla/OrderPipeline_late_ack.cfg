SPECIFICATION Spec
CONSTANTS
  N = 1
  d1 = d1
  d2 = d2
  Dispatchers <- OneDispatcher
  StatusMap <- UsualStatuses
  MaxCrashes = 0
  MaxIoFaults = 0
PROPERTIES
  FilledIsFinal
