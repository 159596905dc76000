SPECIFICATION Spec
CONSTANTS
  N = 2
  d1 = d1
  d2 = d2
  Dispatchers <- OneDispatcher
  StatusMap <- UsualStatuses
  MaxCrashes = 1
  MaxIoFaults = 1
INVARIANTS
  TypeOK
  AtMostOneSubmission
  ReportsAreTrue
  JournalNeverDeniesOrder
  AbortIsFinal
  IntentAgreesWithChildren
  UnknownPausesAuto
  OrdersAreAccountedFor
PROPERTIES
  ImplementsSequencedOrders
