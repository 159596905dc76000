SPECIFICATION Spec
CONSTANTS
  MaxRuns = 2
  MaxDisturbances = 1
INVARIANT TypeOK
PROPERTIES
  SyncedAfterConnect
  RunsEnd

CHECK_DEADLOCK FALSE
