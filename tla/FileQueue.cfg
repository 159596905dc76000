SPECIFICATION FairSpec
CONSTANTS
  c1 = c1
  c2 = c2
  Files <- ThreeFiles
  Consumers <- TwoConsumers
  NoOne = NoOne
  Limit = 2
  MaxInterruptions = 1
INVARIANTS
  TypeOK
  AppliedAtMostOnce
  DeadLetterOnlyRefused
  ScansDoNotCollide
  HeartbeatIsNewest
PROPERTIES
  ImplementsInbox
  EveryFileRetired
CHECK_DEADLOCK FALSE
