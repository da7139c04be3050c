SPECIFICATION FairSpec
CONSTANTS
  i1 = i1
  i2 = i2
  i3 = i3
  db1 = db1
  lb1 = lb1
  Instances <- MCInstances
  DBs <- MCDBs
  LBs <- MCLBs
  MaxAttempts = 1
  MaxErrors = 1
  Global = FALSE
CHECK_DEADLOCK FALSE
INVARIANTS
  TypeOK
  SuccessMeansReady
  NotificationMatchesLastEvent
  LeftoversAccountedFor
  PanicOnlyAfterFailure
  FailuresCarryErrors
PROPERTIES
  FailureIsTheLastWord
  ImplementsContract
  LaunchEnds
