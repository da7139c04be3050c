SPECIFICATION Spec
CONSTANTS
  i1 = i1
  i2 = i2
  i3 = i3
  db1 = db1
  lb1 = lb1
  Instances <- OneInstance
  DBs <- MCDBs
  LBs <- MCLBs
  MaxAttempts = 2
  MaxErrors = 1
  Global = FALSE
CHECK_DEADLOCK FALSE
INVARIANT
  CleanupLogIsTrue
