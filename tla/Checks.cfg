SPECIFICATION FairSpec
CONSTANTS
  Databases <- MCDatabases
  Balancers <- MCBalancers
  AlarmLists <- MCAlarmLists
  PageSize = 1
  MaxPages = 2
  MaxCPU = 950000
  Mil = 10
  Contacts <- MCContacts
CHECK_DEADLOCK FALSE
INVARIANTS
  TypeOK
  AssertsHaveASource
  ChecksAccountedFor
  SameContacts
PROPERTY
  DrainsInTheEnd
