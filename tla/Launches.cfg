SPECIFICATION FairSpec
CONSTANTS
  l1 = l1
  l2 = l2
  p1 = p1
  p2 = p2
  Launches <- MCLaunches
  Processes <- MCProcesses
  Host <- MCHost
CHECK_DEADLOCK FALSE
INVARIANTS
  TypeOK
  RowsMatchStack
  OneSuccess
  DeafenedByFailure
  TopicHasUser
  RegisteredWasActive
PROPERTY
  LaunchSettles
