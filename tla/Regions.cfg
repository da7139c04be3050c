SPECIFICATION FairSpec
CONSTANTS
  r1 = r1
  r2 = r2
  Requests <- MCRequests
  VPCs <- MCVPCs
  Subnets <- MCSubnets
  VpcOf <- MCVpcOf
  Beginnings <- MCBeginnings
  NewInstances <- MCNewInstances
  PageSize = 1
  MaxChanges = 1
CHECK_DEADLOCK FALSE
INVARIANTS
  TypeOK
  ClassesHaveGrounds
  SteadyInstancesCount
  QuietScanIsTrue
  SuitableFirst
  RowOfAScan
PROPERTY
  RequestsSettle
