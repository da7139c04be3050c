SPECIFICATION FairSpec
CONSTANTS
  c1 = c1
  c2 = c2
  uA = uA
  uB = uB
  mA = mA
  mX = mX
  h1 = h1
  h2 = h2
  Conns <- MCConns
  Customers <- OneCustomer
  Messages <- OneMessage
  Of <- OneOf
  Malformed <- NoMalformed
  Handlers <- OneHandler
  MaxDeliveries = 1
  Nobody = Nobody
  Nothing = Nothing
CHECK_DEADLOCK FALSE
PROPERTY
  ClosedWhenSaid
