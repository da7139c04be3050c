SPECIFICATION Spec
CONSTANTS
  c1 = c1
  c2 = c2
  uA = uA
  uB = uB
  mA = mA
  mX = mX
  h1 = h1
  h2 = h2
  Conns <- MCConns
  Customers <- MCCustomers
  Messages <- MCMessages
  Of <- MCOf
  Malformed <- MCMalformed
  Handlers <- MCHandlers
  MaxDeliveries = 2
  Nobody = Nobody
  Nothing = Nothing
CHECK_DEADLOCK FALSE
SYMMETRY StreamSymmetry
INVARIANTS
  TypeOK
  Registered
  LoopLives
PROPERTY
  ImplementsDelivery
