CONSTANTS
  a1 = a1
  a2 = a2
  Addresses <- MCAddresses
  MaxObject = 3
  Nothing = Nothing
SPECIFICATION EngineSpec
PROPERTY InitAgainIsNoOp
CHECK_DEADLOCK FALSE
