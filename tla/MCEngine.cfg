CONSTANTS
  a1 = a1
  a2 = a2
  Addresses <- MCAddresses
  MaxObject = 3
  Nothing = Nothing
SPECIFICATION EngineSpec
INVARIANT CachedIsHeld
INVARIANT SingletonsExplained
PROPERTY ReleasesAreIndependent
CHECK_DEADLOCK FALSE
