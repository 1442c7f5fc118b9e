CONSTANTS
  u1 = u1
  u2 = u2
  f = f
  g = g
  h = h
  Users <- MCUsers
  Files <- MCFiles
  Hash <- MCHash
  Conns <- MCConns
  Results <- MCResults
  Nothing = Nothing
SYMMETRY Symmetry
SPECIFICATION Spec
INVARIANT PoolUsable
INVARIANT HandlesLive
INVARIANT DatabasesExplained
CHECK_DEADLOCK FALSE
