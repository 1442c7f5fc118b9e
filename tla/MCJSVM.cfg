CONSTANTS
  a = a
  b = b
  tl1 = tl1
  tl2 = tl2
  tl3 = tl3
  pl1 = pl1
  pl2 = pl2
  pl3 = pl3
  Callers <- MCCallers
  Workers <- MCWorkers
  TimerLoops <- MCTimerLoops
  PromiseLoops <- MCPromiseLoops
  Fns <- MCFns
  Script <- MCScript
  Promises <- MCPromises
  MaxCalls = 2
  RetryCount = 2
  NoFn = NoFn
  Nobody = Nobody
SPECIFICATION Spec
INVARIANT LockAccounting
INVARIANT HandleAccounting
INVARIANT PendingExplained
INVARIANT NestedAwaitStarves
CHECK_DEADLOCK FALSE
