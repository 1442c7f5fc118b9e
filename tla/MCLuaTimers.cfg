CONSTANTS
  a = a
  b = b
  t1 = t1
  t2 = t2
  Callers <- MCCallers
  Loaders <- MCLoaders
  Timers <- MCTimers
  Repeats <- MCRepeats
  MaxVMs = 2
  MaxCalls = 2
  RetryCount = 2
  Nobody = Nobody
  NoTimer = NoTimer
SPECIFICATION FairSpec
INVARIANT AloneInLua
INVARIANT OneArmed
INVARIANT UsesExplained
INVARIANT TimersServed
INVARIANT AllFreed
PROPERTY CallsReturn
PROPERTY ReleaseReturns
CHECK_DEADLOCK FALSE
