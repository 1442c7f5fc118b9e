CONSTANTS
  a = a
  b = b
  tl1 = tl1
  tl2 = tl2
  tl3 = tl3
  pl1 = pl1
  pl2 = pl2
  pl3 = pl3
  Callers <- MCCallers
  Workers <- MCOneWorker
  TimerLoops <- MCThreeTimerLoops
  PromiseLoops <- MCThreePromiseLoops
  Fns <- MCLiveFns
  Script <- MCLiveScript
  Promises <- MCPromises
  MaxCalls = 2
  RetryCount = 1
  NoFn = NoFn
  Nobody = Nobody
SPECIFICATION FairSpec
PROPERTY CallsReturn
PROPERTY ReadySettles
CHECK_DEADLOCK FALSE
