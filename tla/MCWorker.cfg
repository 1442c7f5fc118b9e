CONSTANTS
  c1 = c1
  c2 = c2
  t1 = t1
  t2 = t2
  t3 = t3
  Clients <- MCClients
  Tasks <- MCTasks
  Throwing <- MCThrowing
  Builds = {TRUE, FALSE}
  NoTask = NoTask
  Loop = Loop
  Owner = Owner
  NoOne = NoOne
SPECIFICATION FairSpec
INVARIANT FifoAccounting
INVARIANT NoLostWakeup
INVARIANT LateStarts
PROPERTY StopReturns
PROPERTY SubmitReturns
PROPERTY ImplementsTaskQueue
CHECK_DEADLOCK FALSE
