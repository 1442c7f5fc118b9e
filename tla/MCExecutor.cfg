CONSTANTS
  c1 = c1
  c2 = c2
  t1 = t1
  t2 = t2
  t3 = t3
  t4 = t4
  e1 = e1
  Clients <- MCClients
  Tasks <- MCTasks
  Empty <- MCEmpty
  Child <- MCChild
  Capacity = 0
  Cores <- MCCores
  NoTask = NoTask
  NoOne = NoOne
  Largest = 2
SPECIFICATION FairSpec
INVARIANT RoundRobin
INVARIANT OnePlace
PROPERTY WorkersAreQueues
PROPERTY SubmitReturns
PROPERTY TasksRun
PROPERTY DestroyReturns
CHECK_DEADLOCK FALSE
