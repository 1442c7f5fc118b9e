CONSTANTS
  a = a
  b = b
  w1 = w1
  t1 = t1
  Callers <- MCCallers
  Workers <- MCWorkers
  Tasks <- MCTasks
  MaxVMs = 2
  Bridge = Bridge
  None = None
SPECIFICATION Spec
INVARIANT ReleaseSurvives
CHECK_DEADLOCK FALSE
