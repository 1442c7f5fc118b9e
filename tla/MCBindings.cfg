SPECIFICATION Spec
CONSTANTS
  Fronts <- AllFronts
  MaxHeld = 2
CHECK_DEADLOCK FALSE
INVARIANTS
  
  BlocksFreedOnce
  AnswersAsDeclared
