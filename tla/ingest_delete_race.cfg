CONSTANTS
  MaxDocs = 1
  Contents = {h1}
  Workers = {w1}
  Deleters = {x1}
  StepFaults = FALSE
  DbFaults = FALSE
  MaxCrashes = 0
SPECIFICATION Spec
CHECK_DEADLOCK FALSE
INVARIANT DeleteRemovesPoints
