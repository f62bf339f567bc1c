CONSTANTS
  MaxDocs = 1
  Contents = {h1}
  Workers = {w1, w2}
  Deleters = {}
  StepFaults = FALSE
  DbFaults = FALSE
  MaxCrashes = 0
SPECIFICATION Spec
CHECK_DEADLOCK FALSE
PROPERTY StatusFollowsTable
