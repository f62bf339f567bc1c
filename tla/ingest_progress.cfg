CONSTANTS
  MaxDocs = 2
  Contents = {h1, h2}
  Workers = {w1, w2}
  Deleters = {}
  StepFaults = TRUE
  DbFaults = FALSE
  MaxCrashes = 0
SPECIFICATION FairSpec
CHECK_DEADLOCK FALSE
INVARIANT PoolSurvives
PROPERTY EveryUploadSettles
