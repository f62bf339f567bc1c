CONSTANTS
  MaxDocs = 1
  Contents = {h1}
  Workers = {w1}
  Deleters = {}
  StepFaults = FALSE
  DbFaults = FALSE
  MaxCrashes = 1
SPECIFICATION FairSpec
CHECK_DEADLOCK FALSE
PROPERTY EveryUploadSettles
