CONSTANTS
  MaxDocs = 1
  Contents = {h1}
  Workers = {w1}
  Deleters = {}
  StepFaults = TRUE
  DbFaults = FALSE
  MaxCrashes = 0
  RestReaders = {}
  RpcReaders = {Agent}
  ReadFaults = FALSE
SPECIFICATION ReadSpec
CHECK_DEADLOCK FALSE
PROPERTY SearchSkipsFailed
