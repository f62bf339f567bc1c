CONSTANTS
  MaxDocs = 3
  Contents = {h1, h2}
  Workers = {w1}
  Deleters = {x1}
  StepFaults = TRUE
  DbFaults = TRUE
  MaxCrashes = 1
SPECIFICATION Spec
CHECK_DEADLOCK FALSE
SYMMETRY Symmetry
INVARIANTS
  IndexedHasRows
  StoresAgree
  JobAgrees
PROPERTY LifecycleContract
