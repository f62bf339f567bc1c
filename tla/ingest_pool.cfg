CONSTANTS
  MaxDocs = 2
  Contents = {h1, h2}
  Workers = {w1, w2}
  Deleters = {x1, x2}
  StepFaults = TRUE
  DbFaults = FALSE
  MaxCrashes = 0
SPECIFICATION Spec
CHECK_DEADLOCK FALSE
SYMMETRY Symmetry
INVARIANTS
  TypeOK
  CheckStaysValid
  StoresAgree
  NothingAbandoned
PROPERTY NoResurrection
