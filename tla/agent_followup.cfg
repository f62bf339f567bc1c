CONSTANTS
  Docs = {d1}
  MaxRefines = 1
SPECIFICATION Spec
CHECK_DEADLOCK FALSE
INVARIANT FollowUpResolved
