CONSTANTS
  Docs = {d1, d2}
  MaxRefines = 2
SPECIFICATION FairSpec
CHECK_DEADLOCK FALSE
INVARIANTS
  TypeOK
  TokensAddUp
  CallsBounded
PROPERTIES
  AnswerContract
  RunShortens
  RunEnds
