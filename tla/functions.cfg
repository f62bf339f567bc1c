CONSTANTS
  Mark = 2
  Floor = 12
  Multiplier = 2
  MaxLines = 10
  Turns = 1
  Ids <- MCIds
  Words <- MCWords
  PrepareHitsCalls <- MCPrepareHitsCalls
  NeighborsCalls <- MCNeighborsCalls
  SearchCalls <- MCSearchCalls
  MergeHitsCalls <- MCMergeHitsCalls
  ChatCalls <- MCChatCalls
SPECIFICATION Spec
CHECK_DEADLOCK FALSE
INVARIANTS
  PreparedHitsKeepKeyword
  PreparedHitsFit
  NeighborsAreAdjacent
  SearchIsComplete
  MergeIsBest
  QuestionIsCurrent
  MemoryIsPrior
