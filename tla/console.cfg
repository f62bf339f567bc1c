CONSTANTS
  MaxDocs = 1
  Contents = {h1}
  Workers = {w1}
  Deleters = {"delete_doc"}
  StepFaults = TRUE
  DbFaults = FALSE
  MaxCrashes = 1
  RestReaders <- MCRestReaders
  RpcReaders = {"agent"}
  ReadFaults = TRUE
  Listeners <- MCListeners
  Together <- MCTogether
  MaxPolls = 2
SPECIFICATION ConsoleFairSpec
CHECK_DEADLOCK FALSE
INVARIANTS
  ConsoleTypeOK
  IndexedReplyHasChunks
  SeenIsPast
  WaitShowsSettled
  DeletedStaysOffThePage
PROPERTIES
  FoundChunkCanBeShown
  WaitEnds
