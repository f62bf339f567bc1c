CONSTANTS
  Asks = {a1, a2, a3}
  Chats = {c1}
  Ghost = Ghost
  Window = 1
  UuidColumns = FALSE
  DbFaults = TRUE
  AgentFaults = TRUE
SPECIFICATION FairSpec
CHECK_DEADLOCK FALSE
INVARIANTS
  TypeOK
  AnswerAfterQuestion
  AnsweredIsStored
  WholeTurns
PROPERTY AskReplied
