SPECIFICATION Spec
CONSTANTS
  Requests = 1
  WsMessages = 3
  Id = {i1}
  OutCap = 1
  WsCap = 1
  MaxChunk = 2
  Body = {0, 3}
  MaxLoad = 3
  MaxFrames = 1
  MaxGen = 2
INVARIANTS AnswerWellFormed WritableByOpener
PROPERTIES RequestsEnd SocketsEnd
CHECK_DEADLOCK FALSE
