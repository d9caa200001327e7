SPECIFICATION Spec
CONSTANTS
  MaxFast = 2
  Base = 2
  Ceil = 6
  FastDelay = 1
  OutCap = 1
  MinLife = 2
  Observed = 2
  Life = {1, 4, 8}
  Asks = 2
  MaxConn = 6
INVARIANTS RedialsBounded SessionsRecorded AnswersStayHome
CHECK_DEADLOCK FALSE
