SPECIFICATION Spec
CONSTANTS
  Proc = {p1, p2}
  MaxLines = 2
  MaxAge = 0
  MaxReports = 1
  MaxLen = 1
  Size = {1, 2}
  MaxJobs = 4
  MaxClock = 1
  MaxStops = 1
  MaxClears = 1
SYMMETRY MCSymmetry
INVARIANTS LogsKeep OneRoomKey
CHECK_DEADLOCK FALSE
