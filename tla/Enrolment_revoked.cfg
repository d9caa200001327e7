SPECIFICATION Spec
CONSTANTS
  Device = {d1, d2}
  Cmd = {c1, c2}
  Attempts = 2
  Lockout = 2
  Spacing = 1
  MaxClock = 2
  MaxKills = 1
  MaxStarts = 1
  NoDevice = NoDevice
  NoCmd = NoCmd
PROPERTY RevokedIsRefused
CHECK_DEADLOCK FALSE
