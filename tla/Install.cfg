SPECIFICATION Spec
CONSTANTS
  Commands = 3
  MaxFaults = 1
  MaxCrashes = 1
  Job <- MCJob
INVARIANTS SuccessIsWhole SharedCommandWorks
PROPERTIES ServiceRestored
CHECK_DEADLOCK FALSE
