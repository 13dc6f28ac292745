SPECIFICATION DeviceSpec
CONSTANTS
  MaxTid = 3
  MaxTasks = 2
  MaxFragments = 1
  MaxOps = 1
  MaxCommands = 0
  MaxSpawnRetries = 1
  OpenFlags <- DirectFlags
  InSession = {FALSE}
  Patient = TRUE
INVARIANT AssertionHolds
CHECK_DEADLOCK FALSE
