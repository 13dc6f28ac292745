SPECIFICATION DeviceFairSpec
CONSTANTS
  MaxTid = 3
  MaxTasks = 2
  MaxFragments = 1
  MaxOps = 2
  MaxCommands = 0
  MaxSpawnRetries = 2
  OpenFlags <- AllFlags
  InSession = {FALSE}
  Patient = TRUE
PROPERTY OperationsEnd
CHECK_DEADLOCK FALSE
