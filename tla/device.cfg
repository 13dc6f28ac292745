SPECIFICATION DeviceSpec
CONSTANTS
  MaxTid = 3
  MaxTasks = 3
  MaxFragments = 1
  MaxOps = 2
  MaxCommands = 0
  MaxSpawnRetries = 1
  OpenFlags <- DirectFlags
  InSession = {TRUE, FALSE}
  Patient = TRUE
INVARIANTS DeviceTypeOK OperationAdvances
PROPERTIES OutcomesAreTrue CloseBeforeReopen
CHECK_DEADLOCK FALSE
