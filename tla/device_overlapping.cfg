SPECIFICATION DeviceSpec
CONSTANTS
  MaxTid = 4
  MaxTasks = 2
  MaxFragments = 1
  MaxOps = 2
  MaxCommands = 1
  MaxSpawnRetries = 1
  OpenFlags <- PlainProxyFlags
  InSession = {FALSE}
  Patient = FALSE
INVARIANT OperationAdvances
PROPERTY UsesTransactions
CHECK_DEADLOCK FALSE
