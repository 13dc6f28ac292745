SPECIFICATION TxnFairSpec
CONSTANTS
  MaxTid = 2
  MaxTasks = 2
  MaxFragments = 2
INVARIANTS TxnTypeOK ExactlyOnce StoredHasTimer WholeMessage ErrorNeedsChannel
PROPERTIES RequestsAnswered
CHECK_DEADLOCK FALSE
