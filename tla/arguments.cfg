SPECIFICATION Spec
CONSTANTS
    MaxPairs = 3
    MaxParts = 6
CHECK_DEADLOCK FALSE
INVARIANT UsedAsGiven
