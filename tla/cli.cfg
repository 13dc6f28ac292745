SPECIFICATION Spec
CONSTANTS
    ArgSets <- MCArgSets
    MaxInterrupts = 2
CHECK_DEADLOCK FALSE
INVARIANTS
    SuccessIsReal
    FinishedOnce
    InterruptedFails
    SessionAsAsked
PROPERTIES
    Ends
