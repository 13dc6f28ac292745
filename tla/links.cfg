SPECIFICATION LinksFairSpec
CONSTANTS
    Call = {1, 2}
    Prefix = {wwan, mux}
    MaxSession = 1
    MaxOthers = 1
    Leftovers <- MCLeftovers
    Foreign <- MCForeign
    wwan = wwan
    mux = mux
CHECK_DEADLOCK FALSE
INVARIANTS
    HeldOnce
    OwnVerdict
    AllDeleted
PROPERTIES
    CallsAnswered
