SPECIFICATION StreamSpec
CONSTANTS
    Message = {1, 2}
    MaxPayload = 3
    Transfers = {3, 4}
    Totals = {2}
    MaxFaults = 1
CHECK_DEADLOCK FALSE
INVARIANTS
    StreamTypeOK
    NothingLost
    WholeOrNothing
