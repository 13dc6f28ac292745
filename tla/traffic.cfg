SPECIFICATION TrafficSpec
CONSTANTS
    Client = {1, 2}
    Subscriber = {1, 2}
    MaxId = 4
    Standard = {"basic"}
    Other = {"x", "y"}
    Cid = {1, 2}
    StandardList <- MCStandardList
    Lists <- MCLists
    MaxRequests = 3
    Loads <- MCLoads
CHECK_DEADLOCK FALSE
INVARIANTS   MergeIsUnion WantedIsEnabled
