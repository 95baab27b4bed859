SPECIFICATION GoroutinesSpec
CONSTANTS
    Requests = {1, 4}
    Pings = {}
    Rejects = {3}
    OutCap = 2
    MaxItems = 4
    RelayCap = 2
    MaxRelays = 3
INVARIANTS
    MessagesKeepOrder
PROPERTIES
    EverythingEnds
CHECK_DEADLOCK FALSE
