SPECIFICATION Spec
CONSTANTS
    Workers = {w1, w2}
    ThreadCount = 1
    Clients = {c1, c2}
    Storages = {"redis"}
    MaxAge = 1
    MaxRequests = 3
    MaxClock = 1
CHECK_DEADLOCK FALSE
INVARIANTS NoStrangerData
