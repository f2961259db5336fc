SPECIFICATION Spec
CONSTANTS
    Workers = {w1, w2}
    Senders = {s1}
    Parts = 2
    RespLen = 1
    SockRoom = 1
    QueueLimit = 5
    SendLimit = 5
    MaxRequests = 2
    CanFail = FALSE
CHECK_DEADLOCK FALSE
INVARIANT HandledInTurn
