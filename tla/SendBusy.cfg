SPECIFICATION Spec
CONSTANTS
    Senders = {s1}
    Workers = {w1, w2}
    RespLen = 1
    SockRoom = 1
    QueueLimit = 1
    SendLimit = 1
    MaxClients = 2
    MaxRequests = 3
    MaxSignals = 1
    Pipelined = TRUE
    CanFail = TRUE
CHECK_DEADLOCK FALSE
INVARIANT SemaphoreMatchesQueue
