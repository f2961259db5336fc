SPECIFICATION Spec
CONSTANTS
    Senders = {s1}
    Workers = {w1}
    RespLen = 2
    SockRoom = 1
    QueueLimit = 5
    SendLimit = 2
    MaxClients = 2
    MaxRequests = 1
    MaxSignals = 0
    Pipelined = FALSE
    CanFail = TRUE
CHECK_DEADLOCK FALSE
INVARIANT OwnBytesOnly
