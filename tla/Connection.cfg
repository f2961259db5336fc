SPECIFICATION FairSpec
CONSTANTS
    Workers = {w1, w2}
    Senders = {s1, s2}
    Parts = 2
    RespLen = 2
    SockRoom = 2
    QueueLimit = 5
    SendLimit = 1
    MaxRequests = 2
    CanFail = TRUE
CHECK_DEADLOCK FALSE
INVARIANTS AnswersInOrder Reassembles WaitsForAnother
PROPERTY EventuallyAnswered
