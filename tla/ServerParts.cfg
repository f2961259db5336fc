SPECIFICATION FairSpec
CONSTANTS
    WorkerProcesses = 3
    MaxCrashes = 2
    MaxForkErrors = 1
    Users = {u1, u2}
    MinSize = 1
    MaxSize = 2
    MaxIdle = 0
    MaxMade = 4
    MaxFails = 1
    DbMaxClock = 1
    Conns = {c1, c2}
    Closers = {t1, t2}
    Wait = 1
    Kick = FALSE
    TimerMaxClock = 3
    Pool = {w1, w2}
    Senders = {s1, s2}
    Loopers = {recycler}
    MaxRequests = 2
    Kinds = {"get", "post", "form", "nolength", "badlength", "zerolength", "noboundary", "badheader", "badheaderpost", "badline"}
    LineLen = 2
    FieldLen = 1
    DelimLen = 1
    PartHeadLen = 1
    BodyLen = 3
    MaxLine = 2
    Capacity = 3
    Unit = 3
    Rate = 2
    LimiterMaxClock = 8
    CheapPrepend = 1
    InitialSize = 3
    MaxLen = 3
    MaxBytes = 9
    Methods = {get, post}
    Paths = {p1, p2}
    Patterns = {{p1}, {p1, p2}}
    ChainLength = 2
    MaxRoutes = 2
    Producers = {q1}
    Consumers = {q2}
    Nodes = {n1, n2, n3}
    Null = Null
    MaxMessages = 2
    Servers = {p1}
    ThreadCount = 2
    Clients = {u1, u2}
    Storages = {"memory", "redis"}
    MaxAge = 1
    SessionRequests = 3
    SessionMaxClock = 2
    ArraySize = 40
    Lengths = {0, 1, 4, 6}
    ReasonLengths = {8, 10}
    LogLevels = {6}
    Levels = {6, 7}
CHECK_DEADLOCK FALSE
INVARIANTS EndReachesAll OwnedByOne OldestFirst
    ProducerAwake TimedOnce NeverEmptyHanded SavesBodyOnly VerdictRight NeverOverRate
    ReadsInOrder GrowsWithDemand ServedByPriority AfterMirrorsBefore
    LinesWhole NoStrangerData SessionSurvives LogoutHolds
PROPERTIES StopsAll EventuallyServed EventuallyChecked StopsServing CompleteIsReported EventuallyReceived
