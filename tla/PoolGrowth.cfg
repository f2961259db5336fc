SPECIFICATION FairSpec
CONSTANTS
  WorkerConnections = 2
  RecyWait = 1
  Hold = 0
  Workers = {}
  Senders = {}
  Epoll = ep
  AddCanFail = FALSE
  MaxConns = 14
  MaxFd = 1
  MaxAccepts = 12
  MaxMsgs = 0
  MaxClock = 1
INVARIANT GrowthBound
PROPERTY EventuallyRecycled
