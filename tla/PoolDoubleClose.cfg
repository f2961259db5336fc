SPECIFICATION Spec
CONSTANTS
  WorkerConnections = 3
  RecyWait = 3
  Hold = 1
  Workers = {w1}
  Senders = {s1}
  Epoll = ep
  AddCanFail = FALSE
  MaxConns = 6
  MaxFd = 2
  MaxAccepts = 2
  MaxMsgs = 2
  MaxClock = 4
INVARIANT ClosesOwnSocket
