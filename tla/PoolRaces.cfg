SPECIFICATION Spec
CONSTANTS
  WorkerConnections = 2
  RecyWait = 3
  Hold = 1
  Workers = {w1}
  Senders = {s1}
  Epoll = ep
  AddCanFail = TRUE
  MaxConns = 4
  MaxFd = 2
  MaxAccepts = 2
  MaxMsgs = 1
  MaxClock = 4
INVARIANTS AdmissionBound TypeOK OnceInPool NoUseAfterRecycle ServesOwner PoolInv
PROPERTY ImplementsLife
