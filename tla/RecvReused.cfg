SPECIFICATION Spec
CONSTANTS
    Workers = {w1, w2}
    Parts = 2
    MaxRequests = 1
    MaxClients = 2
CHECK_DEADLOCK FALSE
INVARIANT ReassemblesEver
