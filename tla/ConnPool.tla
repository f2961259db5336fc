------------------------------- MODULE ConnPool -------------------------------
(***************************************************************************)
(* The connection pool of one worker process (src/net/my_socket_conn.cpp,  *)
(* my_socket_accept.cpp, zdClosesocketProc of my_socket.cpp) and every     *)
(* thread that touches a pooled object: the epoll thread (accept, read     *)
(* event), the threads of the receive pool, the send threads, and the      *)
(* recycler thread that gives an object back once it has cooled down.      *)
(*                                                                         *)
(* A connection object is a number (its id).  It is on the free list, in   *)
(* the recycle queue, or in use.  Objects are never destroyed; what        *)
(* protects a thread that still works on a closed connection is the delay  *)
(* RecyWait between zdClosesocketProc and the return to the free list, and *)
(* the sequence number iCurrsequence that every message header carries.    *)
(*                                                                         *)
(* Time is std::time(nullptr): whole seconds.  Hold is the assumption on   *)
(* how late a thread can be: what it started, it finishes within Hold      *)
(* seconds (threadRecvProcFunc alone may wait 5 s on a condition variable).*)
(***************************************************************************)
EXTENDS Integers, Sequences, FiniteSets, SequencesExt

CONSTANTS
    WorkerConnections,  \* m_worker_connections
    RecyWait,           \* m_RecyConnectionWaitTime, in seconds
    Hold,               \* seconds a thread may keep working on an object
    Workers,            \* threads of the receive pool
    Senders,            \* send threads
    Epoll,              \* the thread that runs ngx_epoll_process_events
    AddCanFail,         \* whether epoll_ctl(ADD) may fail
    MaxConns,           \* bound: objects ever created
    MaxFd,              \* bound: descriptors the kernel hands out
    MaxAccepts,         \* bound: sockets accepted
    MaxMsgs,            \* bound: message headers in the two queues
    MaxClock            \* bound: seconds

ASSUME PoolAssumption ==
    /\ WorkerConnections \in Nat \ {0}
    /\ RecyWait \in Nat /\ Hold \in Nat
    /\ MaxConns \in Nat /\ WorkerConnections <= MaxConns
    /\ MaxFd \in Nat /\ MaxAccepts \in Nat /\ MaxMsgs \in Nat /\ MaxClock \in Nat
    /\ AddCanFail \in BOOLEAN
    /\ Workers \cap Senders = {}
    /\ Epoll \notin Workers \cup Senders

(* The configured delay (12 s) is more than twice the longest a thread     *)
(* keeps working on one object (5 s in threadRecvProcFunc).                *)
ASSUME DelayAssumption == 2 * Hold < RecyWait

Threads == Workers \cup Senders \cup {Epoll}
Conns == 0 .. MaxConns - 1
Fds == 1 .. MaxFd
ListenConn == 0      \* the object ngx_epoll_init gives to the listening socket
ListenFd == 0        \* its descriptor: never closed while the worker runs
NoFd == -1
NoConn == -1
NoSocket == 0        \* sockets accepted from clients are 1, 2, ...

VARIABLES
    total,           \* m_connectionList.size()
    freeList,        \* m_freeConnectionList
    recyList,        \* m_recyconnectionList
    seqNo,           \* iCurrsequence of each object
    fd,              \* fd of each object
    inRecyTime,      \* inRecyTime of each object
    online,          \* m_onlineUserCount
    totalRecy,       \* m_total_recyconnection_n
    clock,           \* std::time(nullptr)
    sweep,           \* recycler: position in recyList + 1, 0 when it does not hold
                     \* m_recyconnqueueMutex
    currtime,        \* recycler: the time it read before its sweep
    msgs,            \* headers in the receive queue and in the send queue
    pc, hold, until, \* what each thread does, on which object, and by when it is done
    closes,          \* how often the thread still calls zdClosesocketProc
    batch,           \* objects epoll_wait returned and the loop has not handled yet
    batchUntil,      \* by when it will have handled them
    acceptFd,        \* descriptor between accept4 and ngx_get_connection
    fdTable,         \* kernel: the socket behind each descriptor
    interest,        \* kernel: the object registered with epoll for a descriptor
    accepted,        \* number of sockets accepted so far
    owner,           \* ghost: the socket an object was last given to
    serves           \* ghost: the socket a thread believes it works for

pool == <<total, freeList, recyList, seqNo, inRecyTime, online, totalRecy>>
recycler == <<sweep, currtime>>
threads == <<pc, hold, until, closes, serves>>
kernel == <<fdTable, interest, accepted>>
loop == <<batch, batchUntil, acceptFd>>
vars == <<pool, fd, clock, recycler, msgs, threads, loop, kernel, owner>>

Elems(s) == {s[i] : i \in DOMAIN s}
Free == Elems(freeList)
Recycling == Elems(recyList)
InUse == {c \in Conns : c < total} \ (Free \cup Recycling)

Idle == "idle"
Busy(t) == pc[t] \notin {"idle", "get"}

(* A message header: the connection, the iCurrsequence stamped on it, and  *)
(* which queue it is in.  until is only used for the send queue.           *)
Message == [kind : {"req", "resp"}, conn : Conns, seq : Nat, until : Nat,
            sock : Nat]

-----------------------------------------------------------------------------
(* initconnection, and the object ngx_epoll_init takes for the listener.   *)
Init ==
    /\ total = WorkerConnections
    /\ freeList = [i \in 1 .. WorkerConnections - 1 |-> i]
    /\ recyList = <<>>
    /\ seqNo = [c \in Conns |-> IF c = ListenConn THEN 2
                                ELSE IF c < WorkerConnections THEN 1 ELSE 0]
    /\ fd = [c \in Conns |-> IF c = ListenConn THEN ListenFd ELSE NoFd]
    /\ inRecyTime = [c \in Conns |-> 0]
    /\ online = 1
    /\ totalRecy = 0
    /\ clock = 0
    /\ sweep = 0 /\ currtime = 0
    /\ msgs = {}
    /\ pc = [t \in Threads |-> Idle]
    /\ hold = [t \in Threads |-> NoConn]
    /\ until = [t \in Threads |-> 0]
    /\ closes = [t \in Threads |-> 0]
    /\ serves = [t \in Threads |-> NoSocket]
    /\ batch = {} /\ batchUntil = 0 /\ acceptFd = NoFd
    /\ fdTable = [f \in Fds |-> NoSocket]
    /\ interest = [f \in Fds |-> NoConn]
    /\ accepted = 0
    /\ owner = [c \in Conns |-> NoSocket]

-----------------------------------------------------------------------------
(* A thread starts to work on an object, and stops.                        *)
Lease(t, c, state, deadline, n, sock) ==
    /\ pc' = [pc EXCEPT ![t] = state]
    /\ hold' = [hold EXCEPT ![t] = c]
    /\ until' = [until EXCEPT ![t] = deadline]
    /\ closes' = [closes EXCEPT ![t] = n]
    /\ serves' = [serves EXCEPT ![t] = sock]

Release(t) == Lease(t, NoConn, Idle, 0, 0, NoSocket)

-----------------------------------------------------------------------------
(* ngx_event_accept.  accept4 returns the lowest free descriptor.          *)
FreeFds == {f \in Fds : fdTable[f] = NoSocket}
IsLowestFd(f) == f \in FreeFds /\ \A g \in FreeFds : f <= g

(* The two admission tests: too many users, or a pool that has grown past  *)
(* five times its size with little of it free.                             *)
RefusedWhenAbove ==                                                 \* mutant
    \/ online > WorkerConnections
    \/ total > 5 * WorkerConnections /\ Len(freeList) < WorkerConnections
RefusedByUsersOnly == online >= WorkerConnections                   \* mutant
Refused ==
    \/ online >= WorkerConnections
    \/ total > 5 * WorkerConnections /\ Len(freeList) < WorkerConnections

(* The bounds on accepts and on objects, named here and nowhere else.      *)
Room == freeList = <<>> => total + WorkerConnections <= MaxConns
CanAccept == pc[Epoll] = Idle /\ accepted < MaxAccepts /\ FreeFds # {} /\ Room

AcceptRefused ==     \* accept4, then close(sockfd)
    /\ CanAccept /\ Refused
    /\ accepted' = accepted + 1
    /\ UNCHANGED <<pool, fd, clock, recycler, msgs, threads, loop, fdTable,
                   interest, owner>>

Accept ==            \* accept4 and both tests passed
    /\ CanAccept /\ ~Refused
    /\ accepted' = accepted + 1
    /\ \E f \in Fds : /\ IsLowestFd(f)
                     /\ fdTable' = [fdTable EXCEPT ![f] = accepted + 1]
                     /\ acceptFd' = f
    /\ pc' = [pc EXCEPT ![Epoll] = "get"]
    /\ UNCHANGED <<pool, fd, clock, recycler, msgs, hold, until, closes, serves,
                   batch, batchUntil, interest, owner>>

(* ngx_get_connection: under m_connectionListMutex it refills an empty     *)
(* free list with WorkerConnections new objects, then takes the front one. *)
Created == IF freeList = <<>> THEN total .. total + WorkerConnections - 1 ELSE {}
RefilledOffByOne == IF freeList = <<>>                              \* mutant
                    THEN [i \in 1 .. WorkerConnections |-> total + i]
                    ELSE freeList
Refilled == IF freeList = <<>>
            THEN [i \in 1 .. WorkerConnections |-> total + i - 1]
            ELSE freeList

GetConnection(c) ==
    /\ Room
    /\ c = Head(Refilled)
    /\ total' = IF freeList = <<>> THEN total + WorkerConnections ELSE total
    /\ online' = online + 1
    /\ inRecyTime' = [inRecyTime EXCEPT ![c] = 0]
    /\ owner' = [owner EXCEPT ![c] = accepted]

(* GetOneToUse counts iCurrsequence up once for a created object and once  *)
(* for the object handed out.                                              *)
SeqAfterGet(c) ==
    [d \in Conns |-> seqNo[d] + (IF d \in Created THEN 1 ELSE 0)
                              + (IF d = c THEN 1 ELSE 0)]

Register ==          \* the object is taken and its descriptor added to epoll
    /\ pc[Epoll] = "get" /\ fdTable[acceptFd] # NoSocket
    /\ \E c \in Conns :
          /\ GetConnection(c)
          /\ freeList' = Tail(Refilled)
          /\ seqNo' = SeqAfterGet(c)
          /\ fd' = [fd EXCEPT ![c] = acceptFd]
          /\ interest' = [interest EXCEPT ![acceptFd] = c]
    /\ pc' = [pc EXCEPT ![Epoll] = Idle]
    /\ acceptFd' = NoFd
    /\ UNCHANGED <<recyList, totalRecy, clock, recycler, msgs, hold, until, closes,
                   serves, batch, batchUntil, fdTable, accepted>>

RegisterFails ==     \* epoll_ctl or setnonblocking fails: ngx_close_connection
    /\ pc[Epoll] = "get" /\ (AddCanFail \/ fdTable[acceptFd] = NoSocket)
    /\ \E c \in Conns :
          /\ GetConnection(c)
          /\ freeList' = Append(Tail(Refilled), c)
          /\ seqNo' = [SeqAfterGet(c) EXCEPT ![c] = @ + 1]
          /\ fd' = [fd EXCEPT ![c] = NoFd]
    /\ fdTable' = [fdTable EXCEPT ![acceptFd] = NoSocket]
    /\ pc' = [pc EXCEPT ![Epoll] = Idle]
    /\ acceptFd' = NoFd
    /\ UNCHANGED <<recyList, totalRecy, clock, recycler, msgs, hold, until, closes,
                   serves, batch, batchUntil, interest, accepted>>

-----------------------------------------------------------------------------
(* ngx_epoll_process_events: epoll_wait returns objects, the loop handles  *)
(* one after the other; other threads may close them in the meantime.      *)
EpollWait ==
    /\ pc[Epoll] = Idle /\ batch = {}
    /\ batch' \in SUBSET {interest[f] : f \in {g \in Fds : interest[g] # NoConn}}
    /\ batch' # {}
    /\ batchUntil' = clock + Hold
    /\ UNCHANGED <<pool, fd, clock, recycler, msgs, threads, acceptFd, kernel, owner>>

(* recv says EAGAIN or EINTR, or the event carries EPOLLHUP, EPOLLERR or   *)
(* EPOLLRDHUP, for which the loop does nothing.                            *)
EventIgnored(c) ==
    /\ pc[Epoll] = Idle /\ c \in batch
    /\ batch' = batch \ {c}
    /\ UNCHANGED <<pool, fd, clock, recycler, msgs, threads, batchUntil, acceptFd,
                   kernel, owner>>

(* ngx_http_read_request_handler got bytes: the header is stamped with the *)
(* iCurrsequence the object has now.                                       *)
EventData(c) ==
    /\ pc[Epoll] = Idle /\ c \in batch
    /\ fd[c] \in Fds /\ fdTable[fd[c]] # NoSocket
    /\ Cardinality(msgs) < MaxMsgs
    /\ batch' = batch \ {c}
    /\ msgs' = msgs \cup {[kind |-> "req", conn |-> c, seq |-> seqNo[c],
                           until |-> 0, sock |-> owner[c]]}
    /\ UNCHANGED <<pool, fd, clock, recycler, threads, batchUntil, acceptFd, kernel,
                   owner>>

(* recv returned 0 or an error, or a write event ended the response.       *)
EventClose(c) ==
    /\ pc[Epoll] = Idle /\ c \in batch
    /\ batch' = batch \ {c}
    /\ Lease(Epoll, c, "check", batchUntil, 1, owner[c])
    /\ UNCHANGED <<pool, fd, clock, recycler, msgs, batchUntil, acceptFd, kernel,
                   owner>>

-----------------------------------------------------------------------------
(* A thread dequeues a header and compares the sequence numbers.           *)
FreshAlways(m) == TRUE                                              \* mutant
Fresh(m) == m.seq = seqNo[m.conn]

DropStale(t, m) ==
    /\ pc[t] = Idle
    /\ t \in IF m.kind = "req" THEN Workers ELSE Senders
    /\ ~Fresh(m)
    /\ msgs' = msgs \ {m}
    /\ UNCHANGED <<pool, fd, clock, recycler, threads, loop, kernel, owner>>

TakeRequest(t, m) ==             \* threadRecvProcFunc
    /\ pc[t] = Idle /\ t \in Workers /\ m.kind = "req"
    /\ Fresh(m)
    /\ msgs' = msgs \ {m}
    /\ Lease(t, m.conn, "work", clock + Hold, 0, m.sock)
    /\ UNCHANGED <<pool, fd, clock, recycler, loop, kernel, owner>>

TakeResponse(t, m) ==            \* ServerSendQueueThread
    /\ pc[t] = Idle /\ t \in Senders /\ m.kind = "resp"
    /\ Fresh(m)
    /\ msgs' = msgs \ {m}
    /\ Lease(t, m.conn, "send", m.until, 0, m.sock)
    /\ UNCHANGED <<pool, fd, clock, recycler, loop, kernel, owner>>

(* msgSend stamps the response with the iCurrsequence the object has when  *)
(* the response is queued, not with the one the request carried.  The      *)
(* thread keeps the object: it resets its context afterwards.              *)
Respond(t) ==
    /\ pc[t] = "work"
    /\ Cardinality(msgs) < MaxMsgs
    /\ msgs' = msgs \cup {[kind |-> "resp", conn |-> hold[t], seq |-> seqNo[hold[t]],
                           until |-> clock + Hold, sock |-> serves[t]]}
    /\ pc' = [pc EXCEPT ![t] = "reset"]
    /\ UNCHANGED <<pool, fd, clock, recycler, hold, until, closes, serves, loop, kernel,
                   owner>>

(* An incomplete request, the reset of the context after an answer, or a   *)
(* response sent on a connection kept alive.                               *)
Finish(t) ==
    /\ pc[t] \in {"work", "reset", "send"}
    /\ Release(t)
    /\ UNCHANGED <<pool, fd, clock, recycler, msgs, loop, kernel, owner>>

(* msgSend gives up on the user (iSendCount > 400), or the send thread     *)
(* closes: an error, Connection: close, a 400 response, or the last two    *)
(* together, and then zdClosesocketProc is called twice.                   *)
StartClose(t) ==
    /\ pc[t] \in {"work", "send"}
    /\ pc' = [pc EXCEPT ![t] = "check"]
    /\ \E n \in IF pc[t] = "work" THEN {1} ELSE {1, 2} :
          closes' = [closes EXCEPT ![t] = n]
    /\ UNCHANGED <<pool, fd, clock, recycler, msgs, hold, until, serves, loop, kernel,
                   owner>>

-----------------------------------------------------------------------------
(* zdClosesocketProc, read by read and write by write: no lock protects fd.*)
CheckFd(t) ==                    \* if (p_Conn->fd != -1)
    /\ pc[t] = "check"
    /\ pc' = [pc EXCEPT ![t] = IF fd[hold[t]] = NoFd THEN "retire" ELSE "close"]
    /\ UNCHANGED <<pool, fd, clock, recycler, msgs, hold, until, closes, serves, loop,
                   kernel, owner>>

CloseFd(t) ==                    \* EPOLL_CTL_DEL and close(p_Conn->fd)
    /\ pc[t] = "close"
    /\ LET f == fd[hold[t]] IN
          /\ fdTable' = [g \in Fds |-> IF g = f THEN NoSocket ELSE fdTable[g]]
          /\ interest' = [g \in Fds |-> IF g = f THEN NoConn ELSE interest[g]]
    /\ pc' = [pc EXCEPT ![t] = "clear"]
    /\ UNCHANGED <<pool, fd, clock, recycler, msgs, hold, until, closes, serves, loop,
                   accepted, owner>>

ClearFdForgotten(t) ==                                              \* mutant
    /\ pc[t] = "clear"
    /\ pc' = [pc EXCEPT ![t] = "retire"]
    /\ UNCHANGED <<pool, fd, clock, recycler, msgs, hold, until, closes, serves, loop,
                   kernel, owner>>
ClearFd(t) ==                    \* p_Conn->fd = -1
    /\ pc[t] = "clear"
    /\ fd' = [fd EXCEPT ![hold[t]] = NoFd]
    /\ pc' = [pc EXCEPT ![t] = "retire"]
    /\ UNCHANGED <<pool, clock, recycler, msgs, hold, until, closes, serves, loop,
                   kernel, owner>>

(* inRecyConnectQueue, under m_recyconnqueueMutex: an object already in    *)
(* the queue (same id) is left alone.  m_total_recyconnection_n is only    *)
(* ever counted down.                                                      *)
EnqueueAgain(c) ==                                                  \* mutant
    /\ recyList' = Append(recyList, c)
    /\ seqNo' = [seqNo EXCEPT ![c] = @ + 1]
    /\ inRecyTime' = [inRecyTime EXCEPT ![c] = clock]
    /\ online' = online - 1
    /\ totalRecy' = totalRecy - 1
Enqueue(c) ==
    IF c \in Recycling
    THEN UNCHANGED <<recyList, seqNo, inRecyTime, online, totalRecy>>
    ELSE /\ recyList' = Append(recyList, c)
         /\ seqNo' = [seqNo EXCEPT ![c] = @ + 1]
         /\ inRecyTime' = [inRecyTime EXCEPT ![c] = clock]
         /\ online' = online - 1
         /\ totalRecy' = totalRecy - 1

Retire(t) ==
    /\ pc[t] = "retire" /\ sweep = 0
    /\ Enqueue(hold[t])
    /\ IF closes[t] > 1
       THEN /\ pc' = [pc EXCEPT ![t] = "check"]
            /\ closes' = [closes EXCEPT ![t] = @ - 1]
            /\ UNCHANGED <<hold, until, serves>>
       ELSE Release(t)
    /\ UNCHANGED <<total, freeList, fd, clock, recycler, msgs, loop, kernel, owner>>

-----------------------------------------------------------------------------
(* ServerRecyConnectionThread: it holds m_recyconnqueueMutex for the whole *)
(* sweep and takes m_connectionListMutex for each object it gives back.    *)
ExpiredEarly(c) == inRecyTime[c] + RecyWait - 1 <= currtime         \* mutant
Expired(c) == inRecyTime[c] + RecyWait <= currtime

SweepStart ==
    /\ sweep = 0
    /\ sweep' = 1 /\ currtime' = clock
    /\ UNCHANGED <<pool, fd, clock, msgs, threads, loop, kernel, owner>>

SweepFree ==                     \* ngx_free_connection, and erase from the queue
    /\ sweep \in DOMAIN recyList
    /\ LET c == recyList[sweep] IN
          /\ Expired(c)
          /\ freeList' = Append(freeList, c)
          /\ seqNo' = [seqNo EXCEPT ![c] = @ + 1]
    /\ recyList' = RemoveAt(recyList, sweep)
    /\ UNCHANGED <<total, inRecyTime, online, totalRecy, fd, clock, recycler, msgs,
                   threads, loop, kernel, owner>>

SweepStay ==                                                        \* mutant
    /\ sweep \in DOMAIN recyList
    /\ ~Expired(recyList[sweep])
    /\ UNCHANGED vars
SweepSkip ==
    /\ sweep \in DOMAIN recyList
    /\ ~Expired(recyList[sweep])
    /\ sweep' = sweep + 1
    /\ UNCHANGED <<pool, fd, clock, currtime, msgs, threads, loop, kernel, owner>>

SweepEnd ==
    /\ sweep > Len(recyList)
    /\ sweep' = 0
    /\ UNCHANGED <<pool, fd, clock, currtime, msgs, threads, loop, kernel, owner>>

(* A second passes.  No thread is later than its deadline, no response     *)
(* stays queued longer than Hold, no event waits longer in the batch.      *)
Tick ==
    /\ clock < MaxClock
    /\ \A t \in Threads : Busy(t) => clock < until[t]
    /\ \A m \in msgs : m.kind = "resp" => clock < m.until
    /\ batch # {} => clock < batchUntil
    /\ clock' = clock + 1
    /\ UNCHANGED <<pool, fd, recycler, msgs, threads, loop, kernel, owner>>

-----------------------------------------------------------------------------
EpollStep ==
    \/ AcceptRefused \/ Accept \/ Register \/ RegisterFails \/ EpollWait
    \/ \E c \in batch : EventIgnored(c) \/ EventData(c) \/ EventClose(c)

MessageStep(t) ==
    \E m \in msgs : DropStale(t, m) \/ TakeRequest(t, m) \/ TakeResponse(t, m)

WorkStep(t) == Respond(t) \/ Finish(t) \/ StartClose(t)

CloseStep(t) == CheckFd(t) \/ CloseFd(t) \/ ClearFd(t) \/ Retire(t)

Recycle == SweepStart \/ SweepFree \/ SweepSkip \/ SweepEnd

Next ==
    \/ EpollStep
    \/ \E t \in Threads : MessageStep(t) \/ WorkStep(t) \/ CloseStep(t)
    \/ Recycle
    \/ Tick

Spec == Init /\ [][Next]_vars

(* The threads are the operating system's: each one that can go on, does.  *)
FairSpec ==
    /\ Spec
    /\ WF_vars(EpollStep) /\ SF_vars(Tick)
    /\ WF_vars(SweepStart) /\ WF_vars(SweepFree) /\ WF_vars(SweepSkip)
    /\ WF_vars(SweepEnd)
    /\ \A t \in Threads : /\ WF_vars(MessageStep(t)) /\ WF_vars(WorkStep(t))
                         /\ WF_vars(CheckFd(t)) /\ WF_vars(CloseFd(t))
                         /\ WF_vars(ClearFd(t)) /\ SF_vars(Retire(t))

-----------------------------------------------------------------------------
PoolType ==
    /\ total \in 0 .. MaxConns
    /\ freeList \in Seq(Conns) /\ recyList \in Seq(Conns)
    /\ seqNo \in [Conns -> Nat]
    /\ inRecyTime \in [Conns -> Nat]
    /\ online \in Int /\ totalRecy \in Int
    /\ owner \in [Conns -> Nat]

TimeType == clock \in Nat /\ sweep \in Nat /\ currtime \in Nat

ThreadType ==
    /\ pc \in [Threads -> {"idle", "get", "work", "reset", "send", "check",
                           "close", "clear", "retire"}]
    /\ hold \in [Threads -> Conns \cup {NoConn}]
    /\ \A t \in Threads : Busy(t) => hold[t] \in Conns
    /\ until \in [Threads -> Nat]
    /\ closes \in [Threads -> 0 .. 2]
    /\ serves \in [Threads -> Nat]

LoopType ==
    /\ batch \subseteq Conns /\ batchUntil \in Nat
    /\ acceptFd \in {NoFd} \cup Fds
    /\ pc[Epoll] = "get" => acceptFd \in Fds

KernelType ==
    /\ fd \in [Conns -> {NoFd, ListenFd} \cup Fds]
    /\ fdTable \in [Fds -> Nat]
    /\ interest \in [Fds -> Conns \cup {NoConn}]
    /\ accepted \in Nat

TypeOK ==
    /\ PoolType /\ TimeType /\ ThreadType /\ LoopType /\ KernelType
    /\ msgs \subseteq Message

(* No object is twice in the free list or the recycle queue, or in both:   *)
(* an object listed twice would be handed to two clients.                  *)
OnceInPool ==
    /\ IsInjective(freeList) /\ IsInjective(recyList)
    /\ Free \cap Recycling = {}

(* Whoever still refers to an object (a thread that works on it, a queued  *)
(* response, an event of the current batch) refers to one that has not     *)
(* been given back to the free list: the delay RecyWait outlives them.     *)
NoUseAfterRecycle ==
    /\ \A t \in Threads : Busy(t) => hold[t] \notin Free
    /\ \A m \in msgs : m.kind = "resp" => m.conn \notin Free
    /\ batch \cap Free = {}

(* A thread that works for a client works on the object that still belongs *)
(* to that client: however long a request waited in the receive queue, the *)
(* comparison of sequence numbers never lets it reach the object's next    *)
(* owner.                                                                  *)
ServesOwner ==
    \A t \in Threads : Busy(t) => owner[hold[t]] = serves[t]

(* The inductive invariant behind the three properties above.  A reference *)
(* to object c that ends by second u is safe if c is in use, or cooling    *)
(* and not due before u.  A thread that may still answer a request keeps a *)
(* margin of another Hold for the response it will queue.                  *)
Safe(c, u, margin) ==
    /\ c < total /\ c \notin Free
    /\ clock <= u /\ u <= clock + Hold
    /\ c \in Recycling => u + margin < inRecyTime[c] + RecyWait

ListsInv ==
    /\ OnceInPool
    /\ \A c \in Free \cup Recycling : c < total
    /\ \A c \in Recycling : inRecyTime[c] <= clock
    /\ currtime <= clock

Margin(t) == IF pc[t] = "work" THEN Hold ELSE 0

ThreadRefs ==
    \A t \in Threads : Busy(t) =>
        Safe(hold[t], until[t], Margin(t)) /\ owner[hold[t]] = serves[t]

BatchRefs == \A c \in batch : Safe(c, batchUntil, 0)

ResponseRefs ==
    \A m \in msgs : m.kind = "resp" =>
        Safe(m.conn, m.until, 0) /\ owner[m.conn] = m.sock

(* A request that passes the comparison is for an object still in use.     *)
RequestRefs ==
    \A m \in msgs : m.kind = "req" =>
        /\ m.seq <= seqNo[m.conn]
        /\ m.seq = seqNo[m.conn] =>
              /\ m.conn < total /\ m.conn \notin Free /\ m.conn \notin Recycling
              /\ owner[m.conn] = m.sock

RefsInv == ThreadRefs /\ BatchRefs /\ ResponseRefs /\ RequestRefs

(* An object registered with epoll is in use under that descriptor, and no *)
(* thread has got past closing it; a retired object has no descriptor.     *)
FdInv ==
    /\ \A f \in Fds : interest[f] # NoConn =>
          /\ interest[f] < total
          /\ interest[f] \notin Free /\ interest[f] \notin Recycling
          /\ fd[interest[f]] = f
          /\ \A t \in Threads : pc[t] \in {"clear", "retire"} => hold[t] # interest[f]
    /\ \A c \in Recycling : fd[c] = NoFd
    /\ \A t \in Threads : pc[t] = "retire" => fd[hold[t]] = NoFd

PoolInv == ListsInv /\ RefsInv /\ FdInv

(* The count that accept looks at is never below the number of objects in  *)
(* use, and never above worker_connections, whatever the order of          *)
(* closings, recyclings, failures and accepts.                             *)
AdmissionBound ==
    /\ total - Len(freeList) - Len(recyList) <= online
    /\ online <= WorkerConnections

(* The pool stops growing at six times its configured size.                *)
GrowthBound == total <= 6 * WorkerConnections

(* An object whose delay has elapsed is given back.                        *)
EventuallyRecycled ==
    \A c \in Conns :
        (c \in Recycling /\ inRecyTime[c] + RecyWait <= MaxClock) ~> (c \in Free)

(* The pool implements the life of an object stated in ConnLife.           *)
Status == [c \in Conns |-> IF c >= total THEN "none" ELSE IF c \in Free THEN "free"
                           ELSE IF c \in Recycling THEN "cooling" ELSE "used"]
Referred == {hold[t] : t \in {u \in Threads : Busy(u)}}
            \cup {m.conn : m \in {n \in msgs : n.kind = "resp"}} \cup batch
Life == INSTANCE ConnLife WITH status <- Status, busy <- Referred
ImplementsLife == Life!Spec

-----------------------------------------------------------------------------
(* What a comment of the code says, and the code does not do.              *)

(* my_socket.cpp: zdClosesocketProc may be called by several threads.  A   *)
(* thread about to close a descriptor closes the socket of its own         *)
(* connection, or one already closed.                                      *)
ClosesOwnSocket ==
    \A t \in Threads :
        pc[t] = "close" /\ fd[hold[t]] \in Fds
            => fdTable[fd[hold[t]]] \in {NoSocket, owner[hold[t]]}
=============================================================================
