----------------------------- MODULE ServerParts ------------------------------
(***************************************************************************)
(* The smaller parts of the server, side by side: the master process and,  *)
(* in a worker, the life of the threads, the lock-free queue, the HTTP     *)
(* parser, the handling of a request, the sessions, the byte buffer, the   *)
(* rate limiter, the timer queue, the database pool and the logger.  As    *)
(* modelled they share no state.  A behaviour runs one of them while the   *)
(* others rest in an initial state: nothing is lost, and TLC need not      *)
(* multiply the parts with one another.                                    *)
(***************************************************************************)
EXTENDS Integers

CONSTANTS
    WorkerProcesses, MaxCrashes, MaxForkErrors,
    Users, MinSize, MaxSize, MaxIdle, MaxMade, MaxFails, DbMaxClock,
    Conns, Closers, Wait, Kick, TimerMaxClock,
    Pool, Senders, Loopers, MaxRequests,
    Kinds, LineLen, FieldLen, DelimLen, PartHeadLen, BodyLen, MaxLine,
    Capacity, Unit, Rate, LimiterMaxClock,
    CheapPrepend, InitialSize, MaxLen, MaxBytes,
    Methods, Paths, Patterns, ChainLength, MaxRoutes,
    Producers, Consumers, Nodes, Null, MaxMessages,
    Servers, ThreadCount, Clients, Storages, MaxAge, SessionRequests, SessionMaxClock,
    ArraySize, Lengths, ReasonLengths, LogLevels, Levels

VARIABLES
    part,        \* the part that runs
    masterPc, slot, pending, ngx_reap, g_stopEvent, ngx_processes, ngx_last_process, proc,
    failed, term, restarted, late, forkErrors,
    connQueue, aliveTime, held, upc, ppc, made, fails, dbClock,
    timeQueue, curSize, timerValue, status, closing, locked, monitor, absolute, currTime, due,
    timerClock,
    mpc, tpc, ifrunning, spc, lpc, stop, shutdown, reqArrived, requests, responses, sem,
    kind, arrived, parsing, pos, state, received, partHead, ok, isErr, savedTo,
    verdict, inside,
    tokens, last_time, now, admitted,
    bytes, size, readerIndex, writerIndex, written, taken, wanted,
    handlers, callbacks, regexHandlers, regexCallbacks, registered, stage, method, path,
    begun, ended, answer, served, thrown,
    head, tail, listSize, data, next, live, queuePc, ptr, nxt, other, new, msg, sent, got,
    ub, reborn,
    storage, up, sessionClock, drawn, newId, raced, object, sessions_, redis, cookie, asker,
    process, sessionPc, sid, copy, seen, kept, shared, gone,
    fd, LogLevel, logPc, call, level, err, p, reason, reached

Processes == INSTANCE Master WITH mpc <- masterPc
Db == INSTANCE DbPool WITH clock <- dbClock, MaxClock <- DbMaxClock
Timer == INSTANCE TimerQueue WITH mpc <- monitor, clock <- timerClock,
                                  MaxClock <- TimerMaxClock
Threads == INSTANCE WorkerThreads WITH arrived <- reqArrived
Parser == INSTANCE HttpParser
Limiter == INSTANCE TokenBucket WITH MaxClock <- LimiterMaxClock
Bytes == INSTANCE Buffer
Requests == INSTANCE RequestHandling WITH status <- answer
Queue == INSTANCE LockFreeQueue WITH size <- listSize, pc <- queuePc
Visits == INSTANCE Sessions WITH Workers <- Servers, MaxRequests <- SessionRequests,
                                 MaxClock <- SessionMaxClock,
                                 clock <- sessionClock, pc <- sessionPc
Log == INSTANCE Logger WITH last <- ArraySize, pc <- logPc

ASSUME PartsAssumption ==
    /\ Processes!MasterAssumption /\ Db!DbPoolAssumption /\ Timer!TimerAssumption
    /\ Threads!WorkerAssumption
    /\ Parser!ParserAssumption /\ Limiter!BucketAssumption /\ Bytes!BufferAssumption
    /\ Requests!HandlingAssumption /\ Queue!QueueAssumption /\ Visits!SessionAssumption
    /\ Log!LoggerAssumption

masterVars == <<masterPc, slot, pending, ngx_reap, g_stopEvent, ngx_processes,
                ngx_last_process, proc, failed, term, restarted, late, forkErrors>>
dbVars == <<connQueue, aliveTime, held, upc, ppc, made, fails, dbClock>>
timerVars == <<timeQueue, curSize, timerValue, status, closing, locked, monitor, absolute,
               currTime, due, timerClock>>
threadVars == <<mpc, tpc, ifrunning, spc, lpc, stop, shutdown, reqArrived, requests,
                responses, sem>>
parserVars == <<kind, arrived, parsing, pos, state, received, partHead, ok, isErr, savedTo,
                verdict, inside>>
limiterVars == <<tokens, last_time, now, admitted>>
bufferVars == <<bytes, size, readerIndex, writerIndex, written, taken, wanted>>
requestVars == <<handlers, callbacks, regexHandlers, regexCallbacks, registered, stage,
                 method, path, begun, ended, answer, served, thrown>>
queueVars == <<head, tail, listSize, data, next, live, queuePc, ptr, nxt, other, new, msg,
               sent, got, ub, reborn>>
sessionVars == <<storage, up, sessionClock, drawn, newId, raced, object, sessions_, redis,
                 cookie, asker, process, sessionPc, sid, copy, seen, kept, shared, gone>>
logVars == <<fd, LogLevel, logPc, call, level, err, p, reason, reached>>
vars == <<part, masterVars, dbVars, timerVars, threadVars, parserVars, limiterVars,
          bufferVars, requestVars, queueVars, sessionVars, logVars>>

Parts == {"master", "db", "timer", "threads", "parser", "limiter", "buffer", "requests",
          "queue", "sessions", "logger"}

Init ==
    /\ part \in Parts
    /\ Processes!Init /\ Db!Init /\ Timer!Init /\ Threads!Init /\ Parser!Init
    /\ Limiter!Init /\ Bytes!Init /\ Requests!Init /\ Queue!Init /\ Visits!Init
    /\ Log!Init
    /\ part # "db" => made = 0
    /\ part # "parser" => kind = CHOOSE k \in Kinds : TRUE
    /\ part # "requests" =>
          /\ method = CHOOSE m \in Methods : TRUE
          /\ path = CHOOSE x \in Paths : TRUE
    /\ part # "queue" => head = CHOOSE n \in Nodes : TRUE
    /\ part # "sessions" => storage = CHOOSE s \in Storages : TRUE

MasterRuns ==
    /\ part = "master" /\ Processes!Next
    /\ UNCHANGED <<part, dbVars, timerVars, threadVars, parserVars, limiterVars, bufferVars,
                   requestVars, queueVars, sessionVars, logVars>>
DbRuns ==
    /\ part = "db" /\ Db!Next
    /\ UNCHANGED <<part, masterVars, timerVars, threadVars, parserVars, limiterVars,
                   bufferVars, requestVars, queueVars, sessionVars, logVars>>
TimerRuns ==
    /\ part = "timer" /\ Timer!Next
    /\ UNCHANGED <<part, masterVars, dbVars, threadVars, parserVars, limiterVars, bufferVars,
                   requestVars, queueVars, sessionVars, logVars>>
ThreadsRun ==
    /\ part = "threads" /\ Threads!Next
    /\ UNCHANGED <<part, masterVars, dbVars, timerVars, parserVars, limiterVars, bufferVars,
                   requestVars, queueVars, sessionVars, logVars>>
ParserRuns ==
    /\ part = "parser" /\ Parser!Next
    /\ UNCHANGED <<part, masterVars, dbVars, timerVars, threadVars, limiterVars, bufferVars,
                   requestVars, queueVars, sessionVars, logVars>>
LimiterRuns ==
    /\ part = "limiter" /\ Limiter!Next
    /\ UNCHANGED <<part, masterVars, dbVars, timerVars, threadVars, parserVars, bufferVars,
                   requestVars, queueVars, sessionVars, logVars>>
BufferRuns ==
    /\ part = "buffer" /\ Bytes!Next
    /\ UNCHANGED <<part, masterVars, dbVars, timerVars, threadVars, parserVars, limiterVars,
                   requestVars, queueVars, sessionVars, logVars>>
RequestsRun ==
    /\ part = "requests" /\ Requests!Next
    /\ UNCHANGED <<part, masterVars, dbVars, timerVars, threadVars, parserVars, limiterVars,
                   bufferVars, queueVars, sessionVars, logVars>>
QueueRuns ==
    /\ part = "queue" /\ Queue!Next
    /\ UNCHANGED <<part, masterVars, dbVars, timerVars, threadVars, parserVars, limiterVars,
                   bufferVars, requestVars, sessionVars, logVars>>
SessionsRun ==
    /\ part = "sessions" /\ Visits!Next
    /\ UNCHANGED <<part, masterVars, dbVars, timerVars, threadVars, parserVars, limiterVars,
                   bufferVars, requestVars, queueVars, logVars>>
LoggerRuns ==
    /\ part = "logger" /\ Log!Next
    /\ UNCHANGED <<part, masterVars, dbVars, timerVars, threadVars, parserVars, limiterVars,
                   bufferVars, requestVars, queueVars, sessionVars>>

Next ==
    \/ MasterRuns \/ DbRuns \/ TimerRuns \/ ThreadsRun \/ ParserRuns \/ LimiterRuns
    \/ BufferRuns \/ RequestsRun \/ QueueRuns \/ SessionsRun \/ LoggerRuns

Spec == Init /\ [][Next]_vars

(* Fairness is stated for the part that runs.                              *)

(* Every process runs.  Nobody has to ask for the end or to crash.         *)
MasterFairness ==
    /\ WF_masterVars(part = "master" /\ Processes!MasterStep)
    /\ \A x \in Processes!Pids : WF_masterVars(part = "master" /\ Processes!WorkerStep(x))

(* Threads run, a borrowed connection is given back, and the mutex starves *)
(* nobody who finds again and again what it waits for.                     *)
DbFairness ==
    /\ WF_dbVars(part = "db" /\ Db!Produce)
    /\ SF_dbVars(part = "db" /\ Db!AddConnection)
    /\ \A u \in Users :
          /\ WF_dbVars(part = "db" /\ Db!WaitForOne(u))
          /\ WF_dbVars(part = "db" /\ Db!TimeOut(u))
          /\ WF_dbVars(part = "db" /\ Db!GiveBack(u))
          /\ SF_dbVars(part = "db" /\ Db!Take(u))

(* The monitor runs, who holds the lock gives it back (the mutex starves   *)
(* nobody), and time passes.                                               *)
TimerFairness ==
    /\ WF_timerVars(part = "timer" /\ Timer!StoreEarliest)
    /\ SF_timerVars(part = "timer" /\ Timer!Monitor)
    /\ WF_timerVars(part = "timer" /\ Timer!Tick)

(* Every thread runs; epoll_wait has a timeout.                            *)
ThreadFairness ==
    /\ WF_threadVars(part = "threads" /\ Threads!MainStep)
    /\ \A x \in Pool : WF_threadVars(part = "threads" /\ Threads!PoolStep(x))
    /\ \A s \in Senders : WF_threadVars(part = "threads" /\ Threads!SenderStep(s))
    /\ \A l \in Loopers : WF_threadVars(part = "threads" /\ Threads!LooperEnds(l))

(* The client sends all of its request, the thread that parses runs.       *)
ParserFairness ==
    /\ WF_parserVars(part = "parser" /\ Parser!Chunk)
    /\ WF_parserVars(part = "parser" /\ Parser!Parse)

(* Threads run, and a compare-and-swap that may succeed does in the end.   *)
QueueFairness ==
    /\ \A x \in Producers :
          /\ WF_queueVars(part = "queue" /\ (Queue!NewNode(x) \/ Queue!Enqueue(x)))
          /\ SF_queueVars(part = "queue" /\ Queue!Link(x))
    /\ \A c \in Consumers :
          /\ WF_queueVars(part = "queue" /\ Queue!TryDequeue(c))
          /\ SF_queueVars(part = "queue" /\ Queue!MoveHead(c))
          /\ SF_queueVars(part = "queue" /\ Queue!HelpDequeue(c) /\ tail' # tail)

FairSpec ==
    /\ Spec
    /\ MasterFairness /\ DbFairness /\ TimerFairness /\ ThreadFairness /\ ParserFairness
    /\ QueueFairness

-----------------------------------------------------------------------------
(* my_process_cycle.cpp: the signals of the end reach every worker.        *)
EndReachesAll == Processes!EndReachesAll
(* connectionPool.cpp: no database connection is in two hands.             *)
OwnedByOne == Db!OwnedByOne
(* connectionPool.cpp: the recycler may stop at the first young one.       *)
OldestFirst == Db!OldestFirst
(* connectionPool.cpp: no wakeup of the producer is missing.               *)
ProducerAwake == Db!ProducerAwake
(* my_socket_time.cpp: one timer for a client in use, none for others.     *)
TimedOnce == Timer!TimedOnce
(* my_socket.cpp: a send thread that dequeues finds a response.            *)
NeverEmptyHanded == Threads!NeverEmptyHanded
(* my_http_context.cpp: nothing behind the body is saved.                  *)
SavesBodyOnly == Parser!SavesBodyOnly
(* my_http_context.cpp: complete only with its body, bad only with a defect. *)
VerdictRight == Parser!VerdictRight
(* TokenBucket.cpp: no period lets more through than its limit.            *)
NeverOverRate == Limiter!NeverOverRate
(* Buffer.h: bytes come out as they went in.                               *)
ReadsInOrder == Bytes!ReadsInOrder
(* Buffer.h: the vector is at most twice as long as what it had to hold.   *)
GrowsWithDemand == Bytes!GrowsWithDemand
(* router.cpp: the first fitting route in the documented order serves.     *)
ServedByPriority == Requests!ServedByPriority
(* middlewareChain.cpp: after mirrors before; an exception reaches the client. *)
AfterMirrorsBefore == Requests!AfterMirrorsBefore
(* my_logger.cpp: a line keeps inside its array, the reason of an error is *)
(* not cut.                                                                *)
LinesWhole == Log!LinesWhole
(* sessionManager.cpp: a session holds the data of one client.             *)
NoStrangerData == Visits!NoStrangerData
(* session.cpp: a session that is used keeps its values.                   *)
SessionSurvives == Visits!SessionSurvives
(* sessionManager.cpp: a session that was destroyed does not come back.    *)
LogoutHolds == Visits!LogoutHolds

(* my_process_cycle.cpp: a request to stop ends the master and all workers. *)
StopsAll == part = "master" => Processes!StopsAll
(* connectionPool.cpp: who asks for a connection gets one.                 *)
EventuallyServed == part = "db" => Db!EventuallyServed
(* my_socket_time.cpp: a client whose time has come is looked at.          *)
EventuallyChecked == part = "timer" => Timer!EventuallyChecked
(* my_process_cycle.cpp: a worker that serves ends after a signal.         *)
StopsServing == part = "threads" => Threads!StopsServing
(* my_http_context.cpp: a request cut where it may be is reported.         *)
CompleteIsReported == part = "parser" => Parser!CompleteIsReported
(* my_lockfreequeue.h: every message is received.                          *)
EventuallyReceived == part = "queue" => Queue!EventuallyReceived
=============================================================================
