---------------------------- MODULE WorkerThreads ----------------------------
(***************************************************************************)
(* The threads of one worker process from its start to its end:            *)
(* ngx_worker_process_cycle (src/server/my_process_cycle.cpp) creates the  *)
(* receive pool, waits until its threads run, starts the socket's threads, *)
(* handles events until a signal sets g_stopEvent, stops the pool, wakes   *)
(* the send threads and joins everybody (my_threadpool.cpp, my_socket.cpp).*)
(*                                                                         *)
(* Requests and responses are counted only.  The semaphore of the send     *)
(* threads is posted for every response and, at the end, once per thread.  *)
(***************************************************************************)
EXTENDS Integers, FiniteSets

CONSTANTS
    Pool,        \* threads of CThreadPool
    Senders,     \* threads of ServerSendQueueThread
    Loopers,     \* recycler and timer thread
    MaxRequests  \* bound: requests that arrive

WorkerAssumption ==
    /\ IsFiniteSet(Pool) /\ IsFiniteSet(Senders) /\ IsFiniteSet(Loopers)
    /\ MaxRequests \in Nat

VARIABLES
    mpc,         \* the main thread
    tpc,         \* threads of the pool
    ifrunning,   \* ThreadItem::ifrunning of each
    spc,         \* send threads
    lpc,         \* recycler and timer thread
    stop,        \* g_stopEvent
    shutdown,    \* m_shutdown
    arrived,     \* requests that have arrived
    requests,    \* m_MsgRecvQueue
    responses,   \* m_MsgSendQueue
    sem          \* m_semEventSendQueue

queues == <<arrived, requests, responses, sem>>
vars == <<mpc, tpc, ifrunning, spc, lpc, stop, shutdown, queues>>

Init ==
    /\ mpc = "create"
    /\ tpc = [p \in Pool |-> "none"] /\ ifrunning = [p \in Pool |-> FALSE]
    /\ spc = [s \in Senders |-> "none"] /\ lpc = [l \in Loopers |-> "none"]
    /\ stop = FALSE /\ shutdown = FALSE
    /\ arrived = 0 /\ requests = 0 /\ responses = 0 /\ sem = 0

-----------------------------------------------------------------------------
(* CThreadPool::Create.  m_cv_init.wait tests its predicate and blocks; a  *)
(* notification in between, from a thread that does not hold m_mutex, is   *)
(* lost.                                                                   *)
CreateThread(p) ==
    /\ mpc = "create" /\ tpc[p] = "none"
    /\ tpc' = [tpc EXCEPT ![p] = "start"]
    /\ mpc' = IF \E q \in Pool \ {p} : tpc[q] = "none" THEN "create" ELSE "init"
    /\ UNCHANGED <<ifrunning, spc, lpc, stop, shutdown, queues>>

AllRunning == \A p \in Pool : ifrunning[p]

InitTest ==
    /\ mpc = "init"
    /\ mpc' = IF AllRunning THEN "socket" ELSE "block"
    /\ UNCHANGED <<tpc, ifrunning, spc, lpc, stop, shutdown, queues>>

InitBlock ==
    /\ mpc = "block"
    /\ mpc' = "blocked"
    /\ UNCHANGED <<tpc, ifrunning, spc, lpc, stop, shutdown, queues>>

(* Initialize_subproc: send threads, recycler, timer thread.               *)
StartThreads ==
    /\ mpc = "socket"
    /\ spc' = [s \in Senders |-> "top"] /\ lpc' = [l \in Loopers |-> "loop"]
    /\ mpc' = "serve"
    /\ UNCHANGED <<tpc, ifrunning, stop, shutdown, queues>>

(* The loop over ngx_process_events_and_timers: g_stopEvent is tested,     *)
(* then epoll_wait returns with an event, at a signal, or after 5 ms.      *)
Serve ==
    /\ mpc = "serve"
    /\ mpc' = IF stop THEN "stopAll" ELSE "wait"
    /\ UNCHANGED <<tpc, ifrunning, spc, lpc, stop, shutdown, queues>>

EpollReturns ==                  \* perhaps with a request for the pool
    /\ mpc = "wait"
    /\ mpc' = "serve"
    /\ \E n \in {0, 1} :
          /\ arrived + n <= MaxRequests
          /\ arrived' = arrived + n /\ requests' = requests + n
    /\ UNCHANGED <<tpc, ifrunning, spc, lpc, stop, shutdown, responses, sem>>

Signal ==                        \* SIGTERM or SIGQUIT
    /\ mpc # "exited" /\ ~stop
    /\ stop' = TRUE
    /\ UNCHANGED <<mpc, tpc, ifrunning, spc, lpc, shutdown, queues>>

(* CThreadPool::StopAll, then Shotdown_subproc.                            *)
StopAll ==
    /\ mpc = "stopAll"
    /\ shutdown' = TRUE
    /\ mpc' = "joinPool"
    /\ UNCHANGED <<tpc, ifrunning, spc, lpc, stop, queues>>

OnePostLess == Cardinality(Senders) - 1                             \* mutant
Posts == Cardinality(Senders)

JoinPool ==
    /\ mpc = "joinPool" /\ \A p \in Pool : tpc[p] = "done"
    /\ sem' = sem + Posts
    /\ mpc' = "join"
    /\ UNCHANGED <<tpc, ifrunning, spc, lpc, stop, shutdown, arrived, requests,
                   responses>>

Join ==                          \* and the queues are cleared
    /\ mpc = "join"
    /\ \A s \in Senders : spc[s] = "done"
    /\ \A l \in Loopers : lpc[l] = "done"
    /\ mpc' = "exited"
    /\ requests' = 0 /\ responses' = 0
    /\ UNCHANGED <<tpc, ifrunning, spc, lpc, stop, shutdown, arrived, sem>>

-----------------------------------------------------------------------------
(* CThreadPool::ThreadFunc.                                                *)
Announce(p) ==
    /\ tpc[p] = "start"
    /\ ifrunning' = [ifrunning EXCEPT ![p] = TRUE]
    /\ tpc' = [tpc EXCEPT ![p] = "notify"]
    /\ UNCHANGED <<mpc, spc, lpc, stop, shutdown, queues>>

Notify(p) ==
    /\ tpc[p] = "notify"
    /\ tpc' = [tpc EXCEPT ![p] = "loop"]
    /\ mpc' = IF mpc = "blocked" THEN "init" ELSE mpc
    /\ UNCHANGED <<ifrunning, spc, lpc, stop, shutdown, queues>>

(* m_shutdown is tested, then TryDequeue finds a request or none: a thread *)
(* may still take one after the flag is set.                               *)
TestShutdown(p) ==
    /\ tpc[p] = "loop"
    /\ tpc' = [tpc EXCEPT ![p] = IF shutdown THEN "done" ELSE "dequeue"]
    /\ UNCHANGED <<mpc, ifrunning, spc, lpc, stop, shutdown, queues>>

FindsNone(p) ==
    /\ tpc[p] = "dequeue" /\ requests = 0
    /\ tpc' = [tpc EXCEPT ![p] = "loop"]
    /\ UNCHANGED <<mpc, ifrunning, spc, lpc, stop, shutdown, queues>>

TakeRequest(p) ==
    /\ tpc[p] = "dequeue" /\ requests > 0
    /\ requests' = requests - 1
    /\ tpc' = [tpc EXCEPT ![p] = "work"]
    /\ UNCHANGED <<mpc, ifrunning, spc, lpc, stop, shutdown, arrived, responses, sem>>

Respond(p) ==                    \* msgSend queues, then posts
    /\ tpc[p] = "work"
    /\ responses' = responses + 1
    /\ tpc' = [tpc EXCEPT ![p] = "post"]
    /\ UNCHANGED <<mpc, ifrunning, spc, lpc, stop, shutdown, arrived, requests, sem>>

Post(p) ==
    /\ tpc[p] = "post"
    /\ sem' = sem + 1
    /\ tpc' = [tpc EXCEPT ![p] = "loop"]
    /\ UNCHANGED <<mpc, ifrunning, spc, lpc, stop, shutdown, arrived, requests,
                   responses>>

-----------------------------------------------------------------------------
(* ServerSendQueueThread: the flag is tested before and after sem_wait.    *)
(* That sem_wait may also return for a signal that ends nothing is left    *)
(* out: a thread it wakes finds no response (SendPath has it).             *)
SenderTop(s) ==
    /\ spc[s] = "top"
    /\ spc' = [spc EXCEPT ![s] = IF stop THEN "done" ELSE "wait"]
    /\ UNCHANGED <<mpc, tpc, ifrunning, lpc, stop, shutdown, queues>>

SemWait(s) ==
    /\ spc[s] = "wait" /\ sem > 0
    /\ sem' = sem - 1
    /\ spc' = [spc EXCEPT ![s] = "test"]
    /\ UNCHANGED <<mpc, tpc, ifrunning, lpc, stop, shutdown, arrived, requests,
                   responses>>

SenderGoesOn(s) ==                                                  \* mutant
    /\ spc[s] = "test"
    /\ spc' = [spc EXCEPT ![s] = "take"]
    /\ UNCHANGED <<mpc, tpc, ifrunning, lpc, stop, shutdown, queues>>
SenderTest(s) ==
    /\ spc[s] = "test"
    /\ spc' = [spc EXCEPT ![s] = IF stop THEN "done" ELSE "take"]
    /\ UNCHANGED <<mpc, tpc, ifrunning, lpc, stop, shutdown, queues>>

Send(s) ==
    /\ spc[s] = "take" /\ responses > 0
    /\ responses' = responses - 1
    /\ spc' = [spc EXCEPT ![s] = "top"]
    /\ UNCHANGED <<mpc, tpc, ifrunning, lpc, stop, shutdown, arrived, requests, sem>>

LooperEnds(l) ==                 \* both sleep between two tests of g_stopEvent
    /\ lpc[l] = "loop" /\ stop
    /\ lpc' = [lpc EXCEPT ![l] = "done"]
    /\ UNCHANGED <<mpc, tpc, ifrunning, spc, stop, shutdown, queues>>

MainStep ==
    \/ InitTest \/ InitBlock \/ StartThreads \/ Serve \/ EpollReturns
    \/ StopAll \/ JoinPool \/ Join \/ \E p \in Pool : CreateThread(p)
PoolStep(p) ==
    \/ Announce(p) \/ Notify(p) \/ TestShutdown(p) \/ FindsNone(p) \/ TakeRequest(p)
    \/ Respond(p) \/ Post(p)
SenderStep(s) == SenderTop(s) \/ SemWait(s) \/ SenderTest(s) \/ Send(s)

Next ==
    \/ MainStep \/ Signal
    \/ \E p \in Pool : PoolStep(p)
    \/ \E s \in Senders : SenderStep(s)
    \/ \E l \in Loopers : LooperEnds(l)

Spec == Init /\ [][Next]_vars

-----------------------------------------------------------------------------
TypeOK ==
    /\ mpc \in {"create", "init", "block", "blocked", "socket", "serve", "wait",
                "stopAll", "joinPool", "join", "exited"}
    /\ tpc \in [Pool -> {"none", "start", "notify", "loop", "dequeue", "work", "post",
                       "done"}]
    /\ ifrunning \in [Pool -> BOOLEAN]
    /\ spc \in [Senders -> {"none", "top", "wait", "test", "take", "done"}]
    /\ lpc \in [Loopers -> {"none", "loop", "done"}]
    /\ stop \in BOOLEAN /\ shutdown \in BOOLEAN
    /\ arrived \in 0 .. MaxRequests /\ requests \in 0 .. arrived
    /\ responses \in 0 .. arrived /\ sem \in Nat

(* A send thread that goes to the queue finds a response there, the wakeup *)
(* at the end included: that one is never taken for a response.            *)
NeverEmptyHanded ==
    Cardinality({s \in Senders : spc[s] = "take"}) <= responses

(* Once the worker serves, a signal ends it: nobody waits for a semaphore, *)
(* a flag or a thread that does not come, whatever is still queued.        *)
StopsServing == (stop /\ mpc \in {"serve", "wait"}) ~> (mpc = "exited")
=============================================================================
