-------------------------------- MODULE DbPool --------------------------------
(***************************************************************************)
(* The pool of database connections (src/dbconnpool/connectionPool.cpp):   *)
(* threads that borrow and return connections, the producer that keeps     *)
(* MinSize of them idle, and the recycler that deletes idle ones above     *)
(* MaxSize.  Everything happens under m_mutex, so a step is a critical     *)
(* section; the condition variables make the order of steps matter.        *)
(***************************************************************************)
EXTENDS Integers, Sequences, FiniteSets, FiniteSetsExt, SequencesExt

CONSTANTS
    Users,       \* threads that call getConnection
    MinSize,     \* m_minSize
    MaxSize,     \* m_maxSize
    MaxIdle,     \* m_maxIdleTime
    MaxMade,     \* bound: connections ever made
    MaxFails,    \* bound: failed attempts to connect
    MaxClock     \* bound: time

DbPoolAssumption ==
    /\ MinSize \in Nat \ {0} /\ MaxSize \in Nat /\ MinSize <= MaxSize
    /\ MaxIdle \in Nat
    /\ MaxMade \in Nat /\ MaxFails \in Nat /\ MaxClock \in Nat

VARIABLES
    connQueue,   \* idle connections
    aliveTime,   \* when each connection was used last
    held,        \* the connection each user has borrowed, 0 for none
    upc,         \* users: "idle", "get" (in the loop of getConnection),
                 \* "wait" (in consumer_cond), "use"
    ppc,         \* producer: "run", "wait" (in producer_cond)
    made,        \* connections made so far
    fails,       \* failed attempts so far
    clock

vars == <<connQueue, aliveTime, held, upc, ppc, made, fails, clock>>

DbConns == 1 .. MaxMade
Idle == {connQueue[i] : i \in DOMAIN connQueue}
Borrowed == {held[u] : u \in Users} \ {0}

(* The constructor adds MinSize connections before the threads start; one  *)
(* that cannot be made is left out.                                        *)
Init ==
    /\ made \in 0 .. Min({MinSize, MaxMade})
    /\ connQueue = [i \in 1 .. made |-> i]
    /\ aliveTime = [c \in DbConns |-> 0]
    /\ held = [u \in Users |-> 0]
    /\ upc = [u \in Users |-> "idle"]
    /\ ppc = "run"
    /\ fails = 0 /\ clock = 0

-----------------------------------------------------------------------------
(* produceConnection: wait while there are enough, else addConnection and  *)
(* notify_all, whether it succeeded or not.                                *)
Produce ==
    /\ ppc = "run" /\ Len(connQueue) >= MinSize
    /\ ppc' = "wait"
    /\ UNCHANGED <<connQueue, aliveTime, held, upc, made, fails, clock>>

Notified == [u \in Users |-> IF upc[u] = "wait" THEN "get" ELSE upc[u]]

AddConnection ==
    /\ ppc = "run" /\ Len(connQueue) < MinSize /\ made < MaxMade
    /\ made' = made + 1
    /\ connQueue' = Append(connQueue, made + 1)
    /\ aliveTime' = [aliveTime EXCEPT ![made + 1] = clock]
    /\ upc' = Notified
    /\ UNCHANGED <<held, ppc, fails, clock>>

ConnectFails ==
    /\ ppc = "run" /\ Len(connQueue) < MinSize /\ fails < MaxFails
    /\ fails' = fails + 1
    /\ upc' = Notified
    /\ UNCHANGED <<connQueue, aliveTime, held, ppc, made, clock>>

-----------------------------------------------------------------------------
(* getConnection.                                                          *)
Call(u) ==
    /\ upc[u] = "idle"
    /\ upc' = [upc EXCEPT ![u] = "get"]
    /\ UNCHANGED <<connQueue, aliveTime, held, ppc, made, fails, clock>>

WaitForOne(u) ==
    /\ upc[u] = "get" /\ connQueue = <<>>
    /\ upc' = [upc EXCEPT ![u] = "wait"]
    /\ UNCHANGED <<connQueue, aliveTime, held, ppc, made, fails, clock>>

TimeOutNever(u) == upc[u] = "wait" /\ UNCHANGED vars                \* mutant
TimeOut(u) ==                    \* wait_for: the loop tests again
    /\ upc[u] = "wait"
    /\ upc' = [upc EXCEPT ![u] = "get"]
    /\ UNCHANGED <<connQueue, aliveTime, held, ppc, made, fails, clock>>

TakeQuietly(u) ==                                                   \* mutant
    /\ upc[u] = "get" /\ connQueue # <<>>
    /\ held' = [held EXCEPT ![u] = Head(connQueue)]
    /\ connQueue' = Tail(connQueue)
    /\ upc' = [upc EXCEPT ![u] = "use"]
    /\ UNCHANGED <<aliveTime, ppc, made, fails, clock>>
TakeWithoutPop(u) ==                                                \* mutant
    /\ upc[u] = "get" /\ connQueue # <<>>
    /\ held' = [held EXCEPT ![u] = Head(connQueue)]
    /\ upc' = [upc EXCEPT ![u] = "use"]
    /\ ppc' = "run"
    /\ UNCHANGED <<connQueue, aliveTime, made, fails, clock>>
Take(u) ==                       \* the front one; producer_cond.notify_all
    /\ upc[u] = "get" /\ connQueue # <<>>
    /\ held' = [held EXCEPT ![u] = Head(connQueue)]
    /\ connQueue' = Tail(connQueue)
    /\ upc' = [upc EXCEPT ![u] = "use"]
    /\ ppc' = "run"
    /\ UNCHANGED <<aliveTime, made, fails, clock>>

GiveBackStale(u) ==                                                 \* mutant
    /\ upc[u] = "use"
    /\ connQueue' = Append(connQueue, held[u])
    /\ held' = [held EXCEPT ![u] = 0]
    /\ upc' = [upc EXCEPT ![u] = "idle"]
    /\ UNCHANGED <<aliveTime, ppc, made, fails, clock>>
GiveBack(u) ==                   \* the deleter of the shared_ptr: nobody is notified
    /\ upc[u] = "use"
    /\ aliveTime' = [aliveTime EXCEPT ![held[u]] = clock]
    /\ connQueue' = Append(connQueue, held[u])
    /\ held' = [held EXCEPT ![u] = 0]
    /\ upc' = [upc EXCEPT ![u] = "idle"]
    /\ UNCHANGED <<ppc, made, fails, clock>>

-----------------------------------------------------------------------------
(* resycleConnection: from the front, while there are too many, up to the  *)
(* first one that has not been idle for too long.                          *)
Aged(c) == clock - aliveTime[c] > MaxIdle
Surplus == Len(connQueue) - MaxSize

Recycle ==
    /\ Surplus > 0 /\ Aged(Head(connQueue))
    /\ \E n \in 1 .. Surplus :
          /\ \A i \in 1 .. n : Aged(connQueue[i])
          /\ n = Surplus \/ ~Aged(connQueue[n + 1])
          /\ connQueue' = SubSeq(connQueue, n + 1, Len(connQueue))
    /\ UNCHANGED <<aliveTime, held, upc, ppc, made, fails, clock>>

Tick ==
    /\ clock < MaxClock
    /\ clock' = clock + 1
    /\ UNCHANGED <<connQueue, aliveTime, held, upc, ppc, made, fails>>

ProducerStep == Produce \/ AddConnection \/ ConnectFails
UserStep(u) == WaitForOne(u) \/ TimeOut(u) \/ Take(u) \/ GiveBack(u)

Next ==
    \/ ProducerStep \/ Recycle \/ Tick
    \/ \E u \in Users : Call(u) \/ UserStep(u)

Spec == Init /\ [][Next]_vars

-----------------------------------------------------------------------------
TypeOK ==
    /\ connQueue \in Seq(DbConns)
    /\ aliveTime \in [DbConns -> 0 .. clock]
    /\ held \in [Users -> DbConns \cup {0}]
    /\ upc \in [Users -> {"idle", "get", "wait", "use"}]
    /\ ppc \in {"run", "wait"}
    /\ made \in 0 .. MaxMade /\ fails \in 0 .. MaxFails /\ clock \in 0 .. MaxClock

(* A connection is idle or borrowed by one user, never both or twice: two  *)
(* threads never speak on the same database connection.                    *)
OwnedByOne ==
    /\ IsInjective(connQueue)
    /\ Idle \cap Borrowed = {}
    /\ \A u, v \in Users : held[u] = held[v] /\ held[u] # 0 => u = v

(* The queue is ordered by last use: the recycler may stop at the first    *)
(* connection that is young enough, nothing older is behind it.            *)
OldestFirst ==
    \A i, j \in DOMAIN connQueue :
        i < j => aliveTime[connQueue[i]] <= aliveTime[connQueue[j]]

(* The producer never sleeps while connections are short: whoever takes    *)
(* one wakes it, and the recycler never goes below what it keeps.          *)
ProducerAwake == ppc = "wait" => Len(connQueue) >= MinSize

(* Who asks for a connection gets one, although a returned connection is   *)
(* announced to nobody: the timeout of the wait makes up for it.           *)
EventuallyServed == \A u \in Users : (upc[u] = "get") ~> (upc[u] = "use")
=============================================================================
