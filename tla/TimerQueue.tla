------------------------------ MODULE TimerQueue ------------------------------
(***************************************************************************)
(* The queue of idle-client timers (src/net/my_socket_time.cpp) and its    *)
(* callers: ngx_event_accept adds an entry for a new client,               *)
(* zdClosesocketProc deletes it before it looks at the descriptor, the     *)
(* monitor thread takes what is due.  These functions hold                 *)
(* m_timequeueMutex.  The monitor reads the size, the earliest time and    *)
(* the clock one after the other and without it: adding and deleting are   *)
(* two steps each, the queue with its size and then the earliest time, and *)
(* each read is a step of its own.                                         *)
(*                                                                         *)
(* The clients are connection objects: one is given to a new client only   *)
(* when nobody is inside zdClosesocketProc for it (ConnPool).              *)
(***************************************************************************)
EXTENDS Integers, Sequences, FiniteSets, FiniteSetsExt

CONSTANTS
    Conns,       \* connection objects
    Closers,     \* threads that call zdClosesocketProc
    Wait,        \* m_iWaitTime
    Kick,        \* m_ifTimeOutKick
    MaxClock     \* bound: seconds

TimerAssumption ==
    Wait \in Nat \ {0} /\ Kick \in BOOLEAN /\ MaxClock \in Nat

VARIABLES
    timeQueue,   \* m_timeQueuemap: entries [at, conn]
    curSize,     \* m_cur_size_
    timerValue,  \* m_timer_value_
    status,      \* of each object: "free", "used" or "closed"
    closing,     \* the objects each closer is about to delete the timer of
    locked,      \* m_timequeueMutex is held, m_timer_value_ not yet written
    mpc,         \* monitor: "sleep", "value", "time", "sweep" or "check"
    absolute,    \* monitor: the earliest time it read
    currTime,    \* monitor: the time it read before its sweep
    due,         \* monitor: lstMsgHeader
    clock

monitorVars == <<mpc, absolute, currTime, due>>
vars == <<timeQueue, curSize, timerValue, status, closing, locked, monitorVars, clock>>

Entry == [at : Nat, conn : Conns]

Init ==
    /\ timeQueue = {} /\ curSize = 0 /\ timerValue = 0
    /\ status = [c \in Conns |-> "free"]
    /\ closing = [t \in Closers |-> {}]
    /\ locked = FALSE
    /\ mpc = "sleep" /\ absolute = 0 /\ currTime = 0 /\ due = <<>>
    /\ clock = 0

EarliestTime(q) == IF q = {} THEN 0 ELSE Min({e.at : e \in q})

-----------------------------------------------------------------------------
(* AddToTimmerQueue, at the end of ngx_event_accept.                       *)
Accept(c) ==
    /\ ~locked /\ status[c] = "free"
    /\ locked' = TRUE
    /\ status' = [status EXCEPT ![c] = "used"]
    /\ timeQueue' = timeQueue \cup {[at |-> clock + Wait, conn |-> c]}
    /\ curSize' = curSize + 1
    /\ UNCHANGED <<timerValue, closing, monitorVars, clock>>

(* A thread enters zdClosesocketProc; several may do so for one object.    *)
BeginClose(t, c) ==
    /\ closing[t] = {} /\ status[c] = "used"
    /\ closing' = [closing EXCEPT ![t] = {c}]
    /\ UNCHANGED <<timeQueue, curSize, timerValue, status, locked, monitorVars, clock>>

(* DeleteFromTimerQueue: every entry of the object goes.                   *)
DeleteOne(t, c) ==                                                  \* mutant
    /\ ~locked /\ c \in closing[t]
    /\ locked' = TRUE
    /\ timeQueue' = {e \in timeQueue : e.conn # c}
    /\ curSize' = curSize - 1
    /\ status' = [status EXCEPT ![c] = "closed"]
    /\ closing' = [closing EXCEPT ![t] = {}]
    /\ UNCHANGED <<timerValue, monitorVars, clock>>
Delete(t, c) ==
    /\ ~locked /\ c \in closing[t]
    /\ locked' = TRUE
    /\ timeQueue' = {e \in timeQueue : e.conn # c}
    /\ curSize' = curSize - Cardinality(timeQueue \ timeQueue')
    /\ status' = [status EXCEPT ![c] = "closed"]
    /\ closing' = [closing EXCEPT ![t] = {}]
    /\ UNCHANGED <<timerValue, monitorVars, clock>>

(* The end of both: m_timer_value_ = GetEarliestTime().                    *)
StoreEarliest ==
    /\ locked
    /\ locked' = FALSE
    /\ timerValue' = EarliestTime(timeQueue)
    /\ UNCHANGED <<timeQueue, curSize, status, closing, monitorVars, clock>>

Recycle(c) ==
    /\ status[c] = "closed" /\ \A t \in Closers : c \notin closing[t]
    /\ status' = [status EXCEPT ![c] = "free"]
    /\ UNCHANGED <<timeQueue, curSize, timerValue, closing, locked, monitorVars, clock>>

-----------------------------------------------------------------------------
(* ServerTimerQueueMonitorThread.  What it has read is set back to 0 where *)
(* it is not used again.                                                   *)
shared == <<timeQueue, curSize, timerValue, status, closing, locked, clock>>

ReadSize ==
    /\ mpc = "sleep" /\ curSize > 0
    /\ mpc' = "value"
    /\ UNCHANGED <<absolute, currTime, due, shared>>

ReadValue ==
    /\ mpc = "value"
    /\ absolute' = timerValue
    /\ mpc' = "time"
    /\ UNCHANGED <<currTime, due, shared>>

ReadTime ==
    /\ mpc = "time"
    /\ \/ clock >= absolute /\ mpc' = "sweep" /\ currTime' = clock
       \/ clock < absolute /\ mpc' = "sleep" /\ UNCHANGED currTime
    /\ absolute' = 0
    /\ UNCHANGED <<due, shared>>

(* GetOverTimeTimer: the first entry, if it is due; unless clients are     *)
(* kicked it is put back for the next period.  (With a size of 0 or less   *)
(* it would take nothing and put a null header in; CacheMatches rules that *)
(* out.)                                                                   *)
First(e) == e \in timeQueue /\ e.at = EarliestTime(timeQueue)
RequeuedNot(e) == {}                                                \* mutant
Requeued(e) == IF Kick THEN {} ELSE {[at |-> currTime + Wait, conn |-> e.conn]}

TakeDue ==
    /\ mpc = "sweep" /\ ~locked /\ curSize > 0
    /\ \E e \in timeQueue :
          /\ First(e) /\ e.at <= currTime
          /\ timeQueue' = (timeQueue \ {e}) \cup Requeued(e)
          /\ curSize' = curSize - 1 + Cardinality(Requeued(e))
          /\ timerValue' = EarliestTime(timeQueue')
          /\ due' = Append(due, e.conn)
    /\ UNCHANGED <<status, closing, locked, mpc, absolute, currTime, clock>>

NoneDue ==
    /\ mpc = "sweep" /\ ~locked
    /\ (timeQueue = {} \/ EarliestTime(timeQueue) > currTime)
    /\ mpc' = "check" /\ currTime' = 0
    /\ UNCHANGED <<absolute, due, shared>>

(* procPingTimeOutChecking does nothing: no client is ever kicked.         *)
CheckOne ==
    /\ mpc = "check"
    /\ IF due = <<>> THEN mpc' = "sleep" /\ UNCHANGED due
       ELSE due' = Tail(due) /\ UNCHANGED mpc
    /\ UNCHANGED <<absolute, currTime, shared>>

Tick ==
    /\ clock < MaxClock
    /\ clock' = clock + 1
    /\ UNCHANGED <<timeQueue, curSize, timerValue, status, closing, locked, monitorVars>>

Monitor == ReadSize \/ ReadValue \/ ReadTime \/ TakeDue \/ NoneDue \/ CheckOne

Next ==
    \/ Monitor \/ StoreEarliest \/ Tick
    \/ \E c \in Conns : \/ Accept(c) \/ Recycle(c)
                        \/ \E t \in Closers : BeginClose(t, c) \/ Delete(t, c)

Spec == Init /\ [][Next]_vars

-----------------------------------------------------------------------------
TypeOK ==
    /\ timeQueue \subseteq Entry /\ curSize \in Int /\ timerValue \in Nat
    /\ status \in [Conns -> {"free", "used", "closed"}]
    /\ closing \in [Closers -> SUBSET Conns]
    /\ locked \in BOOLEAN
    /\ mpc \in {"sleep", "value", "time", "sweep", "check"}
    /\ absolute \in Nat
    /\ currTime \in 0 .. clock /\ due \in Seq(Conns) /\ clock \in 0 .. MaxClock

(* The size the monitor reads without the lock is that of the queue, and   *)
(* so is the earliest time once the lock is given back: too small or too   *)
(* late would stop the checks.  (m_cur_size_ is a size_t; as the number of *)
(* entries it never falls below 0.)                                        *)
CacheMatches ==
    /\ curSize = Cardinality(timeQueue)
    /\ locked \/ timerValue = EarliestTime(timeQueue)

(* A client in use has exactly one timer, however many threads close it    *)
(* and whenever the monitor takes its entry; an object that is closed or   *)
(* free has none that its next client would inherit; and the monitor's     *)
(* size and time count exactly these.                                      *)
TimedOnce ==
    /\ CacheMatches
    /\ \A c \in Conns :
          Cardinality({e \in timeQueue : e.conn = c}) = IF status[c] = "used" THEN 1 ELSE 0

(* A client whose time has come is looked at, or it is closed.             *)
EventuallyChecked ==
    \A c \in Conns :
        (\E e \in timeQueue : e.conn = c /\ e.at < MaxClock)
            ~> (status[c] # "used" \/ \E i \in DOMAIN due : due[i] = c)
=============================================================================
