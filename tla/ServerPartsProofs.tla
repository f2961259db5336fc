--------------------------- MODULE ServerPartsProofs ---------------------------
(***************************************************************************)
(* Proofs about the parts of ServerParts for all values of their           *)
(* constants: the database pool, the timer queue, the threads of a worker, *)
(* the master process, the lock-free queue, the byte buffer and the        *)
(* logger.                                                                 *)
(* What one part keeps the others cannot disturb: each step is a step of   *)
(* one part that leaves the variables of the others alone.                 *)
(***************************************************************************)
EXTENDS ServerParts, Sequences, FiniteSetTheorems, WellFoundedInduction, TLAPS

LEMMA PartSteps ==
    ASSUME [Next]_vars
    PROVE  /\ Processes!Next \/ UNCHANGED masterVars
           /\ Db!Next \/ UNCHANGED dbVars
           /\ Timer!Next \/ UNCHANGED timerVars
           /\ Threads!Next \/ UNCHANGED threadVars
           /\ Parser!Next \/ UNCHANGED parserVars
           /\ Bytes!Next \/ UNCHANGED bufferVars
           /\ Limiter!Next \/ UNCHANGED limiterVars
           /\ Requests!Next \/ UNCHANGED requestVars
           /\ Queue!Next \/ UNCHANGED queueVars
           /\ Visits!Next \/ UNCHANGED sessionVars
           /\ Log!Next \/ UNCHANGED logVars
BY DEF Next, vars, MasterRuns, DbRuns, TimerRuns, ThreadsRun, ParserRuns, LimiterRuns,
       BufferRuns, RequestsRun, QueueRuns, SessionsRun, LoggerRuns

(* What Min chooses from exists.                                           *)
LEMMA SmallestExists ==
    ASSUME NEW S, S \subseteq Nat, S # {}
    PROVE  \E x \in S : \A y \in S : x <= y
<1>1. \E x \in S : \A y \in S : ~ (<<y, x>> \in OpToRel(<, Nat))
  BY NatLessThanWellFounded, WFMin
<1>2. PICK x \in S : \A y \in S : ~ (<<y, x>> \in OpToRel(<, Nat))
  BY <1>1
<1>3. \A y \in S : ~ (y < x)
  BY <1>2 DEF OpToRel
<1>4. \A y \in S : x <= y
  BY <1>3
<1> QED BY <1>4

-----------------------------------------------------------------------------
(* The database pool.                                                      *)
DbConns == 1 .. MaxMade

LEMMA DbConstants ==
    /\ MinSize \in Nat \ {0} /\ MaxSize \in Nat /\ MinSize <= MaxSize /\ MaxMade \in Nat
    /\ DbConns = Db!DbConns /\ DbConns \subseteq Nat \ {0}
BY PartsAssumption DEF PartsAssumption, Db!DbPoolAssumption, Db!DbConns, DbConns

DbTypes ==
    /\ connQueue \in Seq(DbConns)
    /\ dbClock \in Nat /\ made \in 0 .. MaxMade
    /\ aliveTime \in [DbConns -> Nat]
    /\ held \in [Users -> DbConns \cup {0}]
    /\ upc \in [Users -> {"idle", "get", "wait", "use"}]

(* A connection that is idle or borrowed has been made, so a new one is    *)
(* neither; nothing was used later than now, so what is returned goes to   *)
(* the end; who uses a connection has one in hand.                         *)
Known ==
    /\ \A i \in 1 .. Len(connQueue) : connQueue[i] <= made
    /\ \A u \in Users : held[u] <= made
LastUses == \A c \in DbConns : aliveTime[c] <= dbClock
UsesHeld == \A u \in Users : held[u] # 0 <=> upc[u] = "use"

(* OwnedByOne and OldestFirst with the queue as a sequence.                *)
Distinct == \A i, j \in 1 .. Len(connQueue) : connQueue[i] = connQueue[j] => i = j
NotBorrowed == \A i \in 1 .. Len(connQueue), u \in Users : connQueue[i] # held[u]
OneHand == \A u, v \in Users : held[u] = held[v] /\ held[u] # 0 => u = v
Sorted ==
    \A i, j \in 1 .. Len(connQueue) :
        i < j => aliveTime[connQueue[i]] <= aliveTime[connQueue[j]]

DbInv ==
    /\ DbTypes /\ Known /\ LastUses /\ UsesHeld
    /\ Distinct /\ NotBorrowed /\ OneHand /\ Sorted /\ ProducerAwake

LEMMA DbMeans ==
    ASSUME DbInv
    PROVE  OwnedByOne /\ OldestFirst /\ ProducerAwake
<1>1. DOMAIN connQueue = 1 .. Len(connQueue) /\ \A i \in DOMAIN connQueue : connQueue[i] \in DbConns
  BY DEF DbInv, DbTypes
<1>2. Db!IsInjective(connQueue)
  BY <1>1 DEF DbInv, Distinct, Db!IsInjective
<1>3. Db!Idle \cap Db!Borrowed = {}
  BY <1>1 DEF DbInv, NotBorrowed, Db!Idle, Db!Borrowed
<1>4. OwnedByOne
  BY <1>2, <1>3 DEF OwnedByOne, Db!OwnedByOne, DbInv, OneHand
<1>5. OldestFirst
  BY <1>1 DEF OldestFirst, Db!OldestFirst, DbInv, Sorted
<1> QED BY <1>4, <1>5 DEF DbInv

LEMMA DbInit == Init => DbInv
<1> SUFFICES ASSUME Init PROVE DbInv
  OBVIOUS
<1>1. made \in 0 .. Db!Min({MinSize, MaxMade})
  BY DEF Init, Db!Init
<1>2. Db!Min({MinSize, MaxMade}) \in {MinSize, MaxMade}
      /\ \A y \in {MinSize, MaxMade} : Db!Min({MinSize, MaxMade}) <= y
  <2>1. \E x \in {MinSize, MaxMade} : \A y \in {MinSize, MaxMade} : x <= y
    BY DbConstants
  <2> QED BY <2>1 DEF Db!Min
<1>3. made \in 0 .. MaxMade
  BY <1>1, <1>2, DbConstants
<1>4. /\ connQueue = [x \in 1 .. made |-> x] /\ aliveTime = [c \in DbConns |-> 0]
      /\ held = [u \in Users |-> 0] /\ upc = [u \in Users |-> "idle"]
      /\ ppc = "run" /\ dbClock = 0
  BY DbConstants DEF Init, Db!Init
<1>5. connQueue \in Seq(DbConns) /\ Len(connQueue) = made
      /\ \A x \in 1 .. Len(connQueue) : connQueue[x] = x
  BY <1>3, <1>4, DbConstants DEF DbConns
<1>6. DbTypes
  BY <1>3, <1>4, <1>5 DEF DbTypes
<1>7. Known /\ LastUses /\ UsesHeld
  BY <1>3, <1>4, <1>5 DEF Known, LastUses, UsesHeld
<1>8. Distinct /\ NotBorrowed /\ OneHand /\ Sorted /\ ProducerAwake
  <2>1. \A x \in 1 .. Len(connQueue) : connQueue[x] \in DbConns /\ connQueue[x] # 0
    BY <1>3, <1>5, DbConstants DEF DbConns
  <2>2. Distinct
    BY <1>5 DEF Distinct
  <2>3. NotBorrowed /\ OneHand
    BY <1>4, <2>1 DEF NotBorrowed, OneHand
  <2>4. Sorted
    <3>1. \A c \in DbConns : aliveTime[c] = 0
      BY <1>4
    <3> QED BY <2>1, <3>1 DEF Sorted
  <2>5. ProducerAwake
    BY <1>4 DEF ProducerAwake, Db!ProducerAwake
  <2> QED BY <2>2, <2>3, <2>4, <2>5
<1> QED BY <1>6, <1>7, <1>8 DEF DbInv

(* Nothing but the producer's or a user's place, or the time, changes.     *)
LEMMA DbQuietStep ==
    ASSUME DbInv, UNCHANGED <<connQueue, aliveTime, held, made>>,
           dbClock' \in Nat, dbClock <= dbClock',
           upc' \in [Users -> {"idle", "get", "wait", "use"}],
           \A u \in Users : upc'[u] = "use" <=> upc[u] = "use",
           ppc' = "wait" => ppc = "wait" \/ Len(connQueue) >= MinSize
    PROVE  DbInv'
<1>1. DbTypes' /\ Known' /\ UsesHeld' /\ Distinct' /\ NotBorrowed' /\ OneHand' /\ Sorted'
  BY DEF DbInv, DbTypes, Known, UsesHeld, Distinct, NotBorrowed, OneHand, Sorted
<1>2. LastUses'
  <2> SUFFICES ASSUME NEW c \in DbConns PROVE aliveTime[c] <= dbClock'
    BY DEF LastUses
  <2>1. aliveTime[c] \in Nat /\ aliveTime[c] <= dbClock /\ dbClock \in Nat
    BY DEF DbInv, DbTypes, LastUses
  <2> QED BY <2>1
<1>3. ProducerAwake'
  BY DEF DbInv, ProducerAwake, Db!ProducerAwake
<1> QED BY <1>1, <1>2, <1>3 DEF DbInv

(* A connection that is not in the queue, not borrowed, and younger than   *)
(* the queue comes to its end.                                             *)
LEMMA DbAppends ==
    ASSUME DbInv, NEW c \in DbConns,
           connQueue' = Append(connQueue, c),
           aliveTime' = [aliveTime EXCEPT ![c] = dbClock],
           c <= made', made <= made', made' \in 0 .. MaxMade, UNCHANGED dbClock,
           held' \in [Users -> DbConns \cup {0}],
           upc' \in [Users -> {"idle", "get", "wait", "use"}],
           \A i \in 1 .. Len(connQueue) : connQueue[i] # c,
           \A u \in Users : held'[u] # c /\ (held'[u] = held[u] \/ held'[u] = 0),
           \A u \in Users : held'[u] # 0 <=> upc'[u] = "use",
           UNCHANGED ppc
    PROVE  DbInv'
<1> DEFINE n == Len(connQueue)
<1>1. /\ connQueue \in Seq(DbConns) /\ n \in Nat /\ c # 0
      /\ \A i \in 1 .. n : connQueue[i] \in DbConns
      /\ aliveTime \in [DbConns -> Nat] /\ dbClock \in Nat /\ made \in Nat /\ made' \in Nat
      /\ \A x \in DbConns : x \in Nat
  <2>1. \A x \in DbConns : x \in Nat /\ x # 0
    BY DbConstants
  <2> QED BY <2>1 DEF DbInv, DbTypes
<1>2. /\ connQueue' \in Seq(DbConns) /\ Len(connQueue') = n + 1
      /\ \A i \in 1 .. n : connQueue'[i] = connQueue[i]
      /\ connQueue'[n + 1] = c
  BY <1>1
<1>3. \A x \in DbConns : aliveTime'[x] = IF x = c THEN dbClock ELSE aliveTime[x]
  BY <1>1
<1>4. DbTypes'
  BY <1>1, <1>2 DEF DbInv, DbTypes
<1>5. Known' /\ UsesHeld'
  <2>1. \A i \in 1 .. n : connQueue[i] <= made' /\ connQueue[i] \in Nat
    BY <1>1, SMTT(30) DEF DbInv, Known
  <2>2. \A i \in 1 .. n + 1 : connQueue'[i] <= made'
    BY <1>1, <1>2, <2>1, SMTT(30)
  <2>3. \A u \in Users : held'[u] <= made'
    <3> SUFFICES ASSUME NEW u \in Users PROVE held'[u] <= made'
      OBVIOUS
    <3>1. held[u] \in Nat /\ held[u] <= made
      BY <1>1 DEF DbInv, DbTypes, Known
    <3>2. held'[u] = held[u] \/ held'[u] = 0
      OBVIOUS
    <3> QED BY <1>1, <3>1, <3>2
  <2> QED BY <1>2, <2>2, <2>3 DEF Known, UsesHeld
<1>6. LastUses'
  <2> SUFFICES ASSUME NEW x \in DbConns PROVE aliveTime'[x] <= dbClock
    BY DEF LastUses
  <2>1. aliveTime[x] <= dbClock
    BY DEF DbInv, LastUses
  <2> QED BY <1>1, <1>3, <2>1
<1> HIDE DEF n
<1>7. Distinct'
  BY <1>1, <1>2, SMTT(30) DEF DbInv, Distinct, n
<1>8. NotBorrowed' /\ OneHand'
  <2>1. \A i \in 1 .. n + 1, u \in Users : connQueue'[i] # held'[u]
    <3> SUFFICES ASSUME NEW i \in 1 .. n + 1, NEW u \in Users PROVE connQueue'[i] # held'[u]
      OBVIOUS
    <3>1. CASE i = n + 1
      <4>1. connQueue'[i] = c /\ held'[u] # c
        BY <1>2, <3>1
      <4> QED BY <4>1
    <3>2. CASE i \in 1 .. n
      <4>1. connQueue'[i] = connQueue[i] /\ connQueue[i] # held[u] /\ connQueue[i] # 0
        BY <1>1, <1>2, <3>2, DbConstants DEF DbInv, NotBorrowed, n
      <4>2. held'[u] = held[u] \/ held'[u] = 0
        OBVIOUS
      <4> QED BY ONLY <4>1, <4>2
    <3>3. i = n + 1 \/ i \in 1 .. n
      BY <1>1
    <3> QED BY <3>1, <3>2, <3>3
  <2> QED BY <1>2, <2>1, SMTT(30) DEF DbInv, NotBorrowed, OneHand
<1>9. Sorted'
  <2> SUFFICES ASSUME NEW i \in 1 .. n + 1, NEW j \in 1 .. n + 1, i < j
               PROVE  aliveTime'[connQueue'[i]] <= aliveTime'[connQueue'[j]]
    BY <1>2 DEF Sorted
  <2>1. i \in 1 .. n /\ connQueue'[i] = connQueue[i] /\ connQueue[i] # c /\ connQueue[i] \in DbConns
    BY <1>1, <1>2, SMTT(30) DEF n
  <2>2. aliveTime'[connQueue'[i]] = aliveTime[connQueue[i]]
    BY <1>3, <2>1
  <2>3. CASE j = n + 1
    <3>1. aliveTime'[connQueue'[j]] = dbClock
      BY <1>2, <1>3, <2>3
    <3>2. aliveTime[connQueue[i]] <= dbClock
      BY <2>1 DEF DbInv, LastUses
    <3> QED BY ONLY <2>2, <3>1, <3>2
  <2>4. CASE j \in 1 .. n
    <3>1. connQueue'[j] = connQueue[j] /\ connQueue[j] # c /\ connQueue[j] \in DbConns
      BY <1>1, <1>2, <2>4 DEF n
    <3>2. aliveTime'[connQueue'[j]] = aliveTime[connQueue[j]]
      BY <1>3, <3>1
    <3>3. aliveTime[connQueue[i]] <= aliveTime[connQueue[j]]
      BY <2>1, <2>4 DEF DbInv, Sorted, n
    <3> QED BY ONLY <2>2, <3>2, <3>3
  <2>5. j = n + 1 \/ j \in 1 .. n
    BY <1>1
  <2> QED BY <2>3, <2>4, <2>5
<1>10. ProducerAwake'
  BY <1>1, <1>2, DbConstants DEF DbInv, ProducerAwake, Db!ProducerAwake, n
<1> QED BY <1>4, <1>5, <1>6, <1>7, <1>8, <1>9, <1>10 DEF DbInv

(* The first k connections leave the queue, to nobody or to a user.        *)
LEMMA DbRemoves ==
    ASSUME DbInv, NEW k \in 1 .. Len(connQueue),
           connQueue' \in Seq(DbConns), Len(connQueue') = Len(connQueue) - k,
           \A i \in 1 .. Len(connQueue) - k : connQueue'[i] = connQueue[i + k],
           UNCHANGED <<aliveTime, made, dbClock>>,
           \/ UNCHANGED <<held, upc>>
           \/ \E u \in Users :
                 /\ upc[u] = "get"
                 /\ held' = [held EXCEPT ![u] = connQueue[1]]
                 /\ upc' = [upc EXCEPT ![u] = "use"],
           ppc' = "wait" => ppc = "wait" /\ Len(connQueue) - k >= MinSize
    PROVE  DbInv'
<1> DEFINE n == Len(connQueue)
           m == n - k
<1>1. /\ connQueue \in Seq(DbConns) /\ n \in Nat /\ m \in Nat /\ m + k = n /\ k \in 1 .. n
      /\ \A i \in 1 .. n : connQueue[i] \in DbConns /\ connQueue[i] # 0
      /\ Len(connQueue') = m
      /\ \A i \in 1 .. m : i + k \in 1 .. n /\ connQueue'[i] = connQueue[i + k]
  BY DbConstants DEF DbInv, DbTypes
<1> HIDE DEF n, m
<1>2. Distinct'
  <2> SUFFICES ASSUME NEW i \in 1 .. m, NEW j \in 1 .. m, connQueue'[i] = connQueue'[j]
               PROVE  i = j
    BY <1>1 DEF Distinct
  <2>1. i + k = j + k
    BY <1>1, SMTT(30) DEF DbInv, Distinct, n
  <2> QED BY <1>1, <2>1
<1>3. Sorted'
  <2> SUFFICES ASSUME NEW i \in 1 .. m, NEW j \in 1 .. m, i < j
               PROVE  aliveTime[connQueue'[i]] <= aliveTime[connQueue'[j]]
    BY <1>1 DEF Sorted
  <2>1. i + k < j + k
    BY <1>1
  <2> QED BY <1>1, <2>1 DEF DbInv, Sorted, n
<1>4. LastUses' /\ \A i \in 1 .. m : connQueue'[i] <= made'
  BY <1>1 DEF DbInv, LastUses, Known, n
<1>5. ProducerAwake'
  BY <1>1 DEF DbInv, ProducerAwake, Db!ProducerAwake, n, m
<1>6. CASE UNCHANGED <<held, upc>>
  <2>1. DbTypes' /\ UsesHeld' /\ OneHand'
    BY <1>6 DEF DbInv, DbTypes, UsesHeld, OneHand
  <2>2. NotBorrowed'
    BY <1>1, <1>6 DEF DbInv, NotBorrowed, n
  <2>3. Known'
    BY <1>1, <1>4, <1>6 DEF DbInv, Known
  <2> QED BY <1>2, <1>3, <1>4, <1>5, <2>1, <2>2, <2>3 DEF DbInv
<1>7. ASSUME NEW u \in Users, upc[u] = "get",
             held' = [held EXCEPT ![u] = connQueue[1]],
             upc' = [upc EXCEPT ![u] = "use"]
      PROVE  DbInv'
  <2>1. /\ held \in [Users -> DbConns \cup {0}] /\ upc \in [Users -> {"idle", "get", "wait", "use"}]
        /\ 1 \in 1 .. n /\ connQueue[1] \in DbConns /\ connQueue[1] # 0
    BY <1>1 DEF DbInv, DbTypes
  <2>2. /\ \A v \in Users : held'[v] = IF v = u THEN connQueue[1] ELSE held[v]
        /\ \A v \in Users : upc'[v] = IF v = u THEN "use" ELSE upc[v]
    BY <1>7, <2>1
  <2>3. DbTypes'
    BY <1>7, <2>1 DEF DbInv, DbTypes
  <2>4. UsesHeld'
    BY <2>1, <2>2 DEF DbInv, UsesHeld
  <2>5. OneHand'
    BY <2>1, <2>2 DEF DbInv, OneHand, NotBorrowed, n
  <2>6. NotBorrowed'
    <3> SUFFICES ASSUME NEW i \in 1 .. m, NEW v \in Users PROVE connQueue'[i] # held'[v]
      BY <1>1 DEF NotBorrowed
    <3>1. i + k \in 1 .. n /\ i + k # 1 /\ connQueue'[i] = connQueue[i + k]
      BY <1>1
    <3>2. connQueue[i + k] # held[v]
      BY <3>1 DEF DbInv, NotBorrowed, n
    <3>3. connQueue[i + k] # connQueue[1]
      BY <2>1, <3>1 DEF DbInv, Distinct, n
    <3> QED BY <2>2, <3>1, <3>2, <3>3
  <2>7. Known'
    <3>1. connQueue[1] <= made
      BY <2>1 DEF DbInv, Known, n
    <3> QED BY <1>1, <1>4, <2>2, <3>1 DEF DbInv, Known
  <2> QED BY <1>2, <1>3, <1>4, <1>5, <2>3, <2>4, <2>5, <2>6, <2>7 DEF DbInv
<1> QED BY <1>6, <1>7

LEMMA DbUserStep ==
    ASSUME DbInv, NEW u \in Users, Db!Call(u) \/ Db!UserStep(u)
    PROVE  DbInv'
<1>0. /\ connQueue \in Seq(DbConns) /\ dbClock \in Nat /\ made \in Nat /\ made \in 0 .. MaxMade
      /\ held \in [Users -> DbConns \cup {0}]
      /\ upc \in [Users -> {"idle", "get", "wait", "use"}]
  BY DbConstants DEF DbInv, DbTypes
<1>1. CASE Db!Call(u) \/ Db!WaitForOne(u) \/ Db!TimeOut(u)
  <2>1. /\ UNCHANGED <<connQueue, aliveTime, held, made, dbClock, ppc>>
        /\ upc[u] # "use"
        /\ \E to \in {"get", "wait"} : upc' = [upc EXCEPT ![u] = to]
    BY <1>1 DEF Db!Call, Db!WaitForOne, Db!TimeOut
  <2>2. /\ upc' \in [Users -> {"idle", "get", "wait", "use"}]
        /\ \A v \in Users : upc'[v] = "use" <=> upc[v] = "use"
    BY <1>0, <2>1
  <2> QED BY <1>0, <2>1, <2>2, DbQuietStep
<1>2. CASE Db!Take(u)
  <2>1. /\ upc[u] = "get" /\ connQueue # <<>> /\ connQueue' = Tail(connQueue)
        /\ held' = [held EXCEPT ![u] = Head(connQueue)] /\ upc' = [upc EXCEPT ![u] = "use"]
        /\ ppc' = "run" /\ UNCHANGED <<aliveTime, made, dbClock>>
    BY <1>2 DEF Db!Take
  <2>2. /\ 1 \in 1 .. Len(connQueue) /\ Head(connQueue) = connQueue[1]
        /\ connQueue' \in Seq(DbConns) /\ Len(connQueue') = Len(connQueue) - 1
        /\ \A i \in 1 .. Len(connQueue) - 1 : connQueue'[i] = connQueue[i + 1]
    BY <1>0, <2>1
  <2> QED BY <2>1, <2>2, DbRemoves
<1>3. CASE Db!GiveBack(u)
  <2> DEFINE c == held[u]
  <2>1. /\ upc[u] = "use" /\ connQueue' = Append(connQueue, c)
        /\ aliveTime' = [aliveTime EXCEPT ![c] = dbClock]
        /\ held' = [held EXCEPT ![u] = 0] /\ upc' = [upc EXCEPT ![u] = "idle"]
        /\ UNCHANGED <<ppc, made, dbClock>>
    BY <1>3 DEF Db!GiveBack
  <2>2. c # 0 /\ c \in DbConns
    BY <1>0, <2>1 DEF DbInv, UsesHeld
  <2>3. /\ \A i \in 1 .. Len(connQueue) : connQueue[i] # c
        /\ \A v \in Users : v # u => held[v] # c
        /\ c <= made
    BY <2>2 DEF DbInv, NotBorrowed, OneHand, Known
  <2>4. /\ \A v \in Users : held'[v] = IF v = u THEN 0 ELSE held[v]
        /\ \A v \in Users : upc'[v] = IF v = u THEN "idle" ELSE upc[v]
        /\ held' \in [Users -> DbConns \cup {0}]
        /\ upc' \in [Users -> {"idle", "get", "wait", "use"}]
    BY <1>0, <2>1
  <2> HIDE DEF c
  <2>5. /\ \A v \in Users : held'[v] # c /\ (held'[v] = held[v] \/ held'[v] = 0)
        /\ \A v \in Users : held'[v] # 0 <=> upc'[v] = "use"
    BY <2>2, <2>3, <2>4 DEF DbInv, UsesHeld
  <2>6. c <= made' /\ made <= made' /\ made' \in 0 .. MaxMade
    BY <1>0, <2>1, <2>3
  <2> QED BY <2>1, <2>2, <2>3, <2>4, <2>5, <2>6, DbAppends
<1> QED BY <1>1, <1>2, <1>3 DEF Db!UserStep

LEMMA DbProducerStep ==
    ASSUME DbInv, Db!ProducerStep
    PROVE  DbInv'
<1>0. /\ connQueue \in Seq(DbConns) /\ dbClock \in Nat /\ made \in Nat
      /\ held \in [Users -> DbConns \cup {0}]
      /\ upc \in [Users -> {"idle", "get", "wait", "use"}]
  BY DbConstants DEF DbInv, DbTypes
<1>1. CASE Db!Produce
  <2>1. UNCHANGED <<connQueue, aliveTime, held, made, dbClock, upc>> /\ Len(connQueue) >= MinSize
    BY <1>1 DEF Db!Produce
  <2> QED BY <1>0, <2>1, DbQuietStep
<1>2. Db!Notified \in [Users -> {"idle", "get", "wait", "use"}]
      /\ \A v \in Users : Db!Notified[v] = "use" <=> upc[v] = "use"
  BY <1>0 DEF Db!Notified
<1>3. CASE Db!ConnectFails
  <2>1. UNCHANGED <<connQueue, aliveTime, held, made, dbClock, ppc>> /\ upc' = Db!Notified
    BY <1>3 DEF Db!ConnectFails
  <2> QED BY <1>0, <1>2, <2>1, DbQuietStep
<1>4. CASE Db!AddConnection
  <2> DEFINE c == made + 1
  <2>1. /\ made < MaxMade /\ made' = c /\ connQueue' = Append(connQueue, c)
        /\ aliveTime' = [aliveTime EXCEPT ![c] = dbClock] /\ upc' = Db!Notified
        /\ UNCHANGED <<held, ppc, dbClock>>
    BY <1>4 DEF Db!AddConnection
  <2>2. c \in DbConns /\ made' \in 0 .. MaxMade /\ made <= made' /\ c <= made' /\ c # 0
    BY <1>0, <2>1, DbConstants DEF DbConns
  <2>3. /\ \A i \in 1 .. Len(connQueue) : connQueue[i] # c
        /\ \A v \in Users : held[v] # c
    <3>1. \A x \in DbConns \cup {0} : x <= made => x # c
      BY <1>0, DbConstants DEF DbConns
    <3> QED BY <1>0, <3>1 DEF DbInv, Known
  <2> HIDE DEF c
  <2>4. \A v \in Users : held'[v] # 0 <=> upc'[v] = "use"
    BY <1>2, <2>1 DEF DbInv, UsesHeld
  <2>5. /\ held' \in [Users -> DbConns \cup {0}]
        /\ upc' \in [Users -> {"idle", "get", "wait", "use"}]
        /\ \A v \in Users : held'[v] # c /\ (held'[v] = held[v] \/ held'[v] = 0)
    BY <1>0, <1>2, <2>1, <2>3
  <2> QED BY <2>1, <2>2, <2>3, <2>4, <2>5, DbAppends
<1> QED BY <1>1, <1>3, <1>4 DEF Db!ProducerStep

LEMMA DbRecycleStep ==
    ASSUME DbInv, Db!Recycle
    PROVE  DbInv'
<1>0. connQueue \in Seq(DbConns) /\ Len(connQueue) \in Nat
  BY DEF DbInv, DbTypes
<1>1. PICK k \in 1 .. (Len(connQueue) - MaxSize) :
          connQueue' = SubSeq(connQueue, k + 1, Len(connQueue))
  BY DEF Db!Recycle, Db!Surplus
<1>2. UNCHANGED <<aliveTime, held, upc, ppc, made, dbClock>>
  BY DEF Db!Recycle
<1>3. k \in 1 .. Len(connQueue) /\ Len(connQueue) - k >= MinSize
  BY <1>0, DbConstants
<1>4. /\ connQueue' \in Seq(DbConns) /\ Len(connQueue') = Len(connQueue) - k
      /\ \A i \in 1 .. Len(connQueue) - k : connQueue'[i] = connQueue[i + k]
  BY <1>0, <1>1, <1>3
<1> QED BY <1>2, <1>3, <1>4, DbRemoves

LEMMA DbNext == ASSUME DbInv, [Next]_vars PROVE DbInv'
<1>1. CASE UNCHANGED dbVars
  BY <1>1 DEF dbVars, DbInv, DbTypes, Known, LastUses, UsesHeld, Distinct, NotBorrowed,
              OneHand, Sorted, ProducerAwake, Db!ProducerAwake
<1>2. CASE Db!Tick
  <2>1. UNCHANGED <<connQueue, aliveTime, held, upc, ppc, made>> /\ dbClock' = dbClock + 1
    BY <1>2 DEF Db!Tick
  <2>2. /\ dbClock \in Nat /\ upc \in [Users -> {"idle", "get", "wait", "use"}]
    BY DEF DbInv, DbTypes
  <2> QED BY <2>1, <2>2, DbQuietStep
<1> QED BY <1>1, <1>2, PartSteps, DbUserStep, DbProducerStep, DbRecycleStep DEF Db!Next

LEMMA DbInvariant == Spec => []DbInv
<1>1. DbInv /\ [Next]_vars => DbInv'
  BY DbNext
<1> QED BY DbInit, <1>1, PTL DEF Spec

(* connectionPool.cpp, for any number of users, connections, failures and  *)
(* any sizes: no database connection is in two hands, or idle and in one.  *)
THEOREM DbOwnedByOne == Spec => []OwnedByOne
BY DbInvariant, DbMeans, PTL

(* connectionPool.cpp: the queue stays ordered by last use.                *)
THEOREM DbOldestFirst == Spec => []OldestFirst
BY DbInvariant, DbMeans, PTL

(* connectionPool.cpp: the producer sleeps only while enough are idle.     *)
THEOREM DbProducerAwake == Spec => []ProducerAwake
BY DbInvariant, DbMeans, PTL

(* Every part has its instance of FiniteSets: they count alike.            *)
LEMMA OneCardinality ==
    \A S : /\ Timer!Cardinality(S) = Cardinality(S)
           /\ Threads!Cardinality(S) = Cardinality(S)
           /\ Threads!IsFiniteSet(S) <=> IsFiniteSet(S)
BY DEF Cardinality, Timer!Cardinality, Threads!Cardinality, IsFiniteSet, Threads!IsFiniteSet

-----------------------------------------------------------------------------
(* The timer queue.                                                        *)
TimerTypes ==
    /\ timeQueue \subseteq [at : Nat, conn : Conns] /\ IsFiniteSet(timeQueue)
    /\ timerClock \in Nat /\ currTime \in Nat
    /\ status \in [Conns -> {"free", "used", "closed"}]
    /\ closing \in [Closers -> SUBSET Conns]

(* The entries and the clients in use match one to one.                    *)
OnePerClient ==
    /\ \A e, f \in timeQueue : e.conn = f.conn => e = f
    /\ \A e \in timeQueue : status[e.conn] = "used"
    /\ \A c \in Conns : status[c] = "used" => \E e \in timeQueue : e.conn = c

(* CacheMatches: what the monitor reads without the lock.                  *)
Cached ==
    /\ curSize = Cardinality(timeQueue)
    /\ locked \/ timerValue = Timer!EarliestTime(timeQueue)

TimerInv == TimerTypes /\ OnePerClient /\ Cached

LEMMA TimerMeans ==
    ASSUME TimerInv
    PROVE  TimedOnce
<1> SUFFICES ASSUME NEW c \in Conns
             PROVE  Cardinality({e \in timeQueue : e.conn = c})
                        = IF status[c] = "used" THEN 1 ELSE 0
  BY OneCardinality DEF TimerInv, Cached, TimedOnce, Timer!TimedOnce, Timer!CacheMatches
<1> DEFINE S == {e \in timeQueue : e.conn = c}
<1>1. IsFiniteSet(S)
  BY FS_Subset DEF TimerInv, TimerTypes
<1>2. CASE status[c] = "used"
  <2>1. PICK e \in timeQueue : e.conn = c
    BY <1>2 DEF TimerInv, OnePerClient
  <2>2. S = {e}
    BY <2>1 DEF TimerInv, OnePerClient
  <2> QED BY <1>2, <2>2, FS_Singleton
<1>3. CASE status[c] # "used"
  <2>1. S = {}
    BY <1>3 DEF TimerInv, OnePerClient
  <2> QED BY <1>3, <2>1, FS_EmptySet
<1> QED BY <1>2, <1>3

LEMMA TimerInit == Init => TimerInv
<1> SUFFICES ASSUME Init PROVE TimerInv
  OBVIOUS
<1>1. /\ timeQueue = {} /\ curSize = 0 /\ timerValue = 0 /\ currTime = 0 /\ timerClock = 0
      /\ status = [c \in Conns |-> "free"] /\ closing = [t \in Closers |-> {}]
  BY DEF Init, Timer!Init
<1>2. TimerTypes
  BY <1>1, FS_EmptySet DEF TimerTypes
<1>3. OnePerClient
  BY <1>1 DEF OnePerClient
<1>4. Cached
  BY <1>1, FS_EmptySet DEF Cached, Timer!EarliestTime
<1> QED BY <1>2, <1>3, <1>4 DEF TimerInv

LEMMA TimerAccept ==
    ASSUME TimerInv, NEW c \in Conns, Timer!Accept(c)
    PROVE  TimerInv'
<1> DEFINE entry == [at |-> timerClock + Wait, conn |-> c]
<1>1. /\ status[c] = "free" /\ status' = [status EXCEPT ![c] = "used"]
      /\ timeQueue' = timeQueue \cup {entry} /\ curSize' = curSize + 1
      /\ locked' = TRUE /\ UNCHANGED <<closing, currTime, timerClock>>
  BY DEF Timer!Accept, Timer!monitorVars
<1>2. entry \in [at : Nat, conn : Conns] /\ entry.conn = c
  BY PartsAssumption DEF PartsAssumption, Timer!TimerAssumption, TimerInv, TimerTypes
<1> HIDE DEF entry
<1>3. entry \notin timeQueue /\ \A e \in timeQueue : e.conn # c /\ e.conn \in Conns
  BY <1>1, <1>2 DEF TimerInv, OnePerClient, TimerTypes
<1>4. IsFiniteSet(timeQueue') /\ Cardinality(timeQueue') = Cardinality(timeQueue) + 1
  BY <1>1, <1>3, FS_AddElement DEF TimerInv, TimerTypes
<1>5. \A d \in Conns : status'[d] = IF d = c THEN "used" ELSE status[d]
  BY <1>1 DEF TimerInv, TimerTypes
<1>6. TimerTypes'
  BY <1>1, <1>2, <1>4 DEF TimerInv, TimerTypes
<1>7. OnePerClient'
  BY <1>1, <1>2, <1>3, <1>5 DEF TimerInv, OnePerClient
<1>8. Cached'
  BY <1>1, <1>4 DEF TimerInv, Cached
<1> QED BY <1>6, <1>7, <1>8 DEF TimerInv

LEMMA TimerDelete ==
    ASSUME TimerInv, NEW t \in Closers, NEW c \in Conns, Timer!Delete(t, c)
    PROVE  TimerInv'
<1> DEFINE gone_ == timeQueue \ timeQueue'
<1>1. /\ timeQueue' = {e \in timeQueue : e.conn # c}
      /\ curSize' = curSize - Cardinality(gone_) /\ locked' = TRUE
      /\ status' = [status EXCEPT ![c] = "closed"] /\ closing' = [closing EXCEPT ![t] = {}]
      /\ UNCHANGED <<currTime, timerClock>>
  BY OneCardinality DEF Timer!Delete, Timer!monitorVars
<1>2. IsFiniteSet(timeQueue)
  BY DEF TimerInv, TimerTypes
<1>3. timeQueue' = timeQueue \ gone_ /\ timeQueue \cap gone_ = gone_
  BY <1>1
<1>4. IsFiniteSet(timeQueue') /\ Cardinality(timeQueue') = Cardinality(timeQueue) - Cardinality(gone_)
  BY <1>2, <1>3, FS_Difference
<1>5. \A d \in Conns : status'[d] = IF d = c THEN "closed" ELSE status[d]
  BY <1>1 DEF TimerInv, TimerTypes
<1>6. TimerTypes'
  BY <1>1, <1>4 DEF TimerInv, TimerTypes
<1>7. OnePerClient'
  <2>1. \A e \in timeQueue : e.conn \in Conns
    BY DEF TimerInv, TimerTypes
  <2> QED BY <1>1, <1>5, <2>1 DEF TimerInv, OnePerClient
<1>8. Cached'
  BY <1>1, <1>4 DEF TimerInv, Cached
<1> QED BY <1>6, <1>7, <1>8 DEF TimerInv

LEMMA TimerTakeDue ==
    ASSUME TimerInv, ~Kick, Timer!TakeDue
    PROVE  TimerInv'
<1>1. PICK e \in timeQueue :
          /\ timeQueue' = (timeQueue \ {e}) \cup Timer!Requeued(e)
          /\ curSize' = curSize - 1 + Cardinality(Timer!Requeued(e))
          /\ timerValue' = Timer!EarliestTime(timeQueue')
  BY OneCardinality DEF Timer!TakeDue
<1>2. UNCHANGED <<status, closing, locked, currTime, timerClock>>
  BY DEF Timer!TakeDue
<1> DEFINE again == [at |-> currTime + Wait, conn |-> e.conn]
           rest == timeQueue \ {e}
<1>3. Timer!Requeued(e) = {again}
  BY DEF Timer!Requeued
<1>4. /\ IsFiniteSet(timeQueue) /\ Cardinality(timeQueue) \in Nat
      /\ curSize = Cardinality(timeQueue)
  BY FS_CardinalityType DEF TimerInv, TimerTypes, Cached
<1>5. again \in [at : Nat, conn : Conns] /\ again.conn = e.conn
  BY PartsAssumption DEF PartsAssumption, Timer!TimerAssumption, TimerInv, TimerTypes
<1> HIDE DEF again
<1>6. again \notin rest /\ \A f \in rest : f.conn # again.conn
  BY <1>5 DEF TimerInv, OnePerClient
<1>7. IsFiniteSet(rest) /\ Cardinality(rest) = Cardinality(timeQueue) - 1
  BY <1>4, FS_RemoveElement
<1> HIDE DEF rest
<1>8. /\ timeQueue' = rest \cup {again}
      /\ IsFiniteSet(timeQueue') /\ Cardinality(timeQueue') = Cardinality(rest) + 1
  BY <1>1, <1>3, <1>6, <1>7, FS_AddElement DEF rest
<1>9. curSize' = curSize
  <2>1. Cardinality({again}) = 1
    BY FS_Singleton
  <2>2. curSize' = curSize - 1 + 1
    BY <1>1, <1>3, <2>1
  <2> QED BY <1>4, <2>2
<1>10. Cached'
  BY <1>1, <1>4, <1>7, <1>8, <1>9 DEF Cached
<1>11. TimerTypes'
  BY <1>2, <1>5, <1>8 DEF TimerInv, TimerTypes, rest
<1>12. OnePerClient'
  BY <1>2, <1>5, <1>6, <1>8 DEF TimerInv, OnePerClient, rest
<1> QED BY <1>10, <1>11, <1>12 DEF TimerInv

(* Steps that leave the queue and what it stands for alone.                *)
LEMMA TimerQuietStep ==
    ASSUME TimerInv, UNCHANGED <<timeQueue, curSize, timerValue, locked>>,
           timerClock' \in Nat, currTime' \in Nat,
           status' \in [Conns -> {"free", "used", "closed"}],
           \A c \in Conns : status'[c] = "used" <=> status[c] = "used",
           closing' \in [Closers -> SUBSET Conns]
    PROVE  TimerInv'
<1>1. TimerTypes' /\ Cached'
  BY DEF TimerInv, TimerTypes, Cached
<1>2. \A e \in timeQueue : e.conn \in Conns
  BY DEF TimerInv, TimerTypes
<1>3. OnePerClient'
  BY <1>2 DEF TimerInv, OnePerClient
<1> QED BY <1>1, <1>3 DEF TimerInv

LEMMA TimerNext == ASSUME TimerInv, ~Kick, [Next]_vars PROVE TimerInv'
<1>0. /\ timerClock \in Nat /\ currTime \in Nat
      /\ status \in [Conns -> {"free", "used", "closed"}]
      /\ closing \in [Closers -> SUBSET Conns]
  BY DEF TimerInv, TimerTypes
<1>1. CASE UNCHANGED timerVars
  <2>1. UNCHANGED <<timeQueue, curSize, timerValue, locked, status, closing, currTime, timerClock>>
    BY <1>1 DEF timerVars
  <2> QED BY <1>0, <2>1, TimerQuietStep
<1>2. CASE Timer!Monitor
  <2>1. CASE Timer!ReadTime
    <3>1. /\ UNCHANGED <<timeQueue, curSize, timerValue, locked, status, closing, timerClock>>
          /\ currTime' \in {currTime, timerClock}
      BY <2>1 DEF Timer!ReadTime, Timer!shared
    <3> QED BY <1>0, <3>1, TimerQuietStep
  <2>2. CASE Timer!NoneDue
    <3>1. /\ UNCHANGED <<timeQueue, curSize, timerValue, locked, status, closing, timerClock>>
          /\ currTime' = 0
      BY <2>2 DEF Timer!NoneDue, Timer!shared
    <3> QED BY <1>0, <3>1, TimerQuietStep
  <2>3. CASE Timer!ReadSize \/ Timer!ReadValue \/ Timer!CheckOne
    <3>1. UNCHANGED <<timeQueue, curSize, timerValue, locked, status, closing, currTime, timerClock>>
      BY <2>3 DEF Timer!ReadSize, Timer!ReadValue, Timer!CheckOne, Timer!shared
    <3> QED BY <1>0, <3>1, TimerQuietStep
  <2> QED BY <1>2, <2>1, <2>2, <2>3, TimerTakeDue DEF Timer!Monitor
<1>6. CASE Timer!StoreEarliest
  <2>1. /\ timerValue' = Timer!EarliestTime(timeQueue)
        /\ UNCHANGED <<timeQueue, curSize, status, closing, currTime, timerClock>>
    BY <1>6 DEF Timer!StoreEarliest, Timer!monitorVars
  <2> QED BY <2>1 DEF TimerInv, TimerTypes, OnePerClient, Cached
<1>3. CASE Timer!Tick
  <2>1. /\ UNCHANGED <<timeQueue, curSize, timerValue, locked, status, closing, currTime>>
        /\ timerClock' = timerClock + 1
    BY <1>3 DEF Timer!Tick, Timer!monitorVars
  <2> QED BY <1>0, <2>1, TimerQuietStep
<1>4. ASSUME NEW c \in Conns, Timer!Recycle(c)
      PROVE  TimerInv'
  <2>1. /\ status[c] = "closed" /\ status' = [status EXCEPT ![c] = "free"]
        /\ UNCHANGED <<timeQueue, curSize, timerValue, locked, closing, currTime, timerClock>>
    BY <1>4 DEF Timer!Recycle, Timer!monitorVars
  <2>2. /\ status' \in [Conns -> {"free", "used", "closed"}]
        /\ \A d \in Conns : status'[d] = "used" <=> status[d] = "used"
    BY <1>0, <2>1
  <2> QED BY <1>0, <2>1, <2>2, TimerQuietStep
<1>5. ASSUME NEW c \in Conns, NEW t \in Closers, Timer!BeginClose(t, c)
      PROVE  TimerInv'
  <2>1. /\ closing' = [closing EXCEPT ![t] = {c}]
        /\ UNCHANGED <<timeQueue, curSize, timerValue, locked, status, currTime, timerClock>>
    BY <1>5 DEF Timer!BeginClose, Timer!monitorVars
  <2>2. closing' \in [Closers -> SUBSET Conns]
    BY <1>0, <2>1
  <2> QED BY <1>0, <2>1, <2>2, TimerQuietStep
<1> QED
  BY <1>1, <1>2, <1>3, <1>4, <1>5, <1>6, PartSteps, TimerAccept, TimerDelete DEF Timer!Next

(* my_socket_time.cpp, for any number of clients and closers and any       *)
(* period, where idle clients are not kicked (Sock_TimeOutKick = 0, the    *)
(* mode whose timers are put back): one timer for each client in use.      *)
THEOREM TimerOnce == ASSUME ~Kick PROVE Spec => []TimedOnce
<1>1. TimerInv /\ [Next]_vars => TimerInv'
  BY TimerNext
<1>2. TimerInv => TimedOnce
  BY TimerMeans
<1> QED BY TimerInit, <1>1, <1>2, PTL DEF Spec

-----------------------------------------------------------------------------
(* The threads of a worker.                                                *)
Ending == {"stopAll", "joinPool", "join", "exited"}
PoolPoints == {"none", "start", "notify", "loop", "dequeue", "work", "post", "done"}
SenderPoints == {"none", "top", "wait", "test", "take", "done"}

ThreadTypes ==
    /\ tpc \in [Pool -> PoolPoints] /\ spc \in [Senders -> SenderPoints]
    /\ stop \in BOOLEAN /\ responses \in Nat /\ sem \in Nat

(* Who holds a ticket for a response: posts to come, senders past sem_wait.*)
AtPool(x) == {t \in Pool : tpc[t] = x}
AtSender(x) == {s \in Senders : spc[s] = x}
Posting == Cardinality(AtPool("post"))
Testing == Cardinality(AtSender("test"))
Taking == Cardinality(AtSender("take"))

(* The posts that wake the send threads at the end come after stop is set, *)
(* and from then on no sender goes to the queue: until then every ticket   *)
(* is for a response.                                                      *)
ThreadsInv ==
    /\ ThreadTypes
    /\ mpc \in Ending => stop
    /\ Taking <= responses
    /\ mpc \notin {"join", "exited"} => sem + Testing + Taking + Posting <= responses

LEMMA ThreadCounts ==
    /\ Posting \in Nat /\ Testing \in Nat /\ Taking \in Nat
    /\ \A x : IsFiniteSet(AtPool(x)) /\ IsFiniteSet(AtSender(x))
    /\ Threads!NeverEmptyHanded <=> Taking <= responses
<1>1. IsFiniteSet(Pool) /\ IsFiniteSet(Senders)
  BY PartsAssumption, OneCardinality DEF PartsAssumption, Threads!WorkerAssumption
<1>2. \A x : AtPool(x) \in SUBSET Pool /\ AtSender(x) \in SUBSET Senders
  BY DEF AtPool, AtSender
<1>3. \A x : IsFiniteSet(AtPool(x)) /\ IsFiniteSet(AtSender(x))
  BY <1>1, <1>2, FS_Subset
<1>4. Posting \in Nat /\ Testing \in Nat /\ Taking \in Nat
  BY <1>3, FS_CardinalityType DEF Posting, Testing, Taking
<1> QED BY <1>3, <1>4, OneCardinality DEF Threads!NeverEmptyHanded, Taking, AtSender

(* A thread that moves changes two counts at most, by itself.              *)
LEMMA PoolMoves ==
    ASSUME ThreadTypes, NEW t \in Pool, NEW to \in PoolPoints, tpc' = [tpc EXCEPT ![t] = to]
    PROVE  /\ tpc' \in [Pool -> PoolPoints] /\ Posting' \in Nat
           /\ tpc[t] # "post" /\ to = "post" => Posting' = Posting + 1
           /\ tpc[t] = "post" /\ to # "post" => Posting' = Posting - 1
           /\ tpc[t] # "post" /\ to # "post" => Posting' = Posting
<1> DEFINE S == AtPool("post")
<1>1. IsFiniteSet(S) /\ Cardinality(S) \in Nat
  BY ThreadCounts, FS_CardinalityType
<1>2. \A x \in Pool : tpc'[x] = IF x = t THEN to ELSE tpc[x]
  BY DEF ThreadTypes
<1>3. t \in S <=> tpc[t] = "post"
  BY DEF AtPool
<1>4. S' = IF to = "post" THEN S \cup {t} ELSE S \ {t}
  BY <1>2 DEF AtPool
<1>5. /\ IsFiniteSet(S \cup {t}) /\ IsFiniteSet(S \ {t})
      /\ Cardinality(S \cup {t}) = IF t \in S THEN Cardinality(S) ELSE Cardinality(S) + 1
      /\ Cardinality(S \ {t}) = IF t \in S THEN Cardinality(S) - 1 ELSE Cardinality(S)
  BY <1>1, FS_AddElement, FS_RemoveElement
<1>6. Posting = Cardinality(S) /\ Posting' = Cardinality(S')
  BY DEF Posting
<1>7. tpc' \in [Pool -> PoolPoints]
  BY DEF ThreadTypes
<1> HIDE DEF S
<1>8. Posting' \in Nat
  BY <1>4, <1>5, <1>6, FS_CardinalityType
<1> QED BY <1>1, <1>3, <1>4, <1>5, <1>6, <1>7, <1>8

LEMMA SenderMoves ==
    ASSUME ThreadTypes, NEW s \in Senders, NEW to \in SenderPoints,
           spc' = [spc EXCEPT ![s] = to], NEW x
    PROVE  LET n == Cardinality(AtSender(x))
           IN  /\ n' \in Nat /\ n \in Nat
               /\ spc[s] # x /\ to = x => n' = n + 1
               /\ spc[s] = x /\ to # x => n' = n - 1
               /\ spc[s] # x /\ to # x => n' = n
<1> DEFINE S == AtSender(x)
<1>1. IsFiniteSet(S) /\ Cardinality(S) \in Nat
  BY ThreadCounts, FS_CardinalityType
<1>2. \A y \in Senders : spc'[y] = IF y = s THEN to ELSE spc[y]
  BY DEF ThreadTypes
<1>3. s \in S <=> spc[s] = x
  BY DEF AtSender
<1>4. AtSender(x)' = IF to = x THEN S \cup {s} ELSE S \ {s}
  BY <1>2 DEF AtSender
<1>5. /\ IsFiniteSet(S \cup {s}) /\ IsFiniteSet(S \ {s})
      /\ Cardinality(S \cup {s}) = IF s \in S THEN Cardinality(S) ELSE Cardinality(S) + 1
      /\ Cardinality(S \ {s}) = IF s \in S THEN Cardinality(S) - 1 ELSE Cardinality(S)
  BY <1>1, FS_AddElement, FS_RemoveElement
<1> HIDE DEF S
<1>6. Cardinality(AtSender(x)') \in Nat
  BY <1>4, <1>5, FS_CardinalityType
<1> QED BY <1>1, <1>3, <1>4, <1>5, <1>6 DEF S

LEMMA ThreadsInit == Init => ThreadsInv
<1> SUFFICES ASSUME Init PROVE ThreadsInv
  OBVIOUS
<1>1. /\ mpc = "create" /\ tpc = [t \in Pool |-> "none"] /\ spc = [s \in Senders |-> "none"]
      /\ stop = FALSE /\ responses = 0 /\ sem = 0
  BY DEF Init, Threads!Init
<1>2. ThreadTypes
  BY <1>1 DEF ThreadTypes, PoolPoints, SenderPoints
<1>3. AtPool("post") = {} /\ AtSender("test") = {} /\ AtSender("take") = {}
  BY <1>1 DEF AtPool, AtSender
<1>4. Posting = 0 /\ Testing = 0 /\ Taking = 0
  BY <1>3, FS_EmptySet DEF Posting, Testing, Taking
<1> QED BY <1>1, <1>2, <1>4 DEF ThreadsInv, Ending

LEMMA PoolStepKeeps ==
    ASSUME ThreadsInv, NEW t \in Pool, Threads!PoolStep(t)
    PROVE  ThreadsInv'
<1> USE ThreadCounts
<1>0. ThreadTypes /\ responses \in Nat /\ sem \in Nat
  BY DEF ThreadsInv, ThreadTypes
<1>1. UNCHANGED <<spc, stop>>
  BY DEF Threads!PoolStep, Threads!Announce, Threads!Notify, Threads!TakeRequest,
         Threads!Respond, Threads!Post, Threads!TestShutdown, Threads!FindsNone, Threads!queues
<1>2. Testing' = Testing /\ Taking' = Taking
  BY <1>1 DEF Testing, Taking, AtSender
<1>3. mpc' \in Ending <=> mpc \in Ending
  BY DEF Threads!PoolStep, Threads!Announce, Threads!Notify, Threads!TakeRequest,
         Threads!Respond, Threads!Post, Threads!TestShutdown, Threads!FindsNone, Ending
<1>4. mpc' \in {"join", "exited"} <=> mpc \in {"join", "exited"}
  BY DEF Threads!PoolStep, Threads!Announce, Threads!Notify, Threads!TakeRequest,
         Threads!Respond, Threads!Post, Threads!TestShutdown, Threads!FindsNone
<1>5. CASE \/ Threads!Announce(t) \/ Threads!Notify(t) \/ Threads!TakeRequest(t)
           \/ Threads!TestShutdown(t) \/ Threads!FindsNone(t)
  <2>1. /\ UNCHANGED <<responses, sem>> /\ tpc[t] # "post"
        /\ \E to \in {"notify", "loop", "dequeue", "work", "done"} :
              tpc' = [tpc EXCEPT ![t] = to]
    BY <1>5 DEF Threads!Announce, Threads!Notify, Threads!TakeRequest, Threads!TestShutdown,
                Threads!FindsNone, Threads!queues
  <2>2. tpc' \in [Pool -> PoolPoints] /\ Posting' = Posting
    BY <1>0, <2>1, PoolMoves DEF PoolPoints
  <2> QED BY <1>1, <1>2, <1>3, <1>4, <2>1, <2>2 DEF ThreadsInv, ThreadTypes
<1>6. CASE Threads!Respond(t)
  <2>1. /\ responses' = responses + 1 /\ UNCHANGED sem
        /\ tpc[t] # "post" /\ tpc' = [tpc EXCEPT ![t] = "post"]
    BY <1>6 DEF Threads!Respond
  <2>2. tpc' \in [Pool -> PoolPoints] /\ Posting' = Posting + 1
    BY <1>0, <2>1, PoolMoves DEF PoolPoints
  <2>3. ThreadTypes'
    BY <1>0, <1>1, <2>1, <2>2 DEF ThreadTypes
  <2> QED BY <1>0, <1>1, <1>2, <1>3, <1>4, <2>1, <2>2, <2>3 DEF ThreadsInv
<1>7. CASE Threads!Post(t)
  <2>1. /\ sem' = sem + 1 /\ UNCHANGED responses
        /\ tpc[t] = "post" /\ tpc' = [tpc EXCEPT ![t] = "loop"]
    BY <1>7 DEF Threads!Post
  <2>2. tpc' \in [Pool -> PoolPoints] /\ Posting' = Posting - 1
    BY <1>0, <2>1, PoolMoves DEF PoolPoints
  <2>3. ThreadTypes'
    BY <1>0, <1>1, <2>1, <2>2 DEF ThreadTypes
  <2> QED BY <1>0, <1>1, <1>2, <1>3, <1>4, <2>1, <2>2, <2>3 DEF ThreadsInv
<1> QED BY <1>5, <1>6, <1>7 DEF Threads!PoolStep

LEMMA SenderStepKeeps ==
    ASSUME ThreadsInv, NEW s \in Senders, Threads!SenderStep(s)
    PROVE  ThreadsInv'
<1> USE ThreadCounts
<1>0. ThreadTypes /\ responses \in Nat /\ sem \in Nat
  BY DEF ThreadsInv, ThreadTypes
<1>1. UNCHANGED <<mpc, tpc, stop>>
  BY DEF Threads!SenderStep, Threads!SenderTop, Threads!SemWait, Threads!SenderTest,
         Threads!Send
<1>2. Posting' = Posting
  BY <1>1 DEF Posting, AtPool
<1>3. ASSUME NEW to \in SenderPoints, spc' = [spc EXCEPT ![s] = to]
      PROVE  /\ spc' \in [Senders -> SenderPoints]
             /\ Testing' \in Nat /\ Taking' \in Nat
             /\ spc[s] # "test" /\ to = "test" => Testing' = Testing + 1
             /\ spc[s] = "test" /\ to # "test" => Testing' = Testing - 1
             /\ spc[s] # "test" /\ to # "test" => Testing' = Testing
             /\ spc[s] # "take" /\ to = "take" => Taking' = Taking + 1
             /\ spc[s] = "take" /\ to # "take" => Taking' = Taking - 1
             /\ spc[s] # "take" /\ to # "take" => Taking' = Taking
  <2>1. spc' \in [Senders -> SenderPoints]
    BY <1>0, <1>3 DEF ThreadTypes
  <2> QED BY <1>0, <1>3, <2>1, SenderMoves DEF Testing, Taking
<1>4. CASE Threads!SenderTop(s)
  <2>1. /\ UNCHANGED <<responses, sem>> /\ spc[s] = "top"
        /\ \E to \in {"done", "wait"} : spc' = [spc EXCEPT ![s] = to]
    BY <1>4 DEF Threads!SenderTop, Threads!queues
  <2>2. spc' \in [Senders -> SenderPoints] /\ Testing' = Testing /\ Taking' = Taking
    BY <1>3, <2>1 DEF SenderPoints
  <2> QED BY <1>1, <1>2, <2>1, <2>2 DEF ThreadsInv, ThreadTypes
<1>5. CASE Threads!SemWait(s)
  <2>1. /\ UNCHANGED responses /\ spc[s] = "wait" /\ sem > 0 /\ sem' = sem - 1
        /\ spc' = [spc EXCEPT ![s] = "test"]
    BY <1>5 DEF Threads!SemWait
  <2>2. spc' \in [Senders -> SenderPoints] /\ Testing' = Testing + 1 /\ Taking' = Taking
    BY <1>3, <2>1 DEF SenderPoints
  <2>3. ThreadTypes'
    BY <1>0, <1>1, <2>1, <2>2 DEF ThreadTypes
  <2> QED BY <1>0, <1>1, <1>2, <2>1, <2>2, <2>3 DEF ThreadsInv
<1>6. CASE Threads!SenderTest(s)
  <2>1. /\ UNCHANGED <<responses, sem>> /\ spc[s] = "test"
        /\ spc' = [spc EXCEPT ![s] = IF stop THEN "done" ELSE "take"]
    BY <1>6 DEF Threads!SenderTest, Threads!queues
  <2>2. CASE stop
    <3>1. /\ spc' \in [Senders -> SenderPoints] /\ Testing' = Testing - 1 /\ Taking' = Taking
          /\ Testing' \in Nat
      BY <1>3, <2>1, <2>2 DEF SenderPoints
    <3>2. ThreadTypes'
      BY <1>0, <1>1, <2>1, <3>1 DEF ThreadTypes
    <3> QED BY <1>0, <1>1, <1>2, <2>1, <3>1, <3>2 DEF ThreadsInv
  <2>3. CASE ~stop
    <3>1. /\ spc' \in [Senders -> SenderPoints] /\ Testing' = Testing - 1 /\ Taking' = Taking + 1
          /\ Testing' \in Nat
      BY <1>3, <2>1, <2>3 DEF SenderPoints
    <3>2. ThreadTypes'
      BY <1>0, <1>1, <2>1, <3>1 DEF ThreadTypes
    <3>3. mpc \notin {"join", "exited"}
      BY <2>3 DEF ThreadsInv, Ending
    <3>4. sem + Testing + Taking + Posting <= responses
      BY <3>3 DEF ThreadsInv
    <3>5. sem' + Testing' + Taking' + Posting' <= responses' /\ Taking' <= responses'
      BY <1>0, <1>2, <2>1, <3>1, <3>4
    <3> QED BY <1>1, <3>2, <3>5 DEF ThreadsInv
  <2> QED BY <2>2, <2>3
<1>7. CASE Threads!Send(s)
  <2>1. /\ UNCHANGED sem /\ spc[s] = "take" /\ responses > 0 /\ responses' = responses - 1
        /\ spc' = [spc EXCEPT ![s] = "top"]
    BY <1>7 DEF Threads!Send
  <2>2. /\ spc' \in [Senders -> SenderPoints] /\ Testing' = Testing /\ Taking' = Taking - 1
        /\ Taking' \in Nat
    BY <1>3, <2>1 DEF SenderPoints
  <2>3. ThreadTypes'
    BY <1>0, <1>1, <2>1, <2>2 DEF ThreadTypes
  <2> QED BY <1>0, <1>1, <1>2, <2>1, <2>2, <2>3 DEF ThreadsInv
<1> QED BY <1>4, <1>5, <1>6, <1>7 DEF Threads!SenderStep

LEMMA MainStepKeeps ==
    ASSUME ThreadsInv, Threads!MainStep \/ Threads!Signal \/ (\E l \in Loopers : Threads!LooperEnds(l))
    PROVE  ThreadsInv'
<1> USE ThreadCounts
<1>0. ThreadTypes /\ responses \in Nat /\ sem \in Nat
  BY DEF ThreadsInv, ThreadTypes
<1>a. UNCHANGED spc => Testing' = Testing /\ Taking' = Taking
  BY DEF Testing, Taking, AtSender
<1>b. UNCHANGED tpc => Posting' = Posting
  BY DEF Posting, AtPool
<1>1. ASSUME NEW t \in Pool, Threads!CreateThread(t)
      PROVE  ThreadsInv'
  <2>1. /\ UNCHANGED <<spc, stop, responses, sem>> /\ tpc[t] # "post"
        /\ tpc' = [tpc EXCEPT ![t] = "start"]
        /\ mpc' \in {"create", "init"} /\ mpc = "create"
    BY <1>1 DEF Threads!CreateThread, Threads!queues
  <2>2. tpc' \in [Pool -> PoolPoints] /\ Posting' = Posting
    BY <1>0, <2>1, PoolMoves DEF PoolPoints
  <2> QED BY <1>a, <2>1, <2>2 DEF ThreadsInv, ThreadTypes, Ending
<1>2. CASE \/ Threads!InitTest \/ Threads!InitBlock \/ Threads!EpollReturns
           \/ \E l \in Loopers : Threads!LooperEnds(l)
  <2>1. /\ UNCHANGED <<tpc, spc, stop, responses, sem>>
        /\ mpc' = mpc \/ (mpc \notin Ending /\ mpc' \notin Ending)
    BY <1>2 DEF Threads!InitTest, Threads!InitBlock, Threads!EpollReturns,
                Threads!LooperEnds, Threads!queues, Ending
  <2> QED BY <1>a, <1>b, <2>1 DEF ThreadsInv, ThreadTypes, Ending
<1>3. CASE Threads!Signal
  <2>1. UNCHANGED <<mpc, tpc, spc, responses, sem>> /\ stop' = TRUE
    BY <1>3 DEF Threads!Signal, Threads!queues
  <2> QED BY <1>a, <1>b, <2>1 DEF ThreadsInv, ThreadTypes
<1>4. CASE Threads!Serve
  <2>1. /\ UNCHANGED <<tpc, spc, stop, responses, sem>>
        /\ mpc = "serve" /\ mpc' = IF stop THEN "stopAll" ELSE "wait"
    BY <1>4 DEF Threads!Serve, Threads!queues
  <2> QED BY <1>a, <1>b, <2>1 DEF ThreadsInv, ThreadTypes, Ending
<1>5. CASE Threads!StopAll
  <2>1. UNCHANGED <<tpc, spc, stop, responses, sem>> /\ mpc = "stopAll" /\ mpc' = "joinPool"
    BY <1>5 DEF Threads!StopAll, Threads!queues
  <2> QED BY <1>a, <1>b, <2>1 DEF ThreadsInv, ThreadTypes, Ending
<1>6. CASE Threads!JoinPool
  <2>1. /\ UNCHANGED <<tpc, spc, stop, responses>> /\ mpc = "joinPool" /\ mpc' = "join"
        /\ sem' = sem + Cardinality(Senders)
    BY <1>6, OneCardinality DEF Threads!JoinPool, Threads!Posts
  <2>2. Cardinality(Senders) \in Nat
    BY PartsAssumption, OneCardinality, FS_CardinalityType
       DEF PartsAssumption, Threads!WorkerAssumption
  <2>3. ThreadTypes'
    BY <1>0, <2>1, <2>2 DEF ThreadTypes
  <2> QED BY <1>a, <2>1, <2>3 DEF ThreadsInv, Ending
<1>7. CASE Threads!Join
  <2>1. /\ UNCHANGED <<tpc, spc, stop, sem>> /\ mpc = "join" /\ mpc' = "exited"
        /\ responses' = 0 /\ \A s \in Senders : spc[s] = "done"
    BY <1>7 DEF Threads!Join
  <2>2. AtSender("take") = {}
    BY <2>1 DEF AtSender
  <2>3. Taking' = 0
    BY <1>a, <2>1, <2>2, FS_EmptySet DEF Taking
  <2>4. ThreadTypes'
    BY <1>0, <2>1 DEF ThreadTypes
  <2> QED BY <2>1, <2>3, <2>4 DEF ThreadsInv, Ending
<1>8. CASE Threads!StartThreads
  <2>1. /\ UNCHANGED <<tpc, stop, responses, sem>> /\ mpc = "socket" /\ mpc' = "serve"
        /\ spc' = [s \in Senders |-> "top"]
    BY <1>8 DEF Threads!StartThreads, Threads!queues
  <2>2. AtSender("take")' = {} /\ AtSender("test")' = {}
    BY <2>1 DEF AtSender
  <2>3. Taking' = 0 /\ Testing' = 0
    BY <2>2, FS_EmptySet DEF Taking, Testing
  <2>4. ThreadTypes'
    BY <1>0, <2>1 DEF ThreadTypes, SenderPoints
  <2>5. sem + Testing + Taking + Posting <= responses
    BY <2>1 DEF ThreadsInv
  <2>6. sem' + Testing' + Taking' + Posting' <= responses' /\ Taking' <= responses'
    BY <1>0, <1>b, <2>1, <2>3, <2>5
  <2> QED BY <2>1, <2>4, <2>6 DEF ThreadsInv, Ending
<1> QED BY <1>1, <1>2, <1>3, <1>4, <1>5, <1>6, <1>7, <1>8 DEF Threads!MainStep

LEMMA ThreadsNext == ASSUME ThreadsInv, [Next]_vars PROVE ThreadsInv'
<1>1. CASE UNCHANGED threadVars
  BY <1>1 DEF threadVars, ThreadsInv, ThreadTypes, Posting, Testing, Taking, AtPool, AtSender
<1> QED BY <1>1, PartSteps, PoolStepKeeps, SenderStepKeeps, MainStepKeeps DEF Threads!Next

(* my_socket.cpp, my_process_cycle.cpp, for any number of threads and      *)
(* requests: a send thread that goes to the queue finds a response, also   *)
(* when the worker ends and all of them are woken.                         *)
THEOREM SendersFindResponses == Spec => []NeverEmptyHanded
<1>1. ThreadsInv /\ [Next]_vars => ThreadsInv'
  BY ThreadsNext
<1>2. ThreadsInv => NeverEmptyHanded
  BY ThreadCounts DEF ThreadsInv, NeverEmptyHanded
<1> QED BY ThreadsInit, <1>1, <1>2, PTL DEF Spec

-----------------------------------------------------------------------------
(* The master process: every worker is in the table, or a 0 is and the     *)
(* signals reach the process group.                                        *)
LastPid == WorkerProcesses + MaxCrashes

LEMMA MasterConstants ==
    /\ WorkerProcesses \in Nat \ {0} /\ MaxCrashes \in Nat
    /\ Processes!Pids = 1 .. LastPid /\ LastPid \in Nat /\ WorkerProcesses <= LastPid
    /\ Processes!Indices = 0 .. LastPid
<1>1. WorkerProcesses \in Nat \ {0} /\ MaxCrashes \in Nat
  BY PartsAssumption DEF PartsAssumption, Processes!MasterAssumption
<1>2. Processes!Pids = 1 .. LastPid /\ LastPid \in Nat /\ WorkerProcesses <= LastPid
  BY <1>1 DEF Processes!Pids, LastPid
<1>3. Processes!Cardinality(1 .. LastPid) = Cardinality(1 .. LastPid)
  BY DEF Cardinality, Processes!Cardinality
<1>4. Cardinality(1 .. LastPid) = LastPid
  BY <1>2, FS_Interval
<1> QED
  BY <1>1, <1>2, <1>3, <1>4 DEF Processes!Indices

ProcStates == {"none", "start", "run", "stop", "zombie", "gone"}

MasterTypes ==
    /\ slot \in 0 .. WorkerProcesses /\ ngx_last_process \in 0 .. LastPid
    /\ ngx_processes \in [Processes!Indices -> Int]
    /\ proc \in [Processes!Pids -> ProcStates]

(* Processes are numbered in the order of their forks.                     *)
Forked == \A x \in Processes!Pids : proc[x] = "none" <=> x > ngx_last_process

(* A fork that fails at the start leaves a 0 below the entries that are    *)
(* used, as soon as another worker has been started.                       *)
Forking ==
    masterPc = "fork" =>
        /\ ngx_last_process <= slot /\ slot < WorkerProcesses
        /\ \A i \in Processes!Indices : i >= slot => ngx_processes[i] = 0
        /\ \/ slot = ngx_last_process
           \/ ngx_processes[ngx_last_process] = 0
           \/ 0 \in Processes!Listed
Listing == 0 \in Processes!Listed \/ Processes!Live \subseteq Processes!Listed
Stopping == masterPc \in {"final", "exited"} => g_stopEvent

MasterInv == MasterTypes /\ Forked /\ Forking /\ Listing /\ Stopping /\ EndReachesAll

LEMMA MasterInit == Init => MasterInv
<1> SUFFICES ASSUME Init PROVE MasterInv
  OBVIOUS
<1> USE MasterConstants
<1>1. /\ masterPc = "fork" /\ slot = 0 /\ ngx_last_process = 0
      /\ ngx_processes = [i \in Processes!Indices |-> 0]
      /\ proc = [x \in Processes!Pids |-> "none"]
  BY DEF Init, Processes!Init
<1>2. MasterTypes /\ Forked
  BY <1>1 DEF MasterTypes, Forked, ProcStates
<1>3. Forking
  BY <1>1 DEF Forking
<1>4. Listing
  BY <1>1 DEF Listing, Processes!Live
<1> QED
  BY <1>1, <1>2, <1>3, <1>4 DEF MasterInv, Stopping, EndReachesAll, Processes!EndReachesAll

(* The next process gets the next number.                                  *)
LEMMA NextPid ==
    ASSUME MasterTypes, Forked, Processes!Unused # {}
    PROVE  /\ Processes!Min(Processes!Unused) = ngx_last_process + 1
           /\ ngx_last_process + 1 \in Processes!Pids
<1> USE MasterConstants
<1>1. Processes!Unused = {x \in 1 .. LastPid : x > ngx_last_process} /\ ngx_last_process \in Nat
  BY DEF Processes!Unused, Forked, MasterTypes
<1>2. ngx_last_process + 1 \in Processes!Unused
  BY <1>1
<1>3. \A y \in Processes!Unused : y \in Nat /\ ngx_last_process + 1 <= y
  BY <1>1
<1> DEFINE m == Processes!Min(Processes!Unused)
<1>4. m \in Processes!Unused /\ \A y \in Processes!Unused : m <= y
  BY <1>2, <1>3 DEF Processes!Min
<1> HIDE DEF m
<1>5. m = ngx_last_process + 1
  BY <1>1, <1>2, <1>3, <1>4
<1> QED BY <1>1, <1>2, <1>5 DEF m

(* The index of a process that is looked for holds it, or is the length.   *)
LEMMA IndexFound ==
    ASSUME MasterTypes, NEW x \in Processes!Pids
    PROVE  LET i == Processes!IndexOf(x)
           IN  /\ i \in 0 .. ngx_last_process
               /\ i # ngx_last_process => ngx_processes[i] = x
               /\ x \in Processes!Listed => i # ngx_last_process
<1> USE MasterConstants
<1> DEFINE S == {i \in 0 .. ngx_last_process - 1 : ngx_processes[i] = x} \cup {ngx_last_process}
           i == Processes!IndexOf(x)
<1>1. S \subseteq Nat /\ S # {} /\ ngx_last_process \in Nat
  BY DEF MasterTypes
<1>2. i = Processes!Min(S)
  BY DEF Processes!IndexOf
<1>3. i \in S /\ \A y \in S : i <= y
  <2> HIDE DEF S, i
  <2> QED BY <1>1, <1>2, SmallestExists DEF Processes!Min
<1> HIDE DEF i
<1>4. i \in 0 .. ngx_last_process /\ (i # ngx_last_process => ngx_processes[i] = x)
  BY <1>1, <1>3
<1>5. ASSUME x \in Processes!Listed PROVE i # ngx_last_process
  <2>1. PICK j \in 0 .. ngx_last_process - 1 : ngx_processes[j] = x
    BY <1>5 DEF Processes!Listed
  <2>2. j \in S /\ j < ngx_last_process
    BY <1>1, <2>1
  <2> QED BY <1>1, <1>3, <2>2
<1> QED BY <1>4, <1>5 DEF i

(* A new process at index i; the one that was there is not alive.          *)
LEMMA SpawnStep ==
    ASSUME MasterTypes, Forked, Listing, Processes!Unused # {},
           NEW i \in 0 .. LastPid, NEW before \in [Processes!Pids -> ProcStates],
           \A x \in Processes!Pids : /\ before[x] = "none" <=> proc[x] = "none"
                                     /\ before[x] \in {"start", "run", "stop"} => before[x] = proc[x],
           Processes!Spawned(i, before),
           \/ i = ngx_last_process /\ ~(0 \in Processes!Listed)
           \/ 0 \in Processes!Listed
                 /\ (i < ngx_last_process => ngx_processes[i] # 0)
           \/ /\ i < ngx_last_process /\ ngx_processes[i] \in Processes!Pids
              /\ before[ngx_processes[i]] = "gone"
           \/ i > ngx_last_process /\ ngx_processes[ngx_last_process] = 0
    PROVE  /\ Forked' /\ Listing'
           /\ ngx_last_process' = ngx_last_process + 1 /\ ngx_last_process' \in 0 .. LastPid
           /\ ngx_processes' \in [Processes!Indices -> Int]
           /\ proc' \in [Processes!Pids -> ProcStates]
           /\ Processes!Live' \subseteq Processes!Live \cup {Processes!Min(Processes!Unused)}
<1> USE MasterConstants
<1> DEFINE n == ngx_last_process + 1
<1>1. /\ proc' = [before EXCEPT ![n] = "start"]
      /\ ngx_processes' = [ngx_processes EXCEPT ![i] = n]
      /\ ngx_last_process' = n
      /\ n \in 1 .. LastPid /\ Processes!Min(Processes!Unused) = n
  BY NextPid DEF Processes!Spawned
<1>2. /\ ngx_last_process \in Nat /\ n \in Nat
      /\ ngx_processes \in [0 .. LastPid -> Int]
      /\ proc \in [Processes!Pids -> ProcStates]
  BY DEF MasterTypes
<1> HIDE DEF n
<1>3. n = ngx_last_process + 1
  BY DEF n
<1>4. /\ ngx_processes' \in [0 .. LastPid -> Int] /\ ngx_processes'[i] = n
      /\ \A j \in 0 .. LastPid : j # i => ngx_processes'[j] = ngx_processes[j]
  BY <1>1, <1>2
<1>5. /\ proc' \in [Processes!Pids -> ProcStates] /\ proc'[n] = "start"
      /\ \A x \in Processes!Pids : x # n => proc'[x] = before[x]
  BY <1>1, <1>2 DEF ProcStates
<1>6. Forked'
  <2> SUFFICES ASSUME NEW x \in Processes!Pids
               PROVE  proc'[x] = "none" <=> x > ngx_last_process'
    BY DEF Forked
  <2>1. x = n => proc'[x] = "start" /\ ~(x > n)
    BY <1>2, <1>5
  <2>2. x # n => (proc'[x] = "none" <=> proc[x] = "none")
    BY <1>5
  <2>3. x # n => (proc[x] = "none" <=> x > ngx_last_process)
    BY DEF Forked
  <2>4. x # n => (x > n <=> x > ngx_last_process)
    BY <1>2, <1>3
  <2> QED BY <1>1, <2>1, <2>2, <2>3, <2>4
<1>7. Processes!Live' = {x \in Processes!Pids : proc'[x] \in {"start", "run", "stop"}}
      /\ Processes!Live = {x \in Processes!Pids : proc[x] \in {"start", "run", "stop"}}
  BY DEF Processes!Live
<1>8. Processes!Live' \subseteq Processes!Live \cup {n}
  BY <1>5, <1>7
<1>9. \A j \in 0 .. ngx_last_process :
         ngx_processes'[j] \in Processes!Listed' /\ j \in 0 .. LastPid
  BY <1>1, <1>2, <1>3 DEF Processes!Listed
<1>10. Listing'
  <2>1. CASE \E j \in 0 .. ngx_last_process : j # i /\ ngx_processes[j] = 0
    <3>1. PICK j \in 0 .. ngx_last_process : j # i /\ ngx_processes[j] = 0
      BY <2>1
    <3>2. ngx_processes'[j] = 0 /\ ngx_processes'[j] \in Processes!Listed'
      BY <1>4, <1>9, <3>1
    <3> QED BY <3>2 DEF Listing
  <2>2. CASE 0 \in Processes!Listed /\ (i < ngx_last_process => ngx_processes[i] # 0)
    <3>1. PICK j \in 0 .. ngx_last_process - 1 : ngx_processes[j] = 0
      BY <2>2 DEF Processes!Listed
    <3>2. j \in 0 .. ngx_last_process /\ j # i
      BY <1>2, <2>2, <3>1
    <3> QED BY <2>1, <3>1, <3>2
  <2>3. CASE i > ngx_last_process /\ ngx_processes[ngx_last_process] = 0
    <3>1. ngx_last_process \in 0 .. ngx_last_process /\ ngx_last_process # i
      BY <1>2, <2>3
    <3> QED BY <2>1, <2>3, <3>1
  <2>4. CASE /\ ~(0 \in Processes!Listed)
             /\ i \in 0 .. ngx_last_process
             /\ i < ngx_last_process =>
                   ngx_processes[i] \in Processes!Pids /\ before[ngx_processes[i]] = "gone"
    <3>1. SUFFICES ASSUME NEW x \in Processes!Live' PROVE x \in Processes!Listed'
      BY DEF Listing
    <3>2. CASE x = n
      BY <1>4, <1>9, <2>4, <3>2
    <3>3. CASE x # n
      <4>1. x \in Processes!Pids /\ before[x] \in {"start", "run", "stop"} /\ x \in Processes!Live
        BY <1>5, <1>7, <3>3
      <4>2. PICK j \in 0 .. ngx_last_process - 1 : ngx_processes[j] = x
        BY <2>4, <4>1 DEF Listing, Processes!Listed
      <4>3. j \in 0 .. ngx_last_process /\ j < ngx_last_process
        BY <1>2, <4>2
      <4>4. j # i
        BY <2>4, <4>1, <4>2, <4>3
      <4> QED BY <1>4, <1>9, <4>2, <4>3, <4>4
    <3> QED BY <3>2, <3>3
  <2>5. i \in 0 .. ngx_last_process \/ i > ngx_last_process
    BY <1>2
  <2>6. i = ngx_last_process => ~(i < ngx_last_process) /\ i \in 0 .. ngx_last_process
    BY <1>2
  <2>7. CASE /\ i < ngx_last_process /\ ngx_processes[i] \in Processes!Pids
             /\ before[ngx_processes[i]] = "gone"
    <3>1. ngx_processes[i] # 0
      BY <2>7
    <3>2. i \in 0 .. ngx_last_process
      BY <1>2, <2>7
    <3> QED BY <2>2, <2>4, <2>7, <3>1, <3>2
  <2> QED BY <2>2, <2>3, <2>4, <2>6, <2>7
<1>11. ngx_last_process' \in 0 .. LastPid
  BY <1>1, <1>2
<1> QED
  BY <1>1, <1>3, <1>4, <1>5, <1>6, <1>8, <1>10, <1>11

(* Steps that leave the table alone, and revive nobody.                    *)
LEMMA TableStays ==
    ASSUME MasterInv, UNCHANGED <<ngx_processes, ngx_last_process>>,
           proc' \in [Processes!Pids -> ProcStates],
           \A x \in Processes!Pids :
              /\ proc'[x] = "none" <=> proc[x] = "none"
              /\ proc'[x] \in {"start", "run", "stop"} => proc[x] \in {"start", "run", "stop"}
    PROVE  /\ Forked' /\ Listing'
           /\ Processes!Live' \subseteq Processes!Live /\ Processes!Listed' = Processes!Listed
<1>1. Forked'
  BY DEF MasterInv, Forked
<1>2. Processes!Live' \subseteq Processes!Live
  BY DEF Processes!Live
<1>3. Processes!Listed' = Processes!Listed
  BY DEF Processes!Listed
<1>4. Listing'
  BY <1>2, <1>3 DEF MasterInv, Listing
<1> QED BY <1>1, <1>2, <1>3, <1>4

LEMMA StartStep == ASSUME MasterInv, Processes!Start PROVE MasterInv'
<1> USE MasterConstants
<1>1. /\ masterPc = "fork" /\ slot' = slot + 1
      /\ masterPc' = IF slot + 1 = WorkerProcesses THEN "suspend" ELSE "fork"
  BY DEF Processes!Start
<1>2. /\ ngx_last_process \in Nat /\ slot \in Nat /\ slot < WorkerProcesses
      /\ ngx_last_process <= slot /\ ngx_last_process \in Processes!Indices
      /\ \A j \in Processes!Indices : j >= slot => ngx_processes[j] = 0
      /\ \/ slot = ngx_last_process
         \/ ngx_processes[ngx_last_process] = 0
         \/ 0 \in Processes!Listed
  BY <1>1 DEF MasterInv, MasterTypes, Forking
<1>3. masterPc' \in {"suspend", "fork"} /\ slot' \in 0 .. WorkerProcesses
      /\ (masterPc' = "fork" => slot' < WorkerProcesses)
  BY <1>1, <1>2
<1>4. Stopping' /\ EndReachesAll'
  BY <1>3 DEF Stopping, EndReachesAll, Processes!EndReachesAll
<1>5. CASE Processes!Spawned(slot, proc)
  <2>1. Processes!Unused # {}
    BY <1>5 DEF Processes!Spawned
  <2>2. slot \in 0 .. LastPid /\ slot \in Processes!Indices
    BY <1>2
  <2>3. \/ slot = ngx_last_process /\ ~(0 \in Processes!Listed)
        \/ 0 \in Processes!Listed /\ (slot < ngx_last_process => ngx_processes[slot] # 0)
        \/ slot > ngx_last_process /\ ngx_processes[ngx_last_process] = 0
    BY <1>2
  <2>4. proc \in [Processes!Pids -> ProcStates]
    BY DEF MasterInv, MasterTypes
  <2>5. /\ Forked' /\ Listing'
        /\ ngx_last_process' = ngx_last_process + 1 /\ ngx_last_process' \in 0 .. LastPid
        /\ ngx_processes' \in [Processes!Indices -> Int]
        /\ proc' \in [Processes!Pids -> ProcStates]
    BY <1>5, <2>1, <2>2, <2>3, <2>4, SpawnStep DEF MasterInv
  <2>6. \A j \in Processes!Indices : j # slot => ngx_processes'[j] = ngx_processes[j]
    BY <1>5 DEF Processes!Spawned, MasterInv, MasterTypes
  <2>7. slot' = ngx_last_process' \/ 0 \in Processes!Listed'
    <3>1. CASE slot = ngx_last_process
      BY <1>1, <2>5, <3>1
    <3>2. CASE slot # ngx_last_process /\ ngx_processes[ngx_last_process] = 0
      <4>1. ngx_processes'[ngx_last_process] = 0
        BY <1>2, <2>6, <3>2
      <4>2. ngx_last_process \in 0 .. ngx_last_process' - 1
        BY <1>2, <2>5
      <4> QED BY <4>1, <4>2 DEF Processes!Listed
    <3>3. CASE 0 \in Processes!Listed
      <4>1. PICK j \in 0 .. ngx_last_process - 1 : ngx_processes[j] = 0
        BY <3>3 DEF Processes!Listed
      <4>2. j # slot /\ j \in Processes!Indices /\ j \in 0 .. ngx_last_process' - 1
        BY <1>2, <2>5, <4>1
      <4>3. ngx_processes'[j] = 0
        BY <2>6, <4>1, <4>2
      <4> QED BY <4>2, <4>3 DEF Processes!Listed
    <3> QED BY <1>2, <3>1, <3>2, <3>3
  <2>8. \A j \in Processes!Indices : j >= slot' => ngx_processes'[j] = 0
    BY <1>1, <1>2, <2>6
  <2>9. ngx_last_process' <= slot'
    BY <1>1, <1>2, <2>5
  <2>10. Forking'
    BY <1>3, <2>7, <2>8, <2>9 DEF Forking
  <2> QED BY <1>3, <1>4, <2>5, <2>10 DEF MasterInv, MasterTypes
<1>6. CASE UNCHANGED <<ngx_processes, ngx_last_process, proc>>
  <2>1. Forked' /\ Listing' /\ Processes!Listed' = Processes!Listed
    BY <1>6, TableStays DEF MasterInv, MasterTypes
  <2>2. ngx_last_process' <= slot' /\ \A j \in Processes!Indices : j >= slot' => ngx_processes'[j] = 0
    BY <1>1, <1>2, <1>6
  <2>3. slot = ngx_last_process => ngx_processes[ngx_last_process] = 0
    BY <1>2
  <2>4. Forking'
    BY <1>2, <1>3, <1>6, <2>1, <2>2, <2>3 DEF Forking
  <2> QED BY <1>3, <1>4, <1>6, <2>1, <2>4 DEF MasterInv, MasterTypes
<1> QED BY <1>5, <1>6 DEF Processes!Start, Processes!table

LEMMA ReapStep == ASSUME MasterInv, Processes!ReapChild PROVE MasterInv'
<1> USE MasterConstants
<1>1. /\ masterPc \in {"reap", "final"} /\ UNCHANGED <<masterPc, slot, g_stopEvent, term>>
  BY DEF Processes!ReapChild, Processes!flags
<1>2. PICK x \in Processes!Zombies :
         \/ /\ Processes!Spawned(Processes!IndexOf(x), Processes!Reaped(x))
            /\ late' = IF g_stopEvent THEN late \cup {Processes!Min(Processes!Unused)} ELSE late
         \/ /\ proc' = Processes!Reaped(x)
            /\ ngx_processes' = [ngx_processes EXCEPT ![Processes!IndexOf(x)] = -1]
            /\ UNCHANGED <<ngx_last_process, late>>
  BY DEF Processes!ReapChild
<1> DEFINE i == Processes!IndexOf(x)
           before == Processes!Reaped(x)
<1>3. x \in Processes!Pids /\ proc[x] = "zombie" /\ x # 0
  BY DEF Processes!Zombies
<1>4. /\ i \in 0 .. ngx_last_process
      /\ i # ngx_last_process => ngx_processes[i] = x
  BY <1>3, IndexFound DEF MasterInv
<1>5. /\ ngx_last_process \in Nat /\ ngx_last_process <= LastPid
      /\ ngx_processes \in [0 .. LastPid -> Int] /\ proc \in [Processes!Pids -> ProcStates]
  BY DEF MasterInv, MasterTypes
<1>6. /\ before \in [Processes!Pids -> ProcStates] /\ before[x] = "gone"
      /\ \A y \in Processes!Pids : y # x => before[y] = proc[y]
  BY <1>3, <1>5 DEF Processes!Reaped, ProcStates
<1>7. \A y \in Processes!Pids : /\ before[y] = "none" <=> proc[y] = "none"
                                /\ before[y] \in {"start", "run", "stop"} => before[y] = proc[y]
  BY <1>3, <1>6
<1> HIDE DEF i, before
<1>8. Forking' /\ Stopping'
  BY <1>1 DEF MasterInv, Forking, Stopping
<1>9. CASE /\ Processes!Spawned(i, before)
           /\ late' = IF g_stopEvent THEN late \cup {Processes!Min(Processes!Unused)} ELSE late
  <2>1. Processes!Unused # {}
    BY <1>9 DEF Processes!Spawned
  <2>2. i \in 0 .. LastPid
    BY <1>4, <1>5
  <2>3. \/ i = ngx_last_process /\ ~(0 \in Processes!Listed)
        \/ 0 \in Processes!Listed /\ (i < ngx_last_process => ngx_processes[i] # 0)
        \/ /\ i < ngx_last_process /\ ngx_processes[i] \in Processes!Pids
           /\ before[ngx_processes[i]] = "gone"
    BY <1>3, <1>4, <1>5, <1>6
  <2>4. /\ Forked' /\ Listing'
        /\ ngx_last_process' \in 0 .. LastPid
        /\ ngx_processes' \in [Processes!Indices -> Int]
        /\ proc' \in [Processes!Pids -> ProcStates]
        /\ Processes!Live' \subseteq Processes!Live \cup {Processes!Min(Processes!Unused)}
    BY <1>6, <1>7, <1>9, <2>1, <2>2, <2>3, SpawnStep DEF MasterInv
  <2>5. EndReachesAll'
    BY <1>1, <1>9, <2>4
       DEF MasterInv, Stopping, EndReachesAll, Processes!EndReachesAll
  <2>6. MasterTypes'
    BY <1>1, <2>4 DEF MasterInv, MasterTypes
  <2> QED BY <1>8, <2>4, <2>5, <2>6 DEF MasterInv
<1>10. CASE /\ proc' = before /\ ngx_processes' = [ngx_processes EXCEPT ![i] = -1]
            /\ UNCHANGED <<ngx_last_process, late>>
  <2>1. /\ ngx_processes' \in [0 .. LastPid -> Int]
        /\ \A j \in 0 .. LastPid : j # i => ngx_processes'[j] = ngx_processes[j]
    <3> DEFINE minus == -1
    <3>1. minus \in Int
      OBVIOUS
    <3> HIDE DEF minus
    <3>2. ngx_processes' = [ngx_processes EXCEPT ![i] = minus]
      BY <1>10 DEF minus
    <3> QED BY <1>5, <3>1, <3>2
  <2>2. \A j \in 0 .. ngx_last_process - 1 :
           ngx_processes[j] # x => ngx_processes'[j] = ngx_processes[j]
    BY <1>4, <1>5, <2>1
  <2>3. \A y : y # x /\ y \in Processes!Listed => y \in Processes!Listed'
    BY <1>10, <2>2 DEF Processes!Listed
  <2>4. Processes!Live' \subseteq Processes!Live \ {x}
    BY <1>6, <1>7, <1>10 DEF Processes!Live
  <2>5. Listing'
    BY <1>3, <2>3, <2>4 DEF MasterInv, Listing
  <2>6. Forked'
    BY <1>7, <1>10 DEF MasterInv, Forked
  <2>7. EndReachesAll'
    BY <1>1, <1>10, <2>4 DEF MasterInv, EndReachesAll, Processes!EndReachesAll
  <2>8. MasterTypes'
    BY <1>1, <1>6, <1>10, <2>1 DEF MasterInv, MasterTypes
  <2> QED BY <1>8, <2>5, <2>6, <2>7, <2>8 DEF MasterInv
<1> QED BY <1>2, <1>9, <1>10 DEF i, before

LEMMA MasterQuietStep ==
    ASSUME MasterInv,
           \/ Processes!Deliver \/ Processes!ReapDone \/ Processes!Again \/ Processes!Stop
           \/ Processes!Quit \/ UNCHANGED masterVars
    PROVE  MasterInv'
<1> USE MasterConstants
<1>1. UNCHANGED <<ngx_processes, ngx_last_process, slot, late>>
  BY DEF Processes!Deliver, Processes!ReapDone, Processes!Again, Processes!Stop, Processes!Quit,
         Processes!table, Processes!flags, Processes!procs, masterVars
<1>2. proc \in [Processes!Pids -> ProcStates]
  BY DEF MasterInv, MasterTypes
<1>3. UNCHANGED proc
      \/ proc' = [x \in Processes!Pids |-> IF x \in Processes!Zombies THEN "gone" ELSE proc[x]]
  BY DEF Processes!Deliver, Processes!Handler, Processes!ReapDone, Processes!Again,
         Processes!Stop, Processes!Quit, Processes!procs, masterVars
<1>4. /\ proc' \in [Processes!Pids -> ProcStates]
      /\ \A x \in Processes!Pids :
            /\ proc'[x] = "none" <=> proc[x] = "none"
            /\ proc'[x] \in {"start", "run", "stop"} => proc[x] \in {"start", "run", "stop"}
  BY <1>2, <1>3 DEF Processes!Zombies, ProcStates
<1>5. /\ Forked' /\ Listing'
      /\ Processes!Live' \subseteq Processes!Live /\ Processes!Listed' = Processes!Listed
  BY <1>1, <1>4, TableStays
<1>6. MasterTypes'
  BY <1>1, <1>4 DEF MasterInv, MasterTypes
<1>7. masterPc' = "fork" => masterPc = "fork"
  BY DEF Processes!Deliver, Processes!ReapDone, Processes!Again, Processes!Stop, Processes!Quit,
         masterVars
<1>8. Forking'
  BY <1>1, <1>5, <1>7 DEF MasterInv, Forking
<1>9. Stopping' /\ EndReachesAll'
  <2>1. CASE Processes!Stop
    <3>1. /\ masterPc' = "final" /\ g_stopEvent /\ UNCHANGED g_stopEvent
          /\ term' = term \cup Processes!Signalled
      BY <2>1 DEF Processes!Stop, Processes!flags
    <3>2. Processes!Live \subseteq Processes!Signalled
      BY DEF Processes!Signalled, MasterInv, Listing
    <3> QED BY <1>5, <3>1, <3>2 DEF Stopping, EndReachesAll, Processes!EndReachesAll
  <2>2. CASE Processes!Deliver
    <3>1. masterPc' \in {"reap", "test"}
      BY <2>2 DEF Processes!Deliver
    <3> QED BY <3>1 DEF Stopping, EndReachesAll, Processes!EndReachesAll
  <2>3. CASE Processes!ReapDone \/ Processes!Again \/ Processes!Quit \/ UNCHANGED masterVars
    <3>1. /\ masterPc' \in {"final", "exited"} => masterPc \in {"final", "exited"}
          /\ UNCHANGED <<g_stopEvent, term, late>>
      BY <2>3 DEF Processes!ReapDone, Processes!Again, Processes!Quit, Processes!flags,
                  Processes!procs, masterVars
    <3> QED
      BY <1>5, <3>1 DEF MasterInv, Stopping, EndReachesAll, Processes!EndReachesAll
  <2> QED BY <2>1, <2>2, <2>3
<1> QED BY <1>5, <1>6, <1>8, <1>9 DEF MasterInv

LEMMA WorkerStepKeeps ==
    ASSUME MasterInv, NEW x \in Processes!Pids, Processes!WorkerStep(x) \/ Processes!Crash(x)
    PROVE  MasterInv'
<1> USE MasterConstants
<1>1. /\ UNCHANGED <<ngx_processes, ngx_last_process, slot, late, masterPc, g_stopEvent>>
      /\ term \subseteq term'
      /\ proc[x] \in {"start", "run", "stop"}
      /\ \E s \in {"run", "stop", "zombie"} : proc' = [proc EXCEPT ![x] = s]
  BY DEF Processes!WorkerStep, Processes!Ready, Processes!Leave, Processes!Exit,
         Processes!Crash, Processes!Live, Processes!table, Processes!flags
<1>2. proc \in [Processes!Pids -> ProcStates]
  BY DEF MasterInv, MasterTypes
<1>3. /\ proc' \in [Processes!Pids -> ProcStates]
      /\ \A y \in Processes!Pids :
            /\ proc'[y] = "none" <=> proc[y] = "none"
            /\ proc'[y] \in {"start", "run", "stop"} => proc[y] \in {"start", "run", "stop"}
  BY <1>1, <1>2 DEF ProcStates
<1>4. /\ Forked' /\ Listing'
      /\ Processes!Live' \subseteq Processes!Live /\ Processes!Listed' = Processes!Listed
  BY <1>1, <1>3, TableStays
<1>5. MasterTypes'
  BY <1>1, <1>3 DEF MasterInv, MasterTypes
<1>6. Forking' /\ Stopping' /\ EndReachesAll'
  BY <1>1, <1>4 DEF MasterInv, Forking, Stopping, EndReachesAll, Processes!EndReachesAll
<1> QED BY <1>4, <1>5, <1>6 DEF MasterInv

LEMMA MasterNext == ASSUME MasterInv, [Next]_vars PROVE MasterInv'
BY PartSteps, StartStep, ReapStep, MasterQuietStep, WorkerStepKeeps
   DEF Processes!Next, Processes!MasterStep

(* my_process_cycle.cpp: for any number of workers, crashes and failed     *)
(* forks, the signals of the end reach every worker alive, and a worker    *)
(* that is restarted later knows of the end from its fork.                 *)
THEOREM EndReaches == Spec => []EndReachesAll
<1>1. MasterInv => EndReachesAll
  BY DEF MasterInv
<1> QED BY MasterInit, MasterNext, <1>1, PTL DEF Spec

-----------------------------------------------------------------------------
(* The byte buffer and the logger: what BufferProofs and LoggerProofs show *)
(* of the component holds of the part.                                     *)
BytesP == INSTANCE BufferProofs
LogP == INSTANCE LoggerProofs WITH last <- ArraySize, pc <- logPc

LEMMA BufferBehaves == Spec => BytesP!Spec
<1>1. Init => BytesP!Init
  BY DEF Init, Bytes!Init, BytesP!Init
<1>2. \A len : /\ Bytes!Append(len) <=> BytesP!Append(len)
               /\ Bytes!Retrieve(len) <=> BytesP!Retrieve(len)
  BY DEF Bytes!Append, BytesP!Append, Bytes!Retrieve, BytesP!Retrieve, Bytes!Place,
         BytesP!Place, Bytes!SizeFor, BytesP!SizeFor, Bytes!Fits, BytesP!Fits, Bytes!Moves,
         BytesP!Moves, Bytes!readableBytes, BytesP!readableBytes, Bytes!writableBytes,
         BytesP!writableBytes, Bytes!prependableBytes, BytesP!prependableBytes
<1>3. Bytes!Next => BytesP!Next
  BY <1>2 DEF Bytes!Next, BytesP!Next
<1>4. [Next]_vars => [BytesP!Next]_(BytesP!vars)
  BY <1>3, PartSteps DEF BytesP!vars, bufferVars
<1> QED BY <1>1, <1>4, PTL DEF Spec, BytesP!Spec

LEMMA LoggerBehaves == Spec => LogP!Spec
<1>1. Init => LogP!Init
  BY DEF Init, Log!Init, LogP!Init, Log!NameLen, LogP!NameLen
<1>2. /\ \A x, n : Log!PutText(x, n) = LogP!PutText(x, n)
      /\ \A x, n, d : Log!PutNumber(x, n, d) = LogP!PutNumber(x, n, d)
      /\ \A x, b, n, d : Log!PutSigned(x, b, n, d) = LogP!PutSigned(x, b, n, d)
      /\ \A x, n : Log!PutFraction(x, n) = LogP!PutFraction(x, n)
      /\ \A n, d : Log!Prefix(n, d) = LogP!Prefix(n, d)
  BY DEF Log!PutText, LogP!PutText, Log!PutNumber, LogP!PutNumber, Log!PutSigned,
         LogP!PutSigned, Log!PutFraction, LogP!PutFraction, Log!Prefix, LogP!Prefix,
         Log!Least, LogP!Least, Log!DateLen, LogP!DateLen
<1>3. Log!Next => LogP!Next
  <2> USE DEF Log!log, LogP!log, Log!arguments, LogP!arguments, Log!line, LogP!line,
          Log!NameLen, LogP!NameLen
  <2>1. Log!LogStderr => LogP!LogStderr
    BY DEF Log!LogStderr, LogP!LogStderr
  <2>2. Log!LogErrorCore => LogP!LogErrorCore
    BY <1>2 DEF Log!LogErrorCore, LogP!LogErrorCore
  <2>3. Log!Format => LogP!Format
    BY <1>2 DEF Log!Format, LogP!Format
  <2>4. Log!FormatEnds \/ Log!LogErrno \/ Log!Newline
            => LogP!FormatEnds \/ LogP!LogErrno \/ LogP!Newline
    BY DEF Log!FormatEnds, LogP!FormatEnds, Log!LogErrno, LogP!LogErrno, Log!ReasonFits,
           LogP!ReasonFits, Log!Newline, LogP!Newline
  <2>5. Log!WriteStderr => LogP!WriteStderr
    BY <1>2 DEF Log!WriteStderr, LogP!WriteStderr
  <2>6. Log!TooFine \/ Log!WriteCore => LogP!TooFine \/ LogP!WriteCore
    BY DEF Log!TooFine, LogP!TooFine, Log!WriteCore, LogP!WriteCore
  <2>7. Log!LogInit \/ Log!LogClose => LogP!LogInit \/ LogP!LogClose
    BY DEF Log!LogInit, LogP!LogInit, Log!LogClose, LogP!LogClose
  <2> QED BY <2>1, <2>2, <2>3, <2>4, <2>5, <2>6, <2>7 DEF Log!Next, LogP!Next
<1>4. [Next]_vars => [LogP!Next]_(LogP!vars)
  BY <1>3, PartSteps
     DEF LogP!vars, LogP!log, LogP!arguments, LogP!line, logVars
<1> QED BY <1>1, <1>4, PTL DEF Spec, LogP!Spec

(* Buffer.h: bytes come out of the buffer of the server as they went in.   *)
THEOREM PartReadsInOrder == Spec => []ReadsInOrder
<1>1. BytesP!BufferAssumption
  BY PartsAssumption DEF PartsAssumption, Bytes!BufferAssumption, BytesP!BufferAssumption
<1>2. BytesP!Spec => []BytesP!ReadsInOrder
  BY <1>1, BytesP!BytesInOrder
<1>3. BytesP!ReadsInOrder => ReadsInOrder
  BY DEF ReadsInOrder, Bytes!ReadsInOrder, BytesP!ReadsInOrder, Bytes!readableBytes,
         BytesP!readableBytes
<1> QED BY BufferBehaves, <1>2, <1>3, PTL

(* Buffer.h: the vector grows with what it has to hold at a time.          *)
THEOREM PartGrowsWithDemand == Spec => []GrowsWithDemand
<1>1. BytesP!BufferAssumption
  BY PartsAssumption DEF PartsAssumption, Bytes!BufferAssumption, BytesP!BufferAssumption
<1>2. BytesP!Spec => []BytesP!GrowsWithDemand
  BY <1>1, BytesP!BoundedGrowth
<1>3. BytesP!GrowsWithDemand => GrowsWithDemand
  BY DEF GrowsWithDemand, Bytes!GrowsWithDemand, BytesP!GrowsWithDemand
<1> QED BY BufferBehaves, <1>2, <1>3, PTL

(* my_logger.cpp: a line keeps inside its array, its newline and the       *)
(* reason of an error included.                                            *)
THEOREM PartLinesWhole == Spec => []LinesWhole
<1>1. LogP!LoggerAssumption
  BY PartsAssumption
     DEF PartsAssumption, Log!LoggerAssumption, LogP!LoggerAssumption, Log!DateLen,
         LogP!DateLen
<1>2. LogP!Spec => []LogP!LinesWhole
  BY <1>1, LogP!LoggerLinesWhole
<1>3. LogP!LinesWhole => LinesWhole
  BY DEF LinesWhole, Log!LinesWhole, LogP!LinesWhole
<1> QED BY LoggerBehaves, <1>2, <1>3, PTL
=============================================================================
