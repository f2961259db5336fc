------------------------------- MODULE Sessions -------------------------------
(***************************************************************************)
(* Sessions of clients: SessionManager finds or makes the session of a     *)
(* request from the identifier in its cookie, a handler reads and changes  *)
(* it, and a storage keeps it (src/session).  MemorySessionStorage is a    *)
(* map of shared objects in each worker process, RedisSessionStorage keeps *)
(* copies, as JSON, in a server all processes share.                       *)
(*                                                                         *)
(* The manager is made before the workers are forked, its generator with   *)
(* it: the n-th identifier drawn in a process is number n in all of them.  *)
(* The threads of a process share the generator without a lock: one may    *)
(* read its state, and write it back advanced, around another that draws.  *)
(* Until two threads do so (raced) an identifier is drawn once in a        *)
(* process and names the object too; the properties speak of that time.    *)
(* A session's data is the set of the requests that stored a value.        *)
(* A step is one call of the storage, with the change of the session that  *)
(* goes with it: README_Session.md asks for a lock around the calls where  *)
(* threads share a storage.                                                *)
(***************************************************************************)
EXTENDS Integers, Sequences, FiniteSets

CONSTANTS
    Workers,         \* worker processes
    ThreadCount,     \* threads of a receive pool
    Clients,
    Storages,        \* subset of {"memory", "redis"}
    MaxAge,          \* maxAge_: seconds a session lives after its last use
    MaxRequests,     \* bound: requests of all clients
    MaxClock         \* bound: seconds

SessionAssumption ==
    /\ Storages \subseteq {"memory", "redis"} /\ Storages # {}
    /\ MaxAge \in Nat \ {0} /\ MaxRequests \in Nat /\ MaxClock \in Nat
    /\ ThreadCount \in Nat \ {0} /\ IsFiniteSet(Workers) /\ IsFiniteSet(Clients)

VARIABLES
    storage,         \* the storage this server uses
    up,              \* redis: the connection works
    clock,
    drawn,           \* rng_: identifiers drawn, per process
    newId,           \* the identifier drawn for a request, or NoId
    object,          \* memory: the sessions of a process, per identifier
    sessions_,       \* memory: identifiers in the map of a process
    redis,           \* redis: the stored sessions, per identifier
    cookie,          \* clients: the identifier in the cookie, or NoId
    asker,           \* the client that sent a request
    process,         \* the process that serves it
    pc,              \* program counter of the thread that serves it
    sid,             \* ... the identifier of the session it has at hand
    copy,            \* ... redis: the session it has at hand
    seen,            \* ghost: when a session was last got for a request, or Never
    kept,            \* ghost: values stored in a session
    shared,          \* ghost: sessions two requests had in hand at once
    gone,            \* ghost: sessions that ended by a logout
    raced            \* ghost: two threads of a process drew at once

server == <<storage, up, clock>>
draws == <<drawn, newId, raced>>
stores == <<sessions_, redis>>
clients == <<cookie, asker, process>>
ghosts == <<seen, kept, shared, gone>>
vars == <<server, draws, object, stores, clients, pc, sid, copy, ghosts>>

NoId == 0
Never == -1
Ids == 1 .. MaxRequests
Nothing == [data |-> {}, expiryTime |-> -1]
Requests == DOMAIN asker
Memory == storage = "memory"

Init ==
    /\ storage \in Storages /\ up = TRUE /\ clock = 0
    /\ drawn = [w \in Workers |-> 0]
    /\ object = [w \in Workers |-> [i \in Ids |-> Nothing]]
    /\ sessions_ = [w \in Workers |-> {}]
    /\ redis = [i \in Ids |-> Nothing]
    /\ cookie = [c \in Clients |-> NoId]
    /\ asker = <<>> /\ process = <<>> /\ pc = <<>> /\ sid = <<>> /\ copy = <<>>
    /\ newId = <<>> /\ raced = FALSE
    /\ seen = [i \in Ids |-> Never] /\ kept = [i \in Ids |-> {}]
    /\ shared = {} /\ gone = {}

-----------------------------------------------------------------------------
(* The session object a thread works on: in memory the one that all hold,  *)
(* from redis a copy of its own.                                           *)
Session(r) == IF Memory THEN object[process[r]][sid[r]] ELSE copy[r]

IsExpired(s) == clock > s.expiryTime

InRedis(i) == redis[i] # Nothing

InHand(i) == {r \in Requests : sid[r] = i /\ pc[r] \in {"found", "handler"}}

Goto(r, l) == pc' = [pc EXCEPT ![r] = l]

Refreshed(s) == [s EXCEPT !.expiryTime = clock + MaxAge]

(* storage_->save of session i, now s: the map is given the object, redis  *)
(* a copy with a time to live.  Whether redis took it is not looked at.    *)
SaveInMemory(r, i, s) ==
    /\ object' = [object EXCEPT ![process[r]][i] = s]
    /\ sessions_' = [sessions_ EXCEPT ![process[r]] = @ \cup {i}]
    /\ UNCHANGED <<redis, copy>>

Setex(i, s) == redis' = IF up THEN [redis EXCEPT ![i] = s] ELSE redis

SaveInRedis(r, i, s) ==
    /\ copy' = [copy EXCEPT ![r] = s]
    /\ Setex(i, Refreshed(s))
    /\ UNCHANGED <<object, sessions_>>

SaveSession(r, i, s) == IF Memory THEN SaveInMemory(r, i, s) ELSE SaveInRedis(r, i, s)

-----------------------------------------------------------------------------
(* A client sends a request, and the kernel chooses who serves it: one     *)
(* whose handler uses the session, or one whose handler logs out.          *)
Arrive(c, w) ==
    /\ Len(asker) < MaxRequests
    /\ Cardinality({r \in Requests : process[r] = w /\ pc[r] # "done"}) < ThreadCount
    /\ asker' = Append(asker, c) /\ process' = Append(process, w)
    /\ sid' = Append(sid, cookie[c]) /\ copy' = Append(copy, Nothing)
    /\ newId' = Append(newId, NoId)
    /\ \/ cookie[c] = NoId /\ pc' = Append(pc, "create")
       \/ cookie[c] # NoId /\ \E l \in {"load", "logout"} : pc' = Append(pc, l)
    /\ UNCHANGED <<server, drawn, raced, object, stores, cookie, ghosts>>

(* storage_->load.  A session that has expired is erased from the map; one *)
(* from redis is made anew and starts with a new expiry time.              *)
LoadMemory(r) ==
    /\ pc[r] = "load" /\ Memory
    /\ LET mine == sessions_[process[r]]
           expired == IsExpired(object[process[r]][sid[r]])
       IN  /\ sessions_' = [sessions_ EXCEPT ![process[r]] =
                                IF expired THEN mine \ {sid[r]} ELSE mine]
           /\ Goto(r, IF sid[r] \in mine /\ ~expired THEN "found" ELSE "create")
    /\ UNCHANGED <<server, draws, object, redis, clients, sid, copy, ghosts>>

LoadRedis(r) ==
    /\ pc[r] = "load" /\ ~Memory
    /\ IF InRedis(sid[r])
       THEN /\ copy' = [copy EXCEPT ![r] = Refreshed(redis[sid[r]])]
            /\ Goto(r, "found")
            /\ shared' = IF InHand(sid[r]) = {} THEN shared ELSE shared \cup {sid[r]}
       ELSE Goto(r, "create") /\ UNCHANGED <<copy, shared>>
    /\ UNCHANGED <<server, draws, object, stores, clients, sid, seen, kept, gone>>

Used(i) == seen' = IF up THEN [seen EXCEPT ![i] = clock] ELSE seen

(* getSession: a session found that still has not expired is refreshed and *)
(* saved.                                                                  *)
AdoptAsItIs(r) ==                                                   \* mutant
    /\ pc[r] = "found" /\ ~IsExpired(Session(r))
    /\ UNCHANGED <<sid, draws, object, stores, copy>>
    /\ Used(sid[r]) /\ Goto(r, "handler")
    /\ UNCHANGED <<server, clients, kept, shared, gone>>
Adopt(r) ==
    /\ pc[r] = "found" /\ ~IsExpired(Session(r))
    /\ UNCHANGED <<sid, draws>>
    /\ SaveSession(r, sid[r], Refreshed(Session(r)))
    /\ Used(sid[r]) /\ Goto(r, "handler")
    /\ UNCHANGED <<server, clients, kept, shared, gone>>

(* getSession: otherwise generateSessionId reads the generator's state ... *)
MustCreate(r) == pc[r] = "create" \/ (pc[r] = "found" /\ IsExpired(Session(r)))

Draw(r) ==
    /\ MustCreate(r)
    /\ newId' = [newId EXCEPT ![r] = drawn[process[r]] + 1]
    /\ Goto(r, "new")
    /\ UNCHANGED <<server, drawn, raced, object, stores, clients, sid, copy, ghosts>>

(* ... and writes it back, advanced by one identifier.  A new session is   *)
(* made and saved, and the response sets the cookie.                       *)
Advance(r) ==
    /\ drawn' = [drawn EXCEPT ![process[r]] = newId[r]]
    /\ raced' = (raced \/ newId[r] # drawn[process[r]] + 1)

MakeSession(r, i) ==
    /\ sid' = [sid EXCEPT ![r] = i]
    /\ SaveSession(r, i, Refreshed(Nothing))
    /\ Used(i) /\ Goto(r, "handler")
    /\ UNCHANGED <<server, newId, clients, kept, shared, gone>>

CreateFromSeed(r) ==                                                \* mutant
    /\ pc[r] = "new"
    /\ UNCHANGED <<drawn, raced>> /\ MakeSession(r, newId[r])
CreateForCookie(r) ==                                               \* mutant
    /\ pc[r] = "new"
    /\ IF sid[r] # NoId THEN UNCHANGED <<drawn, raced>> /\ MakeSession(r, sid[r])
       ELSE Advance(r) /\ MakeSession(r, newId[r])
Create(r) ==
    /\ pc[r] = "new"
    /\ Advance(r) /\ MakeSession(r, newId[r])

-----------------------------------------------------------------------------
(* What a handler does with the session: setValue saves it, without        *)
(* refreshing it; clear and remove save nothing; getValue changes nothing. *)
SetValue(r) ==
    /\ pc[r] = "handler"
    /\ UNCHANGED <<sid, draws>>
    /\ SaveSession(r, sid[r], [Session(r) EXCEPT !.data = @ \cup {r}])
    /\ kept' = IF up THEN [kept EXCEPT ![sid[r]] = @ \cup {r}] ELSE kept
    /\ Goto(r, "reply")
    /\ UNCHANGED <<server, clients, seen, shared, gone>>

Clear(r) ==
    /\ pc[r] = "handler"
    /\ IF Memory THEN /\ object' = [object EXCEPT ![process[r]][sid[r]].data = {}]
                      /\ kept' = [kept EXCEPT ![sid[r]] = {}]
                      /\ UNCHANGED copy
       ELSE copy' = [copy EXCEPT ![r].data = {}] /\ UNCHANGED <<object, kept>>
    /\ Goto(r, "reply")
    /\ UNCHANGED <<server, draws, stores, clients, sid, seen, shared, gone>>

GetValue(r) ==
    /\ pc[r] = "handler"
    /\ Goto(r, "reply")
    /\ UNCHANGED <<server, draws, object, stores, clients, sid, copy, ghosts>>

Remove(r) == sessions_' = [sessions_ EXCEPT ![process[r]] = @ \ {sid[r]}]
Del(i) == redis' = [redis EXCEPT ![i] = Nothing]

(* destroySession for the identifier in the cookie.                        *)
Logout(r) ==
    /\ pc[r] = "logout"
    /\ IF Memory THEN Remove(r) /\ UNCHANGED redis ELSE Del(sid[r]) /\ UNCHANGED sessions_
    /\ seen' = [seen EXCEPT ![sid[r]] = Never]
    /\ gone' = IF InHand(sid[r]) = {} /\ up THEN gone \cup {sid[r]} ELSE gone
    /\ sid' = [sid EXCEPT ![r] = NoId]
    /\ Goto(r, "reply")
    /\ UNCHANGED <<server, draws, object, clients, copy, kept, shared>>

(* The response arrives; that of a new session sets the cookie.            *)
Reply(r) ==
    /\ pc[r] = "reply"
    /\ cookie' = IF newId[r] = NoId THEN cookie ELSE [cookie EXCEPT ![asker[r]] = sid[r]]
    /\ newId' = [newId EXCEPT ![r] = NoId]
    /\ sid' = [sid EXCEPT ![r] = NoId]
    /\ copy' = [copy EXCEPT ![r] = Nothing]
    /\ Goto(r, "done")
    /\ UNCHANGED <<server, drawn, raced, object, stores, asker, process, ghosts>>

(* Redis drops a key by itself when the time given to SETEX has passed.    *)
Tick ==
    /\ clock < MaxClock
    /\ clock' = clock + 1
    /\ redis' = [i \in Ids |-> IF redis[i].expiryTime > clock' THEN redis[i] ELSE Nothing]
    /\ UNCHANGED <<storage, up, draws, object, sessions_, clients, pc, sid, copy, ghosts>>

(* The connection to redis breaks, and nobody makes a new one: what redis  *)
(* still holds is out of reach.                                            *)
RedisFails ==
    /\ ~Memory /\ up
    /\ up' = FALSE /\ redis' = [i \in Ids |-> Nothing]
    /\ seen' = [i \in Ids |-> Never] /\ kept' = [i \in Ids |-> {}] /\ shared' = {}
    /\ UNCHANGED <<storage, clock, draws, object, sessions_, clients, pc, sid, copy, gone>>

GetSession(r) ==
    LoadMemory(r) \/ LoadRedis(r) \/ Adopt(r) \/ Draw(r) \/ Create(r)

Handler(r) == SetValue(r) \/ Clear(r) \/ GetValue(r) \/ Logout(r) \/ Reply(r)

Next ==
    \/ \E c \in Clients, w \in Workers : Arrive(c, w)
    \/ \E r \in Requests : GetSession(r) \/ Handler(r)
    \/ Tick \/ RedisFails

Spec == Init /\ [][Next]_vars

-----------------------------------------------------------------------------
TypeOK ==
    /\ storage \in Storages /\ up \in BOOLEAN /\ clock \in 0 .. MaxClock
    /\ drawn \in [Workers -> 0 .. MaxRequests]
    /\ newId \in [Requests -> Ids \cup {NoId}] /\ raced \in BOOLEAN
    /\ \A w \in Workers : sessions_[w] \subseteq Ids
    /\ cookie \in [Clients -> Ids \cup {NoId}]
    /\ asker \in Seq(Clients) /\ process \in [Requests -> Workers]
    /\ pc \in [Requests -> {"load", "found", "create", "new", "handler", "logout", "reply", "done"}]
    /\ sid \in [Requests -> Ids \cup {NoId}]
    /\ seen \in [Ids -> {Never} \cup 0 .. MaxClock]
    /\ kept \in [Ids -> SUBSET Ids] /\ shared \subseteq Ids /\ gone \subseteq Ids

(* sessionManager.cpp says identifiers are unique, README_RedisSession.md  *)
(* that the data of sessions do not mix: a handler finds in the session    *)
(* only what requests of its own client have stored, as long as no two     *)
(* threads of a process drew an identifier at once.                        *)
NoStrangerData ==
    ~raced =>
        \A r \in Requests :
            pc[r] = "handler" => \A q \in Session(r).data : asker[q] = asker[r]

(* Every use extends a session's life: while it is used again within       *)
(* MaxAge it stays in the storage of its process, with every value that    *)
(* was stored in it.  Left out are sessions in redis that two requests     *)
(* changed at once, each in a copy of its own, and what follows a race in  *)
(* the generator.                                                          *)
SessionSurvives ==
    ~raced =>
        \A i \in Ids \ shared :
            seen[i] # Never =>
                IF Memory
                THEN clock <= seen[i] + MaxAge =>
                        \E w \in Workers : /\ i \in sessions_[w] /\ ~IsExpired(object[w][i])
                                           /\ kept[i] \subseteq object[w][i].data
                ELSE clock < seen[i] + MaxAge =>
                        InRedis(i) /\ kept[i] \subseteq redis[i].data

(* A session that was logged out while no other request had it in hand is  *)
(* never seen again, even by a request that still has its cookie, unless   *)
(* threads that drew at once made another of its name.                     *)
LogoutHolds ==
    ~raced =>
        \A i \in gone :
            /\ ~InRedis(i) /\ \A w \in Workers : i \notin sessions_[w]
            /\ InHand(i) = {}

(* sessionManager.cpp: "a unique identifier of the session": the requests  *)
(* a process serves at once with a new session each have one of their own. *)
IdsUnique ==
    \A r, q \in Requests :
        r # q /\ process[r] = process[q] /\ {pc[r], pc[q]} \subseteq {"handler", "reply"} =>
            newId[r] = NoId \/ newId[r] # newId[q]
=============================================================================
