# Verification of the mynginx event module

This directory is a verification development for the HTTP server in
`src/my_nginx_event`: TLA+ modules of its components, TLC configurations that
check them on small instances, and TLAPS proofs of the results that matter most
for every instance. Paths below are relative to `src/my_nginx_event/`, except
`README.md`, which is the one of the repository.

Contents: 1 the system, 2 the modules, 3 the runs, 4 fairness and other
assumptions, 5 what is proved, 6 what is only model-checked, 7 known
disagreements between the code and what it says, 8 what is not modelled,
9 plan.

## 1. The system

A master process reads the configuration, opens the listening sockets, forks
worker processes and then only waits for signals. A worker runs

- the *epoll thread* (`ngx_epoll_process_events`): accepts clients, reads chunks
  of requests, and writes what the send threads could not;
- a *receive pool* (`CThreadPool`) whose threads take chunks from a lock-free
  queue, assemble and parse requests (`threadRecvProcFunc`), run middleware,
  router and handler, and queue a response (`msgSend`);
- *send threads* (`ServerSendQueueThread`) that take responses from a second
  lock-free queue, guarded by a semaphore, and write them to sockets;
- a *recycler thread* that gives closed connection objects back to the pool
  after a delay;
- a *timer thread* that is meant to kick idle clients;
- if the application uses a database, two threads of the database pool.

All of them share connection objects (`ngx_connection_s`). Objects are never
destroyed: an object is taken from a free list for a client, closed by
`zdClosesocketProc` from any thread, cools down in the recycle queue and returns
to the free list. Every message header carries the object's `iCurrsequence`, and
a thread that dequeues a header drops it if the object has moved on.

The components call one another as follows.

    client --> epoll thread --chunks--> receive queue --> receive pool --responses--> send queue
                   |   ^                                      |                          |
         accept    |   | EPOLLOUT                             | parser, middleware,      v
                   v   |                                      | router, handler       send threads --> client
            connection pool <------------- zdClosesocketProc (any thread) ---------------+
                   ^                              |
                   +-- recycler thread <----------+---> timer queue <--> timer thread

### Inventory

| Component | State | Operations | Called by | What is hard | What makes it correct |
|---|---|---|---|---|---|
| Connection pool (`src/net/my_socket_conn.cpp`, `my_socket_accept.cpp`, `zdClosesocketProc`) | lists of objects, recycle queue, counters, per object `fd`, `iCurrsequence`, `inRecyTime` | accept, take, close, enqueue, sweep, free | every thread | objects reused while threads still refer to them; unlocked close; counters | no object twice in the pool, none reused while it is referred to, none served for the wrong client, bounded growth, everything comes back |
| Send path (`src/net/my_socket.cpp`, `my_http_request_callback.cpp`) | send queue and its counters, semaphore, per object `psendbuf`, `sendCount`, `iSendCount`, `events`, `ishttpClose` | `msgSend`, `ServerSendQueueThread`, `sendproc`, write handler, `ngx_epoll_oper_event` | workers, senders, epoll thread | partial sends, order of bytes, lost read interest, wake-ups without a message | responses in order and unbroken, each sent in full, a sender for each |
| Receive path (`src/logic/my_slogic.cpp`, `include/http/my_http_context.h`) | per object chunk number, per context next chunk number, parser state | read handler, `threadRecvProcFunc`, context reset | epoll thread, receive pool | chunks of one client handled by several threads, pipelining, reuse of the context | chunks parsed in order, nobody waits in vain; with the send path: one answer per request, in order and in full |
| Lock-free queue (`include/threadPool/my_lockfreequeue.h`) | linked list, head, tail, size | `Enqueue`, `TryDequeue` | all threads | Michael-Scott queue with an unconditional tail store and immediate delete | a FIFO, every message received; neither holds once a deleted node is touched (section 7) |
| Thread pool and worker (`src/threadPool/my_threadpool.cpp`, `src/server/my_process_cycle.cpp`) | thread items, running flags, shutdown flag, semaphore | `Create`, `StopAll`, `ThreadFunc`, `inMsgRecvQueueAndSignal`, `Shutdown_subproc` | worker | start-up wait on a condition variable, stop and join | a worker that serves can be stopped |
| HTTP parser (`src/http/my_http_context.cpp`) | parser state, counters, verdict | `parseRequest`, `parseBody` | receive pool | requests cut anywhere, index arithmetic | body and nothing else saved, right verdict, returns |
| Byte buffer (`include/http/Buffer.h`) | vector, reader and writer index | append, retrieve, move, grow | send threads, write handler | move or grow, arithmetic | bytes in order, bounded length |
| Middleware chain and request handling (`src/logic/my_slogic.cpp`, `src/middleware`) | status, chain position | before, handle, after, exceptions | receive pool | exceptions from any of them | after mirrors before, refused means not served |
| Router (`src/route`) | four tables | register, route | application, receive pool | several routes fit | documented priority |
| Rate limiter (`src/middleware/Rate_Limiting_Algorithm`) | tokens, last refill | `try_consume` | receive pool | lazy refill in fractions | no period above burst and rate |
| Timer queue (`src/net/my_socket_time.cpp`) | multimap of deadlines, cached size and earliest time | add, delete, expire, monitor | epoll thread, closers, timer thread | cached values read without the lock, re-insertion | one timer per client, everyone is checked |
| Database pool (`src/dbconnpool/connectionPool.cpp`) | queue of connections, mutex, condition variables | produce, recycle, get, give back | receive pool, two pool threads | missing notifications, order of the queue | one owner, nobody starves |
| Master and workers (`src/server/my_process_cycle.cpp`, `my_signal.cpp`) | process table, signal flags | spawn, reap, signal, quit | operating system | signals between test and wait, respawn, shutdown | the end reaches everybody |
| Sessions (`src/session`) | per process a map of session objects, or redis with copies in each request; per process a generator of identifiers that its threads share; the clients' cookies | get, set, save, destroy, expire | handlers on threads of the receive pool | two requests of one client at once, objects used after their removal, identifiers drawn at once, copies written back, expiry, a redis that fails | a session holds one client's data, keeps its values while it is used, and does not come back after it was destroyed |
| Logger (`src/logger/my_logger.cpp`) | a line in an array on the stack, the log file's descriptor and level | `ngx_log_stderr`, `ngx_log_error_core`, `ngx_vslprintf`, init, close | every process and thread | arithmetic at the end of the array | inside the array, ended by a newline, the reason of an error whole or absent |
| Configuration, daemon, title | configuration map, argument area | start-up only | master | sequential start-up and I/O | not modelled |
| Demo application (`src/app/demo1.cpp`), dead code (`src/delete`) | none | - | - | not part of the server | - |

`PROJECT.json` lists the same components with their modules, and under
`hazards` each place where one of these difficulties bites, with the properties
that would notice it.

## 2. The modules

An action is one operation as other threads can see it: where the code holds a
mutex an action is the critical section, where it does not an action ends at
each read or write of shared state that somebody else may come between.
Identifiers keep the names of the source. Payloads are numbers or model values
that say whose they are and in what position, so loss, duplication and
reordering are visible. Definitions marked `mutant` are never used by a
specification: each is a wrong version of the definition below it, kept to show
that a property notices the difference.

**ConnPool** is the core. Its variables are `m_connectionList`'s size,
`m_freeConnectionList`, `m_recyconnectionList`, and per object `fd`,
`iCurrsequence`, `inRecyTime`; the program counter of every thread that can
refer to an object; message headers in the two queues; and the kernel's
descriptor table and epoll interest. `accept4` returns the lowest free
descriptor, which is what makes descriptors come back quickly.

| Action | Code |
|---|---|
| `AcceptRefused`, `Accept`, `Register`, `RegisterFails` | `ngx_event_accept`: admission tests, `ngx_get_connection`, `epoll_ctl`, and its failure |
| `GetConnection`, `Refilled` (helpers) | `ngx_get_connection`, which takes the front of the free list and refills an empty one with `m_worker_connections` new objects |
| `EpollWait`, `EventIgnored`, `EventData`, `EventClose` | `epoll_wait` fills a batch, the loop handles one event after the other |
| `DropStale`, `TakeRequest`, `TakeResponse` | a header leaves a queue, and `iCurrsequence` is compared |
| `Respond`, `Finish`, `StartClose` | the work of `threadRecvProcFunc` and `ServerSendQueueThread`, `msgSend`; a worker that has queued a response keeps the object until it has reset the context |
| `CheckFd`, `CloseFd`, `ClearFd`, `Retire` | `zdClosesocketProc`, statement by statement; `Retire` is `inRecyConnectQueue` |
| `SweepStart`, `SweepFree`, `SweepSkip`, `SweepEnd` | `ServerRecyConnectionThread`, one element of the queue at a time |
| `Tick` | `std::time(nullptr)` |

**ConnLife** is what the pool promises about one object: none, free, used,
cooling, free again in this order, free only when nobody refers to it. ConnPool
implements it under the mapping of `Status` and `Referred`.

**SendPath** follows one connection object through the clients it is given to:
`msgSend` with its two limits (`WorkerStep`), a send thread from `sem_wait` to
re-arming epoll (`SenderStep`), a signal that interrupts `sem_wait`
(`Interrupted`), the write handler (`WriteStep`), the socket's buffer and the
client that empties it (`ClientReads`), and the next client (`Reuse`). A response
is `RespLen` units; `wire` is what the kernel accepted.

**RecvPath** follows one connection object on the way in: numbered chunks, the
receive queue, the wait for one's turn with its time-out, the parser seen from
outside, the answer, the reset of the context, and the next client.

**Connection** is RecvPath and SendPath put together for one object. They meet in
three places: `Respond` hands the request that is in the context to `msgSend`;
`Read` runs only while the epoll mask that the send path leaves lets it, and not
while the epoll thread is in the write handler; and either side may close. So
what a client gets is followed from the bytes it sends to the bytes it reads,
with two threads on either side. The client waits for a response before it asks
again, and for nothing else: its next request may be read, and even parsed, before the
thread that answered it has reset the context. The ghost `overlapped` records
that a chunk was parsed so early.

**Sessions** follows each request from its cookie to the reply: `getSession`,
what a handler does with the session (read, `setValue`, `clear`, `remove`,
destroy), and the end. In memory a session is an object that the map and any
number of requests point to; in redis a request has a copy of its own, which
`setValue` writes back whole and with a new time to live. Each process has its map
and its generator of identifiers, and redis may fail. A step is one call of the
storage; drawing an identifier is a step of its own, in which the generator's
state may also be read and written around another thread's draw (`raced` records
that). `kept`, `gone` and `shared` are ghosts for the three properties.

**LockFreeQueue** has a step per load, store and compare-and-swap of `Enqueue`
and `TryDequeue`. `new` returns any address that is free, so one that `delete` gave back
may come again while the tail, a node or a thread still points there; the ghost
`reborn` records that. Touching a deleted node ends the behaviour (`ub`). **Fifo**
is what the queue promises. **MCLockFreeQueue** adds the symmetry of threads and
addresses.

**Master** has the master's loop around `sigsuspend`, the handlers, `waitpid` in
both places, `ngx_processes` with its length, `kill(0)`, and the workers that
crash or are told to leave.

**DbPool** has a step per critical section of `connectionPool.cpp`; who waits on
which condition variable is part of the state. In **TimerQueue** adding and
deleting take two steps each, the queue with its size and then the earliest time, between which
the mutex is held; the monitor reads size, earliest time and clock in a step each
and without the mutex, and takes it for every entry that is due.
**WorkerThreads** is the life of a worker from the creation of its threads to
the last join. **HttpParser** is `parseRequest` over requests that are layouts
of offsets, cut anywhere, with two header lines; five of its ten kinds have a
defect in the headers that the parser has an error exit for. **TokenBucket** counts in parts of a token; its ghost `admitted` has for each
time how many requests were let through until then. **Buffer**
numbers the bytes. **RequestHandling** is `onRequest` and `handleRequest` with
the router and the middleware chain. **Logger** keeps of a line the position of
the next byte: a format is any sequence of texts and numbers, and `reason` is
where the text of an error ends, to see whether the newline overwrites it.

**ServerParts** puts the eleven smaller modules side by side (Master, DbPool,
TimerQueue, WorkerThreads, HttpParser, TokenBucket, Buffer, RequestHandling,
LockFreeQueue with one producer and one consumer, for its liveness, Sessions, Logger). They share no state
as modelled, so a behaviour chooses one (`part`) and runs it while the others
rest: every behaviour of every part is there, and the parts' states are added
and not multiplied. The parts are full modules of their own and can be run
alone. That ServerParts has no common behaviour of two parts is an abstraction
to keep in mind: what connects them in the code (a parsed request is handled, a
closed client leaves the timer queue) is in each module as an environment that
may do it at any time.

**ConnPoolProofs**, **SendPathProofs**, **ConnectionProofs**, **LockFreeQueueProofs**,
**BufferProofs**, **LoggerProofs**, **ServerPartsProofs** and **RequestPartsProofs**
hold the proofs; each EXTENDS the module it is about, and RequestPartsProofs goes on
where ServerPartsProofs ends.

How the modules lean on one another: SendPath and RecvPath take the queues as
FIFOs (LockFreeQueue implements Fifo, within the limits of section 7), and let an
object pass to the next client when nothing refers to it (ConnPool). RecvPath
takes the parser as one that answers more, all or error (HttpParser); that a defect in
the headers may be answered with either of the last two is in HttpParser alone. TimerQueue
takes from ConnPool that an object is given to a new client when nobody is still
closing it. WorkerThreads counts requests and responses only.

## 3. The runs

Every run is complete: TLC explores all states of the instance. The numbers are
distinct states.

| Run | States | What it asks | Bounds |
|---|---|---|---|
| PoolRaces | 1 791 475 | Two clients come, send a request, are answered and closed, by the epoll thread, a worker and a sender in any order, with a failing `epoll_ctl` and the recycler. No object is twice in the pool (`OnceInPool`), none is free while referred to (`NoUseAfterRecycle`), no thread works for the wrong client (`ServesOwner`), the count that admission looks at is never below the objects in use nor above the limit (`AdmissionBound`), the inductive invariant holds (`PoolInv`), ConnLife is implemented (`ImplementsLife`). | two accepts after which the object of the first can serve the second; two descriptors, so one is reused; four seconds with a delay of three, so recycling happens |
| PoolGrowth | 15 385 | A long chain of clients that come and go makes the pool refill until it may not (`GrowthBound`); under fairness every cooled object comes back (`EventuallyRecycled`). | twelve accepts reach the limit of six times two |
| PoolDoubleClose | violation | Two threads close one connection: `ClosesOwnSocket` (section 7). | |
| Connection | 589 008 | One client from end to end, requests cut anywhere, two workers and two senders, partial sends, failures, the cut-off of `msgSend`, a client as quick as it likes. Until a chunk is parsed before the reset of the request before it, it gets the answers to its requests, one each, complete and in order (`AnswersInOrder`); whatever it does, chunks are parsed in order (`Reassembles`) and nobody waits for a chunk that does not come (`WaitsForAnother`); under fairness, again and again, each request that was read has been answered in full or the connection has ended (`EventuallyAnswered`). | two parts per request give every cut there is; two units per response against a room of two, so sends are partial; two requests, for the reset in between; a limit of one response, which the second exceeds only when a request is handled twice |
| ConnectionOverlap | violation | A quick client: `HandledInTurn` (section 7). | |
| SendBusy | 4 508 852 | Two workers and a sender at the queue's limit, pipelined, with a signal, over two clients: someone comes for every response, and only a signal lets a sender through for nothing (`SemaphoreMatchesQueue`). | queue limit one, so it is met by three requests |
| SendReused | violation | The second client of an object: `OwnBytesOnly` (section 7). | |
| RecvReused | violation | The second client of an object: `ReassemblesEver` (section 7). | |
| QueueFifo | 170 566 | Two producers and two consumers, as the server's send queue has: until a deleted node is touched, or its address comes back while something points there, the queue implements Fifo (`ImplementsFifo`). | three addresses for the dummy and two messages, each of which `new` may return again |
| SessionsShared | violation | Two workers share a redis server: `NoStrangerData` (section 7). | |
| ServerParts | 427 548 | The properties of the smaller parts, below. | below |
| ParserSpins | violation | `WaitsForMore` (section 7). | |

ServerParts checks:

| Part | Properties | Bounds |
|---|---|---|
| Master | the signals of the end reach every worker whatever crashed, was restarted or not forked before (`EndReachesAll`); a request to stop is not lost and ends everybody (`StopsAll`) | three workers, two crashes, one failing fork |
| Database pool | one hand per connection (`OwnedByOne`), the recycler may stop at the first young one (`OldestFirst`), the producer never sleeps while connections are short (`ProducerAwake`), whoever asks is served (`EventuallyServed`) | two users, sizes one to two, four connections ever, one failure |
| Timer queue | exactly one timer for a client in use and none for others, whoever closes and whenever the monitor takes it, and the values read without the lock count these (`TimedOnce`); a client whose time has come is looked at (`EventuallyChecked`) | two objects, two closers, time for two rounds; every order of the monitor's three reads and the two steps of the others |
| Threads | who is past the semaphore finds a response, at the end too (`NeverEmptyHanded`); a worker that serves ends on a signal (`StopsServing`) | two pool threads, two senders, two requests |
| Parser | nothing behind the body is saved (`SavesBodyOnly`); complete means that all of the body was saved and its length understood, and an error means that there is a defect (`VerdictRight`); a request cut where the parser can go on is reported (`CompleteIsReported`) | ten kinds of request, four of them right, with every defect the parser looks for; every cut |
| Rate limiter | in no period more than burst and rate (`NeverOverRate`) | two thirds of a token per step, so refills are fractions; eight steps |
| Buffer | bytes in order (`ReadsInOrder`), length bounded by demand (`GrowsWithDemand`) | nine bytes through a vector of four: moves and growth |
| Requests | the documented priority of routes and no service after a refusal (`ServedByPriority`); after mirrors before, whatever throws (`AfterMirrorsBefore`) | two methods, two paths, overlapping patterns, two middlewares, two registrations |
| Queue | one producer and one consumer: everything is received (`EventuallyReceived`) | two messages over three addresses, which may come back |
| Sessions | until two threads draw an identifier at once: a session holds the data of one client (`NoStrangerData`), keeps what was set as long as it is used in time, unless two requests changed copies of it at once (`SessionSurvives`), and does not come back after a logout that no other request was under way for (`LogoutHolds`) | one process with two threads, two clients, three requests, memory and redis, a maximum age of one in two seconds |
| Logger | all of a line is inside the array and the reason of an error is not cut (`LinesWhole`) | an array of 40 bytes, which the prefix nearly fills |

Deadlock is not checked where the system may stop: clients need not come, bounds
on messages run out, and processes exit. The two pool runs check it.

Each property of a passing run has a mutant in `PROJECT.json`: a plausible error
in a definition that models code, under which TLC finds the property violated in
the same run.

## 4. Fairness and other assumptions

*Threads.* The operating system runs every thread that can go on: weak fairness
for each thread's steps (`FairSpec` of ConnPool, Connection and ServerParts). Nothing is assumed of
clients except in Connection, where a client reads what the kernel has for it
(otherwise no server can send in full), and in HttpParser, where it sends all
of its request. Nobody has to ask for the end, to crash or to close.

Strong fairness is assumed in five places.

- ConnPool, `Tick` and `Retire`. Time goes on although the guards that state the
  Hold assumption hold it back again and again; the mutex of the recycle queue,
  which `Retire` needs, is free again and again while the recycler sweeps, and a
  mutex does not starve one thread for ever.
- the queue in ServerParts, the compare-and-swaps: weak compare-and-swap may fail without
  a reason, but not for ever.
- DbPool, `AddConnection` and `Take`: the mutex starves nobody who finds again
  and again what it waits for. `MaxFails` bounds failing connects.
- TimerQueue, the monitor: nor does the mutex of the timer queue, which others hold
  between the two steps of adding and deleting.

*Hold (ConnPool).* What a thread begins with an object, it finishes within
`Hold` seconds, and `2 * Hold < RecyWait` (`DelayAssumption`). The code relies on
this and does not enforce it: the recycle delay is 12 seconds
(`config/nginx.conf`, `Sock_RecyConnectionWaitTime`), the longest wait in
`threadRecvProcFunc` is 5 seconds, and a response may be queued at the end of
it, which then is sent within another period; hence the factor two. A parser that
spins (section 7), a handler that takes longer, or a wait in the send queue that
does breaks the assumption and with it the protection. TLC finds
`NoUseAfterRecycle` violated when the inequality is dropped.

*Memory.* Atomics are sequentially consistent. Plain fields that are read
without a lock (`fd`, `iCurrsequence`, the timer's cached values) are read and
written in separate steps and never torn, as on the machines the code is built
for.

*Integers.* `iCurrsequence` and counters do not wrap in the model: the code's are
64-bit or incremented once per client. The rate limiter's doubles are exact
fractions.

*One request at a time (Connection).* The client waits for a response before it asks
again (`Pipelined` is false). It is not assumed to wait for the server to reset its
context: what comes of that is section 7, and the property says until when it
speaks.

*One call at a time (Sessions).* `MemorySessionStorage` has no lock, and two threads
in its map at once are undefined behaviour. `src/session/README_Session.md:127` leaves
the lock to whoever uses it with several threads; the model takes each call of
the storage as one step, as with such a lock. No document asks for a lock around the
generator of identifiers: its race is in the model.

## 5. What is proved

Every invariant that a passing run checks is proved for all values of the
constants, and so are the two refinements; the table names the theorem. Where a theorem needs more than the
assumptions that the modules state of their constants, the last column says
what, and the text below why.

| Property | Theorem | Module | Hypothesis |
|---|---|---|---|
| `TypeOK`, `PoolInv` of ConnPool | `TypeCorrect`, `PoolInvariant` | ConnPoolProofs | |
| `OnceInPool`, `NoUseAfterRecycle`, `ServesOwner` | `NoDoubleRelease`, `DelayProtects`, `WorksForOwner` | ConnPoolProofs | |
| `AdmissionBound`, `GrowthBound` | `AdmissionBounded`, `GrowthBounded` | ConnPoolProofs | |
| `ImplementsLife` | `PoolImplementsLife` | ConnPoolProofs | |
| `SemaphoreMatchesQueue` | `TicketForEveryMessage` | SendPathProofs | |
| `Reassembles`, `WaitsForAnother` | `BytesInOrder`, `TurnsCome` | ConnectionProofs | |
| `AnswersInOrder` | `AnswersComeInOrder` | ConnectionProofs | |
| `OwnedByOne`, `OldestFirst`, `ProducerAwake` | `DbOwnedByOne`, `DbOldestFirst`, `DbProducerAwake` | ServerPartsProofs | |
| `TimedOnce` | `TimerOnce` | ServerPartsProofs | `~Kick` |
| `NeverEmptyHanded` | `SendersFindResponses` | ServerPartsProofs | |
| `EndReachesAll` | `EndReaches` | ServerPartsProofs | |
| `ImplementsFifo` | `QueueIsFifo` | LockFreeQueueProofs | |
| `ReadsInOrder`, `GrowsWithDemand` | `PartReadsInOrder`, `PartGrowsWithDemand` | ServerPartsProofs, from BufferProofs | |
| `LinesWhole` | `PartLinesWhole` | ServerPartsProofs, from LoggerProofs | |
| `AfterMirrorsBefore` | `MiddlewareMirrored` | RequestPartsProofs | |
| `ServedByPriority` | `RouterPriority` | RequestPartsProofs | |
| `SavesBodyOnly`, `VerdictRight` | `ParserSavesBody`, `ParserVerdict` | RequestPartsProofs | |
| `NeverOverRate` | `LimiterKeepsRate` | RequestPartsProofs | |
| `NoStrangerData`, `SessionSurvives`, `LogoutHolds` | `SessionsDoNotMix`, `UseKeepsSession`, `LogoutIsFinal` | RequestPartsProofs | `OneServer` |

### Connection pool

`ConnPoolProofs` proves, for every number of objects, threads, descriptors,
messages and seconds, from `PoolAssumption` and `DelayAssumption`:

- `TypeCorrect`: `Spec => []TypeOK`;
- `PoolInvariant`: `Spec => []PoolInv`;
- `NoDoubleRelease`, `DelayProtects`, `WorksForOwner`: the three properties
  `OnceInPool`, `NoUseAfterRecycle` and `ServesOwner` that TLC checks in
  PoolRaces.

None of the three is inductive. That the recycler never frees an object somebody
uses needs, for each reference, by when it ends; that a thread serves the owner
needs to know of which requests the comparison of sequence numbers lets through;
and that nothing enters the recycle queue twice needs that whoever retires an
object has cleared its descriptor. `PoolInv` says just this:

- `ListsInv`: the lists have no duplicates and do not overlap; no time lies in
  the future;
- `RefsInv`: each reference (a busy thread, an event of the current batch, a
  queued response) is `Safe`: its object is in use, or cooling and not due before
  the reference ends, with a margin of another `Hold` for a worker that may
  still queue a response. A queued request whose number matches is for an object
  that is in use by the client that sent it;
- `FdInv`: what epoll has registered is in use under that descriptor and nobody
  has got past closing it; what is cooling has no descriptor.

The proof has a lemma for each of the three parts (`ListsStep`, `RefsStep`,
`FdStep`), each with a case per action. `KeptStep` and `KeptRefs` factor out
what all actions but a few leave as it is. Lemmas about sequences (`RemoveAt`,
`Append`, `Tail`) and about `getConnection` are stated once at the front. The
place where `2 * Hold < RecyWait` is used is `Retire`, which starts the delay while
others still refer to the object, and `SweepFree`, which ends it.

It also proves `AdmissionBounded` (`AdmissionBound`) and `GrowthBounded`
(`GrowthBound`). `ngx_event_accept` tests first and takes an object later, with no
lock over both; so each of the two inductive invariants says what the tests have
found still holds while the epoll thread is between them: the count has room for
one more client (`AdmissionInv`), and the pool is small enough to grow or its free
list long enough not to (`GrowthInv`). The others may only make it truer:
`StepKinds` and `Moved` say what they can do to the counts.

The last part of `ConnPoolProofs` proves `PoolImplementsLife`, that is `Spec => ImplementsLife`: under
the mapping of `Status` and `Referred` each step of the pool is a step of ConnLife
or a stutter. It rests on `PoolInv`: that `Begin` refers to objects that are not
free is `RequestRefs` and `FdInv`, that `Recycle` frees one nobody refers to is
`Safe` against `Expired`.

### Send path

`SendPathProofs` proves for every number of clients, workers, senders, messages
and signals:

- `SendTypes`: `Spec => []TypeOK`;
- `TicketForEveryMessage` (`SemaphoreMatchesQueue`): the value of the semaphore, the
  posts still due and the senders past `sem_wait` cover the messages in the
  queue, and exceed them only by signals that have arrived. With the types it is
  inductive; the proof counts the sets `Taking` and `Posting` as threads enter and
  leave them;
- `NullOnlyAfterSignal`: a send thread that dequeues nothing, and goes on with a null
  connection (section 7), was woken by a signal. TLC checks no such property; it
  follows from the one above.

### One connection from end to end

`ConnectionProofs` is about Connection for any number of threads on both sides,
requests and responses of any length, any limits, and any cut of the stream.
`RecvSteps` first says what a step of the composition is for the receive path, so
that most steps need no case.

`OrderInv` (`ChunksInTurn`) is the invariant of the receive path. It says that a
function `cut` exists such that chunk j holds the bytes between its j-th and its
next value. Each chunk from the expected one on is in the queue or in the hands of
exactly one worker, only the worker with the expected chunk is past the wait,
and the parser has been given the bytes up to the cut it is at. `BytesInOrder` and
`TurnsCome` follow. The function grows when the epoll thread reads; no step of
another thread needs a new one.

`AnswerInv` is the invariant of the whole, as long as `overlapped` is false
(`OneCarrierInv`). While the connection is open, `RequestInv` says that the context
holds the beginning of the next request and nothing else, or, when a worker has
been told that the request is complete or bad, all of it or none; that a worker
between its answer and its reset still has the old request there; and
that the client is at most one request ahead. `FlowInv` says that what is missing
of the last response has exactly one carrier, a worker in `msgSend`, the send queue,
a sender or `psendbuf`, and that as long as something is missing the client asks
nothing new. Neither holds without the other: a second carrier can only come from
a request that came too early, and the write handler may re-arm epoll only when
nothing is under way. `AnswersComeInOrder` follows.

`overlapped` is where the argument ends and not where it is made to: a chunk
parsed by a context that holds a complete request is answered as that request
(section 7), and nothing in the code prevents it. What the client has been sent
until then is right for every client, however quick.

### Lock-free queue

`LockFreeQueueProofs` proves `QueueIsFifo`, that is `Spec => ImplementsFifo`, for any number
of producers, consumers, addresses and messages, and with `new` returning any free
address. Two things end what it says, and with the server's numbers of threads
both happen (section 7): a deleted node is touched (`ub`, the behaviour ends), or an
address comes back while the tail, a node or a thread still points there
(`reborn`). Until then nothing is lost, given out twice or out of order.

`FifoInv` says that there is a sequence of distinct live nodes from `head` on, each the
`next` of the one before, and that all but the first hold messages; that there is
a set of nodes the head has left to which something may still point, deleted or not;
that `tail` and every pointer a thread works with are in the one or the other;
that a producer's new node is in neither until it is linked, and is nobody
else's; and that what a consumer has read behind its old head still is behind it.
An address that comes back while nothing points there leaves the set (`NewNode`).
A compare-and-swap of `next` that succeeds extends the
sequence at its end, since every node of the set has a successor (a Put), and one of
`head` moves its first node to the set and gives out the message of the second (a
Take). All other steps leave the sequence alone: the late tail store among them,
which moves `tail` back, even to a node the head has left.

The mapping reads the queue with `Chain`, a recursive function. `ChainIs` shows that its
value is the rest of the sequence. It names the function that satisfies the
recursion, so that CHOOSE has something to choose, and shows that two such
functions agree at each place, as there is no least place where they do not
(`UpFrom0`).

### The parts of ServerParts

`PartSteps` shows that each step is a step of one part and leaves the variables of
the others alone; after it each part is proved on its own.

*Database pool.* `DbInv`: the queue has no duplicates, nothing in it is borrowed,
no connection is borrowed twice, the queue is sorted by last use, and no last use
lies in the future. The last is what keeps the queue sorted when a connection
comes back, and that idle and borrowed connections have been made is what keeps
a new one apart from them.

*Timer queue.* `TimerInv`: the entries and the clients in use match one to one, the
size is always that of the queue, and the earliest time is whenever the mutex is
free, so also where the monitor reads the one before and the other after
somebody's change. `TimerOnce` needs
`~Kick`, the value of `Sock_TimeOutKick` the server is shipped with: with kicking the
monitor takes entries out for clients that stay (section 7).

*Threads of a worker.* `ThreadsInv` counts as in the send path: until the main
thread has posted for the end, the semaphore, the posts due and the senders past it
are not more than the responses. The posts of the end come after the flag is set,
and a sender that sees the flag does not go to the queue.

*Master.* `MasterInv`: either every live worker is in the table, or the table has a
0, and `kill(0)` reaches the whole process group. That a failing fork leaves a 0
below entries in use, which later keeps the end from being lost, is `Forking`;
processes are numbered in the order of their forks (`Forked`).

*Middleware chain.* `ChainInv`: before runs down the chain and after up again, and
after begins only when before has come to the end and nothing was thrown.

*Router.* `RouteInv`: the exact tables hold the last registration of each method and
path, the lists of patterns hold all registrations of their kind in their order;
what served the request is what the documented priority finds among the
registrations themselves (`FoundIsExpected` compares the two).

*Parser.* `ParserInv` says for each state of the parser what it knows of the
position, of the count of bytes received and of what has been saved, for each
kind of request, all lengths and any cut. A pass that spins (section 7) reports
nothing, and the invariant says so. Of a defect in the headers it says that an
error is remembered for no other kind, and that no kind whose length was not
understood gets past the headers.

*Rate limiter.* `Budget`: from any time to the last refill, the requests let through
and the tokens that are left are not more than the burst and the rate allow.

*Sessions.* The three theorems need `OneServer`, one worker process: several draw the
same identifiers (SessionsShared, section 7), and with them each of the three is
false. They speak of the time before two threads draw at once, as the properties
do (`raced \/ VisitInv` is inductive). `VisitInv` says that an identifier that has not been drawn is nowhere;
that each identifier has an owner, who alone has it in a cookie or a request, and
whose requests alone have stored what its session holds; and for each
identifier what the storage keeps of it. In memory it is the values of all
who used it (`InMemory`); in redis those of whoever did not share a copy, for as
long as it has to live (`InServer`); and nothing, nowhere, once it has been
destroyed (`Ended`). An identifier can always be drawn, because no more have been
than there are requests past the manager.

### Byte buffer and logger

`BufferProofs` proves for every initial size, every prepended space and every
sequence of appends and retrievals:

- `StaysInside`: the indices stay in order and inside the vector;
- `BytesInOrder` (`ReadsInOrder`) and `BoundedGrowth` (`GrowsWithDemand`).

`BufferInv` is their conjunction with the numbers' types. Order needs the
indices inside, since an append that moves or grows must leave room for all
(`RoomForAll`), and the bound needs that what is held was once wanted.

ServerPartsProofs takes both over to ServerParts, and the logger's theorem as well,
by showing that a behaviour of ServerParts is one of Buffer and one of Logger in
the sense of their specifications.

`LoggerProofs` proves `LoggerLinesWhole` (`LinesWhole`) for every size of the array
above the length of a date, every format and all arguments. `LineInv` is that the
next byte's position is at most `last` and that a reason that was written ends
before the byte the newline may take: `ngx_log_errno` puts it there only when it
fits (`ReasonFits`), and the end of a line steps back by one byte when the array
is full. The lemmas `TextFits`, `NumberFits`, `SignedFits`, `FractionFits` and
`PrefixFits` say the same of what `ngx_vslprintf` can write.

## 6. What is only model-checked

Liveness (`EventuallyRecycled`, `EventuallyAnswered`, `EventuallyReceived`,
`StopsAll`, `EventuallyServed`, `EventuallyChecked`, `StopsServing`,
`CompleteIsReported`): fairness and enabledness are out of the prover's reach.

A property of a run that is expected to be violated has no theorem.

## 7. Known disagreements

Six are runs in which TLC finds a statement of the code or its documentation
violated (`findings` in `PROJECT.json`).

- *PoolDoubleClose.* `zdClosesocketProc` "may be called by several threads"
  (`src/net/my_socket.cpp:413`) and tests, closes and clears `fd` without a lock.
  The slower of two threads can close a descriptor the kernel has already given
  to another client. `OnceInPool` survives: a second entry in the recycle queue
  is refused.
- *RecvReused.* `GetOneToUse` starts the chunk numbers of an object again, the
  context keeps the number it expects. For every client but the first of an
  object the numbers never match, every chunk waits five seconds, and chunks
  whose waits end together are parsed in any order. Connection is about a new
  object for this reason.
- *SendReused.* `GetOneToUse` and `zdClosesocketProc` leave `psendbuf` as it is
  (`my_socket_conn.cpp:24`), although `README.md:101` says the recycler releases a
  connection's buffers: what one client did not take is sent to the next, before
  its own responses.
- *SessionsShared.* The generator of identifiers is seeded before the workers are
  forked and so draws the same ones in all of them, although
  `src/session/sessionManager.cpp:44` promises that they are unique. With redis two
  clients that come to two workers share one session.
- *ConnectionOverlap.* `threadRecvProcFunc` passes the turn on and queues the response before
  it resets the context (`src/logic/my_slogic.cpp:72`, `:93`), although
  `include/net/my_socket.h:187` says that the numbers put the stream together under
  several threads. A client that has its answer and asks again before the reset has its
  chunk parsed into a context that still holds a complete request: the old one is
  handled again, and the new one, or a part of it, is thrown away by the reset.
- *ParserSpins.* `parseRequest` repeats its loop for ever when a chunk ends in a
  part head, although a comment says it waits for more data.

Five more statements of the code are written down beside the properties and are
in no run; TLC violates each at once with the constants given here, and
`CHECK_DEADLOCK FALSE`:

| Statement | Module | Constants |
|---|---|---|
| `CrashIsRestarted`: a crashed worker is restarted (`my_process_cycle.cpp:97`) | Master, `FairSpec` | two workers, one crash, no failing fork |
| `ClosesByResponse`: the send thread decides by the response whether to close (`my_socket.cpp:720`) | SendPath | one sender and worker, `RespLen` and `SockRoom` 1, `QueueLimit` and `SendLimit` 5, one client, two requests, no signal, not pipelined, no failures |
| `CutsOnlyBacklog`: who is cut off has responses that wait (`my_socket.cpp:383`) | SendPath | the same with `SendLimit` 1 and three requests |
| `ErrorsRefused`: a request with an illegal header is not reported complete (`my_http_context.cpp:122`, `:150`) | HttpParser | those of ServerParts |
| `IdsUnique`: requests served at once have identifiers of their own (`sessionManager.cpp:44`) | Sessions | one process, two threads, two clients, memory, `MaxAge` 1, three requests, one second |

Other disagreements were met while modelling and limit what the properties say.
Each is a behaviour of the model as well, except where it says otherwise; TLC
shows it when the constant or the clause named is changed.

Pool
- `epoll_ctl` fails in `ngx_event_accept`: `ngx_close_connection` gives the object
  back but does not take back `m_onlineUserCount` (`my_socket_accept.cpp:143`); the
  count stays one too high, and the server serves one client fewer.
- `m_total_recyconnection_n` is only ever decreased.
- `msgSend` stamps a response with the sequence number at the time it is sent: a
  response for a connection that has been closed meanwhile passes the test in the
  send thread. The delay, and not the number, protects the object then.

Send path
- After a first partial send the connection's read interest is lost:
  `EPOLL_CTL_MOD` uses a mask built from `pConn->events`, which was never filled
  (`my_socket.cpp:578`). After the write handler the mask is empty: nothing this
  client sends is read any more, and its leaving is not noticed. `EventuallyAnswered`
  is about requests that were read.
- `iSendCount` only grows (`my_socket.cpp:382`): a client that keeps its
  connection is cut off after 401 responses as if it did not read
  (`CutsOnlyBacklog`).
- `sem_wait` returns on a signal, the handlers are installed without SA_RESTART
  (`my_signal.cpp:31`), and the loop goes on to dequeue from an empty queue and to
  use a null connection (`my_socket.cpp:732`). `Interrupted` is this; the model
  stops there (`crashed`).
- A response is dropped without a word to its client when the send queue holds
  more than 50000 (`my_socket.cpp:372`). `EventuallyAnswered` is checked with room.
- The close flag is one field of the connection: the flag of a later request lets
  a sender close after an earlier response (`my_socket.cpp:779`; `ClosesByResponse`).
- With pipelined requests and two senders responses overtake one another
  (`Pipelined = TRUE` violates `WireInOrder` of SendPath).

Receive path
- What a quick client gets from the overlap of ConnectionOverlap: the answer to its old request once
  more (`my_slogic.cpp:93`), of its new one none or one that begins in the middle. `AnswersInOrder`
  without its hypothesis is violated in Connection.
- `context_->sequence++` is done without the mutex of the condition variable
  (`my_slogic.cpp:72`): a waiter that has tested and not yet slept misses the
  notification and sleeps its full five seconds, although its turn has come. In
  the model `Proceed` is as late as this, or not.

Sessions
- `Session::remove` and `Session::clear` do not call `updateSession`, unlike
  `setValue` (`src/session/session.cpp:47`, `:53`): with redis what was removed is there
  again for the next request.
- With redis `setValue` writes the whole copy back: of two requests that change a
  session at once one loses its values. `SessionSurvives` leaves these out.
- A request under way when its session is destroyed stores it again with its next
  `setValue`, and the client, which still has the cookie, is logged in.
  `LogoutHolds` is about logouts with nobody else under way.
- `rng_` is shared by the threads of a worker without a lock (`sessionManager.cpp:54`): two that
  draw at once can get the same identifier, and their clients one session
  (`IdsUnique`). The three properties are about the time before that (`raced`).
- The map of `MemorySessionStorage` and the one connection of `RedisClient` are used
  by all threads of the receive pool without a lock; the connection is made before
  the fork and is one socket for all workers. This is not in the model (section 4).

Logger
- `ngx_log_stderr` hands its finished text to `ngx_log_error_core` as a format
  (`my_logger.cpp:71`): a percent sign in it is formatted again, with arguments
  nobody passed. The model has texts as they are.

Lock-free queue
- A deleted node is touched (`ub`) with one producer and two consumers, where a consumer
  reads `next` of a node that another deletes, and with two producers and one
  consumer, where the late tail store of `Enqueue` puts `tail_ptr_` on a deleted node.
  The server runs the receive queue 1:2 and the send queue 2:2. With one of each
  neither happens.
- With two consumers an address comes back while a thread still compares with it
  (`reborn`): the tags beside the pointers are written and never compared, and what
  happens then violates Fifo.
- `size` can be read as -1 for a moment.

Threads, timer, database
- `CThreadPool::Create` can miss the notification of the last thread
  (`my_threadpool.cpp:104-107` against line 42) and then waits for ever.
  `StopsServing` speaks of workers that serve.
- Responses that are queued when the worker stops are dropped.
- WorkerThreads leaves out that `sem_wait` returns for a signal that ends nothing
  (`my_socket.cpp:732`): `NeverEmptyHanded` is about the posts. SendPath has it.
- `procPingTimeOutChecking` is empty: nobody is kicked, although `README.md` says
  idle connections are put into the recycle queue. With `Sock_TimeOutKick = 1`
  entries leave the queue without effect.
- `maxSize` bounds the idle database connections, not all of them; giving one
  back notifies nobody, and the time-out of the wait makes up for it.
- A restarted worker that leaves on the signal of the end sends it to its whole
  process group; `ngx_last_process` grows with each restart and is not compared
  with the size of the table; a failing fork leaves an entry 0.

Parser, responses, router
- An error in the headers is kept beside the result and loses to it
  (`my_http_context.cpp:121` against `:102`): a GET with a header without a colon is served when
  its headers arrive together, and refused when they arrive in two chunks cut behind that line.
  `VerdictRight` allows both, `ErrorsRefused` does not.
- `parseRequest` also spins on a line or boundary cut by the end of a chunk, on an
  invalid or overlong request line, and on a POST without length whose body has
  arrived. The chunk behind is then parsed by a second thread in the same context
  as soon as its five seconds are over.
- An upload is saved with the line end that belongs to the end boundary
  (`SavesBodyOnly` allows it).
- A 404 carries `Connection: close` and the server keeps the connection open.
  Responses made from exceptions have neither an HTTP version nor a length.
- Pattern callbacks are called with the original request and not with the copy
  that holds the parameters taken from the path (`src/route/router.cpp:74`).
- The rate limit of the demo application is announced as a global one
  (`src/app/demo1.cpp:423`) and is one per worker process.

Start
- `ngx_epoll_init` uses `listening->fd` without a test that
  `ngx_open_listening_sockets` returned one (`my_socket.cpp:525`).

## 8. What is not modelled

Configuration, daemon mode and process titles: one thread, before anything
starts. The set-up of the listening socket: system calls in a row. Requests' and
responses' setters and formatting: data without a state another thread sees.
libmysqlclient and hiredis. The demo application, except as what handlers and
middlewares may do. `src/delete`: not compiled into the server.

Left out inside the modules: SIGHUP, SIGINT and SIGIO, whose handler only
writes to the log; `clearAllFromTimerQueue`, which runs when all other threads
have been joined; `TestFlood`, which nothing calls; which
characters a line of the log consists of; the JSON of a session in redis; the
fields of lines and headers; the parameters taken from a path.

## 9. Plan

Done, in this order: ConnPool with ConnLife and its proofs, SendPath, RecvPath,
LockFreeQueue with Fifo, Master, the smaller parts in ServerParts, Buffer's
proofs; then the composition of both paths in Connection, Sessions, Logger with
its proof, the pool's two bounds and its refinement of ConnLife; then the proofs
of every invariant the runs check.

Left for the model: two connection objects in SendPath, for what the shared send
queue does to the second client when the first does not read; RequestHandling
inside Connection, so that the answer's status is that of the handler.

Left to prove, in the order of their worth:

1. Connection: what of `AnswerInv` is left once a chunk has been parsed too early: no
   answer is broken, only given twice.
2. LockFreeQueue: that with one producer and one consumer no deleted node is touched
   and no address comes back too early, for every number of messages.
3. Sessions: what several workers that share redis keep, if their identifiers were
   distinct.

A property added for a new module takes the place of the shallowest one it
makes superfluous.
