------------------------------- MODULE SendPath -------------------------------
(***************************************************************************)
(* How a response reaches its client: msgSend queues it, a send thread     *)
(* takes it when the semaphore lets it and writes it to the socket, and    *)
(* what the kernel does not accept waits in psendbuf for the epoll thread  *)
(* (src/net/my_socket.cpp, src/net/my_http_request_callback.cpp).          *)
(*                                                                         *)
(* The module follows one connection object through the clients it is      *)
(* given to.  A response is RespLen units long; unit <<k, n, i>> is the    *)
(* i-th unit of the response to the n-th request of client k.  The send    *)
(* queue is the FIFO that LockFreeQueue stands for.  An object passes to   *)
(* another client only when nothing refers to it (ConnPool shows that the  *)
(* recycle delay ensures this).  An append to psendbuf and a send from it  *)
(* are one step each: where clients wait for a response before they ask    *)
(* again (Pipelined = FALSE) at most one thread has the buffer in hand,    *)
(* but for a request that is handled twice (RecvPath, HandledInTurn).      *)
(***************************************************************************)
EXTENDS Integers, Sequences, FiniteSets, SequencesExt

CONSTANTS
    Senders,         \* threads of ServerSendQueueThread
    Workers,         \* threads that call msgSend
    RespLen,         \* units of a response
    SockRoom,        \* units the socket's send buffer holds
    QueueLimit,      \* 50000 in msgSend
    SendLimit,       \* 400 in msgSend
    MaxClients,      \* bound: clients served by the object
    MaxRequests,     \* bound: requests of one client
    MaxSignals,      \* bound: signals delivered to a thread in sem_wait
    Pipelined,       \* whether clients send a request before the last response
    CanFail          \* whether send may fail and clients may disconnect

ASSUME SendAssumption ==
    /\ RespLen \in Nat \ {0} /\ SockRoom \in Nat \ {0}
    /\ QueueLimit \in Nat /\ SendLimit \in Nat
    /\ MaxClients \in Nat \ {0} /\ MaxRequests \in Nat /\ MaxSignals \in Nat
    /\ Pipelined \in BOOLEAN /\ CanFail \in BOOLEAN
    /\ Workers \cap Senders = {}
    /\ IsFiniteSet(Workers) /\ IsFiniteSet(Senders)

VARIABLES
    client,      \* the client the object belongs to
    open,        \* fd # -1
    seqNo,       \* iCurrsequence
    psendbuf,    \* units the kernel has not accepted yet
    sendCount,   \* iCurrsequence of the response psendbuf was filled for
    iSendCount,  \* responses queued for this client so far
    httpClose,   \* ishttpClose
    events,      \* pConn->events
    mask,        \* kernel: the events epoll reports for the descriptor
    room,        \* kernel: free units of the socket's send buffer
    wire,        \* kernel: per client, the units accepted for it
    asked,       \* requests the client has sent
    handled,     \* requests a worker has taken
    sendq,       \* m_MsgSendQueue
    sem,         \* m_semEventSendQueue
    signals,     \* signals delivered so far
    wpc, job,    \* workers: program counter, the response being queued
    spc, cur,    \* senders: program counter, the message taken (rest of its data)
    epc          \* the epoll thread in ngx_http_write_response_handler

conn == <<client, iSendCount, httpClose, asked, handled>>
status == <<open, mask, seqNo>>
socket == <<room, wire>>
buffer == <<psendbuf, sendCount>>
queue == <<sendq, sem, signals>>
workers == <<wpc, job>>
senders == <<spc, cur>>
vars == <<conn, status, socket, buffer, events, queue, workers, senders, epc>>

Clients == 1 .. MaxClients
Response(k, n) == [i \in 1 .. RespLen |-> <<k, n, i>>]
Message == [data : Seq(Clients \X (1 .. MaxRequests) \X (1 .. RespLen)), seq : Nat,
            bad : BOOLEAN, close : BOOLEAN]
NoMessage == [data |-> <<>>, seq |-> 0, bad |-> FALSE, close |-> FALSE]

(* ngx_get_connection and the registration of the first client: ADD sets   *)
(* the kernel's mask, pConn->events keeps its value.                       *)
Init ==
    /\ client = 1 /\ open = TRUE /\ seqNo = 2
    /\ psendbuf = <<>> /\ sendCount = 0 /\ iSendCount = 0
    /\ httpClose = TRUE
    /\ events = {} /\ mask = {"IN"}
    /\ room = SockRoom /\ wire = [k \in Clients |-> <<>>]
    /\ asked = 0 /\ handled = 0
    /\ sendq = <<>> /\ sem = 0 /\ signals = 0
    /\ wpc = [w \in Workers |-> "idle"] /\ job = [w \in Workers |-> NoMessage]
    /\ spc = [s \in Senders |-> "wait"] /\ cur = [s \in Senders |-> NoMessage]
    /\ epc = "idle"

-----------------------------------------------------------------------------
(* zdClosesocketProc as one step: a second call changes nothing.           *)
Close ==
    /\ open' = FALSE /\ mask' = {}
    /\ seqNo' = IF open THEN seqNo + 1 ELSE seqNo

(* ngx_epoll_oper_event with EPOLL_CTL_MOD: 0 adds flags to pConn->events, *)
(* 1 removes them; epoll_ctl fails on a closed descriptor.                 *)
Modify(evs) ==
    /\ events' = evs
    /\ mask' = IF open THEN evs ELSE mask

(* send: the kernel takes a part of the data, at most what it has room for.*)
Write(data, n) ==
    /\ n \in 1 .. Len(data) /\ n <= room
    /\ wire' = [wire EXCEPT ![client] = @ \o SubSeq(data, 1, n)]
    /\ room' = room - n

-----------------------------------------------------------------------------
(* The client, and the read side of the server as far as it matters here.  *)
Answered == Len(wire[client]) = asked * RespLen

ClientAsks ==
    /\ open /\ asked < MaxRequests
    /\ Pipelined \/ Answered
    /\ asked' = asked + 1
    /\ UNCHANGED <<client, iSendCount, httpClose, handled, status, socket, buffer,
                   events, queue, workers, senders, epc>>

ClientReads ==
    /\ room < SockRoom
    /\ room' = SockRoom
    /\ UNCHANGED <<conn, status, wire, buffer, events, queue, workers, senders,
                   epc>>

(* The read handler gets 0 from recv: it sees it only while EPOLLIN is set.*)
ClientLeaves ==
    /\ CanFail /\ open /\ "IN" \in mask /\ epc = "idle"
    /\ Close
    /\ UNCHANGED <<conn, socket, buffer, events, queue, workers, senders, epc>>

HasRequest == handled < asked    \* parseRequest says a request is complete

(* A worker answers request r: onRequest sets ishttpClose, and the header  *)
(* of the response, from the request's Connection header; a request in     *)
(* error leaves ishttpClose alone and gets a 400.                          *)
Answer(w, r, bad) ==
    /\ wpc[w] = "idle"
    /\ \E close \in IF bad THEN {FALSE} ELSE BOOLEAN :
          /\ httpClose' = IF bad THEN httpClose ELSE close
          /\ job' = [job EXCEPT ![w] = [data |-> Response(client, r), seq |-> 0, bad |-> bad,
                                        close |-> close]]
    /\ wpc' = [wpc EXCEPT ![w] = "msgSend"]
    /\ UNCHANGED <<client, iSendCount, status, socket, buffer, events, queue,
                   senders, epc>>

TakeRequest(w) ==
    /\ open /\ "IN" \in mask /\ HasRequest
    /\ handled' = handled + 1 /\ UNCHANGED asked
    /\ \E bad \in BOOLEAN : Answer(w, handled + 1, bad)

-----------------------------------------------------------------------------
(* msgSend.                                                                *)
TooMany == iSendCount > SendLimit

MsgSendDrops(w) ==
    /\ wpc[w] = "msgSend" /\ Len(sendq) > QueueLimit
    /\ wpc' = [wpc EXCEPT ![w] = "idle"]
    /\ UNCHANGED <<conn, status, socket, buffer, events, queue, job, senders, epc>>

MsgSendCuts(w) ==
    /\ wpc[w] = "msgSend" /\ Len(sendq) <= QueueLimit /\ TooMany
    /\ Close
    /\ wpc' = [wpc EXCEPT ![w] = "idle"]
    /\ UNCHANGED <<conn, socket, buffer, events, queue, job, senders, epc>>

MsgSendStamps(w) ==
    /\ wpc[w] = "msgSend" /\ Len(sendq) <= QueueLimit /\ ~TooMany
    /\ iSendCount' = iSendCount + 1
    /\ job' = [job EXCEPT ![w].seq = seqNo]
    /\ wpc' = [wpc EXCEPT ![w] = "enqueue"]
    /\ UNCHANGED <<client, httpClose, asked, handled, status, socket, buffer,
                   events, queue, senders, epc>>

EnqueueAndPost(w) ==                                                \* mutant
    /\ wpc[w] = "enqueue"
    /\ sendq' = Append(sendq, job[w]) /\ sem' = sem + 1
    /\ wpc' = [wpc EXCEPT ![w] = "post"]
    /\ UNCHANGED <<conn, status, socket, buffer, events, signals, job, senders,
                   epc>>

Enqueue(w) ==
    /\ wpc[w] = "enqueue"
    /\ sendq' = Append(sendq, job[w])
    /\ wpc' = [wpc EXCEPT ![w] = "post"]
    /\ UNCHANGED <<conn, status, socket, buffer, events, sem, signals, job,
                   senders, epc>>

Post(w) ==
    /\ wpc[w] = "post"
    /\ sem' = sem + 1
    /\ wpc' = [wpc EXCEPT ![w] = "idle"]
    /\ UNCHANGED <<conn, status, socket, buffer, events, sendq, signals, job,
                   senders, epc>>

-----------------------------------------------------------------------------
(* ServerSendQueueThread.                                                  *)
SemWait(s) ==
    /\ spc[s] = "wait" /\ sem > 0
    /\ sem' = sem - 1
    /\ spc' = [spc EXCEPT ![s] = "take"]
    /\ UNCHANGED <<conn, status, socket, buffer, events, sendq, signals, workers,
                   cur, epc>>

(* EINTR: the test after sem_wait lets it through to TryDequeue.           *)
Interrupted(s) ==
    /\ spc[s] = "wait" /\ signals < MaxSignals
    /\ signals' = signals + 1
    /\ spc' = [spc EXCEPT ![s] = "take"]
    /\ UNCHANGED <<conn, status, socket, buffer, events, sendq, sem, workers, cur,
                   epc>>

(* TryDequeue on an empty queue leaves the header empty, its pConn null,   *)
(* and the next line dereferences it.                                      *)
TakeNothing(s) ==
    /\ spc[s] = "take" /\ sendq = <<>>
    /\ spc' = [spc EXCEPT ![s] = "crashed"]
    /\ UNCHANGED <<conn, status, socket, buffer, events, queue, workers, cur, epc>>

Take(s) ==
    /\ spc[s] = "take" /\ sendq # <<>>
    /\ sendq' = Tail(sendq)
    /\ LET m == Head(sendq) IN
          IF m.seq = seqNo
          THEN /\ cur' = [cur EXCEPT ![s] = m]
               /\ spc' = [spc EXCEPT ![s] = "send"]
          ELSE UNCHANGED cur /\ spc' = [spc EXCEPT ![s] = "wait"]
    /\ UNCHANGED <<conn, status, socket, buffer, events, sem, signals, workers,
                   epc>>

Send(s) ==                       \* send accepts all of it, or a part
    /\ spc[s] = "send" /\ open
    /\ \E n \in 1 .. RespLen :
          /\ Write(cur[s].data, n)
          /\ cur' = [cur EXCEPT ![s].data = SubSeq(@, n + 1, Len(@))]
          /\ spc' = [spc EXCEPT ![s] = IF n = Len(cur[s].data) THEN "sent" ELSE "save"]
    /\ UNCHANGED <<conn, status, buffer, events, queue, workers, epc>>

SendBlocked(s) ==                \* EAGAIN
    /\ spc[s] = "send" /\ open /\ room = 0
    /\ spc' = [spc EXCEPT ![s] = "save"]
    /\ UNCHANGED <<conn, status, socket, buffer, events, queue, workers, cur, epc>>

SendFails(s) ==                  \* an error, or fd is -1 by now
    /\ spc[s] = "send" /\ (CanFail \/ ~open)
    /\ psendbuf' = <<>>
    /\ Close
    /\ cur' = [cur EXCEPT ![s] = NoMessage]
    /\ spc' = [spc EXCEPT ![s] = "wait"]
    /\ UNCHANGED <<conn, socket, sendCount, events, queue, workers, epc>>

Finished(s) ==                   \* all was sent: close after a 400 or if asked to
    /\ spc[s] = "sent"
    /\ IF cur[s].bad \/ httpClose THEN Close ELSE UNCHANGED status
    /\ cur' = [cur EXCEPT ![s] = NoMessage]
    /\ spc' = [spc EXCEPT ![s] = "wait"]
    /\ UNCHANGED <<conn, socket, buffer, events, queue, workers, epc>>

SaveAll(s) ==                                                       \* mutant
    /\ spc[s] = "save"
    /\ psendbuf' = psendbuf \o Response(client, Head(cur[s].data)[2])
    /\ sendCount' = cur[s].seq
    /\ spc' = [spc EXCEPT ![s] = "arm"]
    /\ UNCHANGED <<conn, status, socket, events, queue, workers, cur, epc>>
Save(s) ==                       \* the rest goes to psendbuf
    /\ spc[s] = "save"
    /\ psendbuf' = psendbuf \o cur[s].data
    /\ sendCount' = cur[s].seq
    /\ spc' = [spc EXCEPT ![s] = "arm"]
    /\ UNCHANGED <<conn, status, socket, events, queue, workers, cur, epc>>

ArmNot(s) ==                                                        \* mutant
    /\ spc[s] = "arm"
    /\ cur' = [cur EXCEPT ![s] = NoMessage]
    /\ spc' = [spc EXCEPT ![s] = "wait"]
    /\ UNCHANGED <<conn, status, socket, buffer, events, queue, workers, epc>>
Arm(s) ==                        \* and EPOLLOUT is asked for
    /\ spc[s] = "arm"
    /\ Modify(events \cup {"OUT"})
    /\ cur' = [cur EXCEPT ![s] = NoMessage]
    /\ spc' = [spc EXCEPT ![s] = "wait"]
    /\ UNCHANGED <<conn, open, seqNo, socket, buffer, queue, workers, epc>>

-----------------------------------------------------------------------------
(* ngx_http_write_response_handler.  Its early return changes nothing, so  *)
(* a level-triggered EPOLLOUT that meets it is left out.                   *)
WriteEvent ==
    /\ epc = "idle" /\ open /\ "OUT" \in mask /\ room > 0
    /\ psendbuf # <<>> /\ sendCount = seqNo
    /\ epc' = "write"
    /\ UNCHANGED <<conn, status, socket, buffer, events, queue, workers, senders>>

WriteOut ==
    /\ epc = "write" /\ open
    /\ \E n \in 1 .. Len(psendbuf) :
          /\ Write(psendbuf, n)
          /\ psendbuf' = SubSeq(psendbuf, n + 1, Len(psendbuf))
          /\ epc' = IF n = Len(psendbuf) THEN "disarm" ELSE "write"
    /\ UNCHANGED <<conn, status, sendCount, events, queue, workers, senders>>

WriteBlocked ==                  \* EAGAIN: EPOLLOUT stays
    /\ epc = "write" /\ open /\ room = 0
    /\ Modify(events \cup {"OUT"})
    /\ epc' = "idle"
    /\ UNCHANGED <<conn, open, seqNo, socket, buffer, queue, workers,
                   senders>>

WriteFails ==                    \* psendbuf keeps what it holds
    /\ epc = "write" /\ (CanFail \/ ~open)
    /\ Close
    /\ epc' = "idle"
    /\ UNCHANGED <<conn, socket, buffer, events, queue, workers, senders>>

Disarm ==
    /\ epc = "disarm"
    /\ Modify(events \ {"OUT"})
    /\ epc' = "finish"
    /\ UNCHANGED <<conn, open, seqNo, socket, buffer, queue, workers,
                   senders>>

WriteFinished ==
    /\ epc = "finish"
    /\ IF httpClose THEN Close ELSE UNCHANGED status
    /\ epc' = "idle"
    /\ UNCHANGED <<conn, socket, buffer, events, queue, workers, senders>>

-----------------------------------------------------------------------------
(* ngx_free_connection and GetOneToUse for the next client: the latter     *)
(* resets neither psendbuf nor sendCount nor events.                       *)
Reuse ==
    /\ ~open /\ client < MaxClients
    /\ sendq = <<>> /\ epc = "idle"
    /\ \A w \in Workers : wpc[w] = "idle"
    /\ \A s \in Senders : spc[s] = "wait"
    /\ client' = client + 1
    /\ seqNo' = seqNo + 2
    /\ iSendCount' = 0 /\ httpClose' = TRUE
    /\ open' = TRUE /\ mask' = {"IN"} /\ room' = SockRoom
    /\ asked' = 0 /\ handled' = 0
    /\ UNCHANGED <<wire, buffer, events, queue, workers, senders, epc>>

ClientStep == ClientAsks \/ ClientReads \/ ClientLeaves

WorkerStep(w) ==
    TakeRequest(w) \/ MsgSendDrops(w) \/ MsgSendCuts(w) \/ MsgSendStamps(w)
        \/ Enqueue(w) \/ Post(w)

SenderStep(s) ==
    \/ SemWait(s) \/ TakeNothing(s) \/ Take(s) \/ Send(s) \/ SendBlocked(s)
    \/ SendFails(s) \/ Finished(s) \/ Save(s) \/ Arm(s)

WriteStep ==
    WriteEvent \/ WriteOut \/ WriteBlocked \/ WriteFails \/ Disarm \/ WriteFinished

(* A crashed thread takes the process with it.                             *)
Alive == \A s \in Senders : spc[s] # "crashed"

Next ==
    /\ Alive
    /\ \/ ClientStep
       \/ \E w \in Workers : WorkerStep(w)
       \/ \E s \in Senders : SenderStep(s) \/ Interrupted(s)
       \/ WriteStep
       \/ Reuse

Spec == Init /\ [][Next]_vars

-----------------------------------------------------------------------------
TypeOK ==
    /\ client \in Clients /\ open \in BOOLEAN /\ seqNo \in Nat
    /\ psendbuf \in Seq(Clients \X (1 .. MaxRequests) \X (1 .. RespLen))
    /\ sendCount \in Nat /\ iSendCount \in Nat /\ httpClose \in BOOLEAN
    /\ events \subseteq {"IN", "OUT"} /\ mask \subseteq {"IN", "OUT"}
    /\ room \in 0 .. SockRoom
    /\ wire \in [Clients -> Seq(Clients \X (1 .. MaxRequests) \X (1 .. RespLen))]
    /\ asked \in 0 .. MaxRequests /\ handled \in 0 .. asked
    /\ sendq \in Seq(Message) /\ sem \in Nat /\ signals \in 0 .. MaxSignals
    /\ wpc \in [Workers -> {"idle", "msgSend", "enqueue", "post"}]
    /\ job \in [Workers -> Message]
    /\ spc \in [Senders -> {"wait", "take", "send", "sent", "save", "arm", "crashed"}]
    /\ cur \in [Senders -> Message]
    /\ epc \in {"idle", "write", "disarm", "finish"}

(* Someone comes for every queued message: a sender past sem_wait, the     *)
(* semaphore, or the post that is still to come; and only a signal lets a  *)
(* sender past sem_wait for which there is none.                           *)
SemaphoreMatchesQueue ==
    LET tickets == sem + Cardinality({s \in Senders : spc[s] = "take"})
                       + Cardinality({w \in Workers : wpc[w] = "post"})
    IN  Len(sendq) <= tickets /\ tickets <= Len(sendq) + signals

(* What a client gets is the responses to its requests, each complete and  *)
(* in the order it asked, up to where the connection stands or was lost.   *)
Ordered(k) ==
    \A i \in 1 .. Len(wire[k]) :
        wire[k][i] = <<k, ((i - 1) \div RespLen) + 1, ((i - 1) % RespLen) + 1>>

WireInOrder == \A k \in Clients : Ordered(k)

(* README.md:101 says that the recycler releases the buffers of a          *)
(* connection (zdClosesocketProc, ServerRecyConnectionThread): nothing that *)
(* was meant for one client is sent to another.                            *)
OwnBytesOnly == \A k \in Clients : \A u \in Range(wire[k]) : u[1] = k

(* my_socket.cpp:720 says that the send thread decides by the response     *)
(* whether to close: where it closes after a response, that response is a  *)
(* 400 or was the answer to a request that asked for it.                   *)
ClosesByResponse ==
    [][\A s \in Senders :
          Finished(s) /\ open /\ ~open' => cur[s].bad \/ cur[s].close]_vars

(* my_socket.h:176 says that iSendCount is the number of entries in the    *)
(* send queue, and msgSend cuts a client off because many of its responses *)
(* wait (my_socket.cpp:383): one that is cut off has something that waits. *)
Waiting ==
    \/ sendq # <<>> \/ psendbuf # <<>>
    \/ \E w \in Workers : wpc[w] = "enqueue"
    \/ \E s \in Senders : cur[s] # NoMessage

CutsOnlyBacklog == [][\A w \in Workers : MsgSendCuts(w) => Waiting]_vars
=============================================================================
