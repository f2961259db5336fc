------------------------------- MODULE RecvPath -------------------------------
(***************************************************************************)
(* How requests are put together: the epoll thread numbers every chunk it  *)
(* receives, the threads of the receive pool take the chunks from a queue  *)
(* and feed them to the parser of the connection in the order of their     *)
(* numbers, and the one that completes a request answers it                *)
(* (src/net/my_http_request_callback.cpp, src/logic/my_slogic.cpp).        *)
(*                                                                         *)
(* The module follows one connection object.  Byte k of a client's stream  *)
(* belongs to request (k - 1) \div Parts + 1; a client sends a request     *)
(* when the one before has been answered, which may be before the thread   *)
(* that answered it has reset the context.  The parser is HttpParser seen  *)
(* from outside: a request is complete after Parts bytes, bytes that are   *)
(* out of place are an error.                                              *)
(***************************************************************************)
EXTENDS Integers, Sequences, FiniteSets, SequencesExt

CONSTANTS
    Workers,         \* threads of the receive pool
    Parts,           \* bytes of a request
    MaxRequests,     \* bound: requests of one client
    MaxClients       \* bound: clients served by the object

RecvAssumption ==
    /\ Parts \in Nat \ {0} /\ MaxRequests \in Nat /\ MaxClients \in Nat \ {0}
    /\ IsFiniteSet(Workers)

VARIABLES
    client, open,    \* the client the object belongs to, fd # -1
    seqNo,           \* iCurrsequence
    sent, read,      \* bytes the client has sent, bytes received
    sequence,        \* pConn->sequence: number of the next chunk received
    recvq,           \* m_MsgRecvQueue
    expected,        \* context_->sequence: number of the next chunk to parse
    buffer, gotAll,  \* context_: bytes held, state_ = kGotAll
    pc, chunk,       \* workers: program counter, message taken
    outcome,         \* what parseRequest returned to a worker
    fed,             \* ghost: bytes of this client the parser has been given
    handled,         \* ghost: requests of this client that have been answered
    overlapped       \* ghost: a chunk was parsed while the context still held a
                     \* request that was complete

stream == <<client, sent>>
connection == <<open, seqNo, sequence, read, recvq>>
context == <<expected, buffer, gotAll>>
workers == <<pc, chunk, outcome>>
ghosts == <<fed, handled, overlapped>>
vars == <<stream, connection, context, workers, ghosts>>

NoChunk == [seq |-> 0, no |-> 0, from |-> 1, to |-> 0]
Request(k) == ((k - 1) \div Parts) + 1

Init ==
    /\ client = 1 /\ open = TRUE /\ seqNo = 2
    /\ sent = 0 /\ read = 0 /\ sequence = 0 /\ recvq = <<>>
    /\ expected = 0 /\ buffer = <<>> /\ gotAll = FALSE
    /\ pc = [w \in Workers |-> "idle"] /\ chunk = [w \in Workers |-> NoChunk]
    /\ outcome = [w \in Workers |-> "more"]
    /\ fed = <<>> /\ handled = <<>> /\ overlapped = FALSE

Idle == \A w \in Workers : pc[w] = "idle"

-----------------------------------------------------------------------------
(* The client.                                                             *)
ClientSends ==
    /\ open /\ sent < MaxRequests * Parts
    /\ sent % Parts = 0 => Len(handled) >= sent \div Parts
    /\ sent' = sent + 1
    /\ UNCHANGED <<client, connection, context, workers, ghosts>>

Closed ==           \* by the client, or by a send thread
    /\ open
    /\ open' = FALSE /\ seqNo' = seqNo + 1
    /\ UNCHANGED <<stream, sequence, read, recvq, context, workers, ghosts>>

(* ngx_http_read_request_handler: recv returns what has arrived.           *)
Read ==
    /\ open /\ read < sent
    /\ recvq' = Append(recvq, [seq |-> seqNo, no |-> sequence, from |-> read + 1, to |-> sent])
    /\ sequence' = sequence + 1
    /\ read' = sent
    /\ UNCHANGED <<stream, open, seqNo, context, workers, ghosts>>

-----------------------------------------------------------------------------
(* threadRecvProcFunc.                                                     *)
Goto(w, l) == pc' = [pc EXCEPT ![w] = l]

Take(w) ==
    /\ pc[w] = "idle" /\ recvq # <<>>
    /\ chunk' = [chunk EXCEPT ![w] = Head(recvq)] /\ recvq' = Tail(recvq)
    /\ Goto(w, "check")
    /\ UNCHANGED <<stream, open, seqNo, sequence, read, context, outcome, ghosts>>

IsStale(w) == chunk[w].seq # seqNo

Check(w) ==
    /\ pc[w] = "check"
    /\ Goto(w, IF IsStale(w) THEN "idle" ELSE "wait")
    /\ UNCHANGED <<stream, connection, context, chunk, outcome, ghosts>>

IsTurnAlways(w) == TRUE                                             \* mutant
IsTurn(w) == chunk[w].no = expected

(* Another worker holds the chunk that is expected and will be done with   *)
(* it within the five seconds of wait_for.                                 *)
Coming ==
    \E w \in Workers : /\ pc[w] \in {"check", "wait", "parse", "advance"}
                       /\ chunk[w].seq = seqNo /\ IsTurn(w)

Proceed(w) ==
    /\ pc[w] = "wait" /\ IsTurn(w)
    /\ Goto(w, "parse")
    /\ UNCHANGED <<stream, connection, context, chunk, outcome, ghosts>>

TimeOut(w) ==        \* wait_for gives up, and the result is ignored
    /\ pc[w] = "wait" /\ ~IsTurn(w) /\ ~Coming
    /\ Goto(w, "parse")
    /\ UNCHANGED <<stream, connection, context, chunk, outcome, ghosts>>

InPlace(b) ==
    \A i \in DOMAIN b : i <= Parts => b[i] % Parts = i % Parts /\ Request(b[i]) = Request(b[1])

(* parseRequest: state kGotAll answers without looking; an error resets    *)
(* the context.                                                            *)
Parse(w) ==
    /\ pc[w] = "parse"
    /\ LET bytes == [i \in 1 .. chunk[w].to - chunk[w].from + 1 |-> chunk[w].from + i - 1]
           all == buffer \o bytes
       IN  /\ fed' = IF chunk[w].seq = seqNo THEN fed \o bytes ELSE fed
           /\ \/ /\ gotAll \/ (InPlace(all) /\ Len(all) >= Parts)
                 /\ buffer' = all /\ gotAll' = TRUE
                 /\ outcome' = [outcome EXCEPT ![w] = "all"]
              \/ /\ ~gotAll /\ InPlace(all) /\ Len(all) < Parts
                 /\ buffer' = all /\ gotAll' = FALSE
                 /\ outcome' = [outcome EXCEPT ![w] = "more"]
              \/ /\ ~gotAll /\ (InPlace(all) => Len(all) >= Parts)
                 /\ buffer' = <<>> /\ gotAll' = FALSE
                 /\ outcome' = [outcome EXCEPT ![w] = "error"]
    /\ overlapped' = (overlapped \/ gotAll)
    /\ Goto(w, "advance")
    /\ UNCHANGED <<stream, connection, expected, chunk, handled>>

AdvanceTwice(w) ==                                                  \* mutant
    /\ pc[w] = "advance"
    /\ expected' = expected + IF outcome[w] = "all" THEN 1 ELSE 2
    /\ Goto(w, IF outcome[w] = "more" THEN "idle" ELSE "respond")
    /\ UNCHANGED <<stream, connection, buffer, gotAll, chunk, outcome, ghosts>>
Advance(w) ==
    /\ pc[w] = "advance"
    /\ expected' = expected + 1
    /\ Goto(w, IF outcome[w] = "more" THEN "idle" ELSE "respond")
    /\ UNCHANGED <<stream, connection, buffer, gotAll, chunk, outcome, ghosts>>

(* onRequest reads the request from the context, or a 400 is queued.       *)
Respond(w) ==
    /\ pc[w] = "respond"
    /\ LET r == IF outcome[w] = "all" /\ buffer # <<>> THEN Request(buffer[1])
                ELSE Request(chunk[w].to)
       IN  handled' = IF chunk[w].seq = seqNo THEN Append(handled, r) ELSE handled
    /\ Goto(w, IF outcome[w] = "all" THEN "reset" ELSE "idle")
    /\ UNCHANGED <<stream, connection, context, chunk, outcome, fed, overlapped>>

Reset(w) ==
    /\ pc[w] = "reset"
    /\ buffer' = <<>> /\ gotAll' = FALSE
    /\ Goto(w, "idle")
    /\ UNCHANGED <<stream, connection, expected, chunk, outcome, ghosts>>

-----------------------------------------------------------------------------
(* The object passes to the next client when nothing refers to it (see     *)
(* ConnPool).  GetOneToUse starts the numbers of pConn->sequence again but *)
(* HttpContext::reset leaves the number the context expects.               *)
Reuse ==
    /\ ~open /\ client < MaxClients /\ Idle
    /\ client' = client + 1 /\ open' = TRUE /\ seqNo' = seqNo + 2
    /\ sent' = 0 /\ read' = 0 /\ sequence' = 0
    /\ buffer' = <<>> /\ gotAll' = FALSE
    /\ fed' = <<>> /\ handled' = <<>> /\ overlapped' = FALSE
    /\ UNCHANGED <<recvq, expected, workers>>

WorkerStep(w) ==
    \/ Take(w) \/ Check(w) \/ Proceed(w) \/ TimeOut(w) \/ Parse(w) \/ Advance(w)
    \/ Respond(w) \/ Reset(w)

Next == ClientSends \/ Closed \/ Read \/ Reuse \/ \E w \in Workers : WorkerStep(w)

Spec == Init /\ [][Next]_vars

-----------------------------------------------------------------------------
Position == 1 .. MaxRequests * Parts

TypeOK ==
    /\ client \in 1 .. MaxClients /\ open \in BOOLEAN /\ seqNo \in Nat
    /\ sent \in 0 .. MaxRequests * Parts /\ read \in 0 .. sent
    /\ sequence \in Nat /\ expected \in Nat /\ gotAll \in BOOLEAN
    /\ overlapped \in BOOLEAN
    /\ buffer \in Seq(Position) /\ fed \in Seq(Position) /\ handled \in Seq(1 .. MaxRequests)
    /\ pc \in [Workers -> {"idle", "check", "wait", "parse", "advance", "respond", "reset"}]
    /\ outcome \in [Workers -> {"more", "all", "error"}]
    /\ \A m \in Range(recvq) \cup Range(chunk) :
          m.seq \in 0 .. seqNo /\ m.no \in Nat /\ m.to \in 0 .. MaxRequests * Parts

Ordered(s) == \A i \in DOMAIN s : s[i] = i

(* However the chunks of a client are spread over the threads, the parser  *)
(* is given its bytes in order, none missing and none twice.               *)
ReassemblesEver == Ordered(fed)

(* So it is for the first client of an object.                             *)
Reassembles == client = 1 => ReassemblesEver

(* my_socket.h:187 says that the numbers put the pieces of the stream      *)
(* together under several threads: the requests of the first client are    *)
(* handled once each and in the order in which it sent them.               *)
HandledInTurn == client = 1 => \A i \in DOMAIN handled : handled[i] = i

(* A thread waits for its turn only while another one is about to make it  *)
(* come: none waits for a chunk that nobody has in hand.                   *)
WaitsForAnother ==
    client = 1 => \A w \in Workers : pc[w] = "wait" /\ chunk[w].seq = seqNo => Coming
=============================================================================
