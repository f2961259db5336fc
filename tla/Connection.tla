------------------------------ MODULE Connection ------------------------------
(***************************************************************************)
(* One connection from end to end: the receive path and the send path of   *)
(* one connection object, put together.  They meet in onRequest, where the *)
(* worker that has assembled a request queues its response; in the epoll   *)
(* thread, which reads only what the mask that the send path leaves lets   *)
(* through, and not while it is in the write handler; and in the closing   *)
(* of the connection, by whichever side.  The object is new: what an       *)
(* earlier client leaves behind is in the runs of RecvPath and SendPath.   *)
(* The client waits for a response before it asks again, and for nothing   *)
(* else: its next request may come before Reset.                           *)
(***************************************************************************)
EXTENDS Integers, Sequences, FiniteSets

CONSTANTS
    Workers, Senders,
    Parts, RespLen, SockRoom, QueueLimit, SendLimit,
    MaxRequests,     \* bound: requests of the client
    CanFail          \* whether send may fail and clients may leave

VARIABLES
    open, seqNo,                               \* both paths'
    sent, read, sequence, recvq, expected, buffer, gotAll, pc, chunk, outcome, fed,
    answered, overlapped,                      \* answered is RecvPath's handled
    psendbuf, sendCount, iSendCount, httpClose, events, mask, room, wire, sendq, sem,
    wpc, job, spc, cur, epc

Recv == INSTANCE RecvPath WITH handled <- answered, client <- 1, MaxClients <- 1
Send == INSTANCE SendPath WITH asked <- sent \div Parts, handled <- Len(answered),
                               client <- 1, MaxClients <- 1,
                               signals <- 0, MaxSignals <- 0, Pipelined <- FALSE

ASSUME ConnectionAssumption == Recv!RecvAssumption /\ Send!SendAssumption

recvOnly == <<sent, read, sequence, recvq, expected, buffer, gotAll, pc, chunk, outcome,
              fed, answered, overlapped>>
sendOnly == <<psendbuf, sendCount, iSendCount, httpClose, events, mask, room, wire, sendq,
              sem, wpc, job, spc, cur, epc>>
vars == <<open, seqNo, recvOnly, sendOnly>>

Init == Recv!Init /\ Send!Init

-----------------------------------------------------------------------------
(* A client with a response in its hands asks for more.                    *)
ClientSends ==
    /\ sent % Parts = 0 => Send!Answered
    /\ Recv!ClientSends
    /\ UNCHANGED sendOnly

(* The epoll thread reads what the kernel's mask lets it see.              *)
Read ==
    /\ "IN" \in mask /\ epc = "idle"
    /\ Recv!Read
    /\ UNCHANGED sendOnly

(* threadRecvProcFunc up to the call of onRequest.                         *)
Assemble(w) ==
    /\ wpc[w] = "idle"
    /\ \/ Recv!Take(w) \/ Recv!Check(w) \/ Recv!Proceed(w) \/ Recv!TimeOut(w)
       \/ Recv!Parse(w) \/ Recv!Advance(w)
    /\ UNCHANGED sendOnly

(* The request that is in the context now is answered.                     *)
Answers(w) == IF outcome[w] = "all" /\ buffer # <<>> THEN Recv!Request(buffer[1])
              ELSE Recv!Request(chunk[w].to)
Respond(w) ==
    /\ Recv!Respond(w)
    /\ Send!Answer(w, Answers(w), outcome[w] = "error")

(* context_->reset() after msgSend has returned.                           *)
Reset(w) ==
    /\ wpc[w] = "idle"
    /\ Recv!Reset(w)
    /\ UNCHANGED sendOnly

(* What the send path does on its own, closing the connection included.    *)
MsgSend(w) ==
    /\ UNCHANGED recvOnly
    /\ \/ Send!MsgSendDrops(w) \/ Send!MsgSendCuts(w) \/ Send!MsgSendStamps(w)
       \/ Send!Enqueue(w) \/ Send!Post(w)
SendStep(s) == UNCHANGED recvOnly /\ Send!SenderStep(s)
WriteStep == UNCHANGED recvOnly /\ Send!WriteStep
ClientReads == UNCHANGED recvOnly /\ Send!ClientReads
ClientLeaves == UNCHANGED recvOnly /\ Send!ClientLeaves

WorkerStep(w) == Assemble(w) \/ Respond(w) \/ MsgSend(w) \/ Reset(w)

Next ==
    \/ ClientSends \/ ClientReads \/ ClientLeaves \/ Read \/ WriteStep
    \/ \E w \in Workers : WorkerStep(w)
    \/ \E s \in Senders : SendStep(s)

Spec == Init /\ [][Next]_vars

(* Every thread runs, and the client reads what it got.                    *)
FairSpec ==
    /\ Spec
    /\ WF_vars(ClientReads) /\ WF_vars(Read) /\ WF_vars(WriteStep)
    /\ \A w \in Workers : WF_vars(WorkerStep(w))
    /\ \A s \in Senders : WF_vars(SendStep(s))

-----------------------------------------------------------------------------
(* my_slogic.cpp, my_socket.cpp: what a client gets is the answers to its  *)
(* requests, one each, complete and in the order in which it asked,        *)
(* however the requests were cut and whoever assembled, answered and sent  *)
(* them - until a chunk of a quick client is parsed before the reset of    *)
(* the request before it (HandledInTurn: the code handles that request     *)
(* again).                                                                 *)
AnswersInOrder == ~overlapped => Send!WireInOrder

(* my_socket.h:187, with the response that lets the client go on: see      *)
(* RecvPath.                                                               *)
HandledInTurn == Recv!HandledInTurn

(* my_slogic.cpp: the parser is given the bytes of the client in order.    *)
Reassembles == Recv!Reassembles

(* my_slogic.cpp: who waits for its turn waits for one that will come.     *)
WaitsForAnother == Recv!WaitsForAnother

(* my_slogic.cpp, my_socket.cpp: again and again, for every request that   *)
(* has been read a response has been sent in full, or the connection has   *)
(* ended.                                                                  *)
EventuallyAnswered == []<>(Len(wire[1]) >= (read \div Parts) * RespLen \/ ~open)
=============================================================================
