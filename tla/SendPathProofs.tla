---------------------------- MODULE SendPathProofs ----------------------------
(***************************************************************************)
(* Proofs about SendPath for every number of senders, workers, clients and *)
(* requests, every length of a response and every limit.                   *)
(***************************************************************************)
EXTENDS SendPath, FiniteSetTheorems, TLAPS

Units == Clients \X (1 .. MaxRequests) \X (1 .. RespLen)
WorkerPoints == {"idle", "msgSend", "enqueue", "post"}
SenderPoints == {"wait", "take", "send", "sent", "save", "arm", "crashed"}

(* The parts of TypeOK, as the groups of variables that steps leave alone. *)
ConnOK ==
    /\ client \in Clients /\ iSendCount \in Nat /\ httpClose \in BOOLEAN
    /\ asked \in 0 .. MaxRequests /\ handled \in 0 .. asked
StatusOK ==
    open \in BOOLEAN /\ mask \subseteq {"IN", "OUT"} /\ seqNo \in Nat
SocketOK == room \in 0 .. SockRoom /\ wire \in [Clients -> Seq(Units)]
BufferOK == psendbuf \in Seq(Units) /\ sendCount \in Nat
EventsOK == events \subseteq {"IN", "OUT"}
QueueOK == sendq \in Seq(Message) /\ sem \in Nat /\ signals \in 0 .. MaxSignals
WorkersOK == wpc \in [Workers -> WorkerPoints] /\ job \in [Workers -> Message]
SendersOK == spc \in [Senders -> SenderPoints] /\ cur \in [Senders -> Message]
EpollOK == epc \in {"idle", "write", "disarm", "finish"}

LEMMA TypeParts ==
    /\ TypeOK <=> /\ ConnOK /\ StatusOK /\ SocketOK /\ BufferOK /\ EventsOK /\ QueueOK
                  /\ WorkersOK /\ SendersOK /\ EpollOK
    /\ TypeOK' <=> /\ ConnOK' /\ StatusOK' /\ SocketOK' /\ BufferOK' /\ EventsOK' /\ QueueOK'
                   /\ WorkersOK' /\ SendersOK' /\ EpollOK'
BY DEF TypeOK, ConnOK, StatusOK, SocketOK, BufferOK, EventsOK, QueueOK, WorkersOK,
       SendersOK, EpollOK, Units, WorkerPoints, SenderPoints

(* What a step leaves alone keeps its type.                                *)
LEMMA SameType ==
    /\ UNCHANGED conn /\ ConnOK => ConnOK'
    /\ UNCHANGED status /\ StatusOK => StatusOK'
    /\ UNCHANGED socket /\ SocketOK => SocketOK'
    /\ UNCHANGED buffer /\ BufferOK => BufferOK'
    /\ UNCHANGED events /\ EventsOK => EventsOK'
    /\ UNCHANGED queue /\ QueueOK => QueueOK'
    /\ UNCHANGED workers /\ WorkersOK => WorkersOK'
    /\ UNCHANGED senders /\ SendersOK => SendersOK'
    /\ UNCHANGED epc /\ EpollOK => EpollOK'
BY DEF conn, status, socket, buffer, queue, workers, senders, ConnOK, StatusOK, SocketOK,
       BufferOK, EventsOK, QueueOK, WorkersOK, SendersOK, EpollOK

(* Message is a set of records: what its fields are.                       *)
LEMMA MessageFields ==
    /\ NoMessage \in Message
    /\ \A m \in Message : m.data \in Seq(Units) /\ m.seq \in Nat /\ m.bad \in BOOLEAN
    /\ \A m \in Message, d \in Seq(Units) : [m EXCEPT !.data = d] \in Message
    /\ \A m \in Message, q \in Nat : [m EXCEPT !.seq = q] \in Message
    /\ \A d \in Seq(Units), b \in BOOLEAN, c \in BOOLEAN :
          [data |-> d, seq |-> 0, bad |-> b, close |-> c] \in Message
<1> DEFINE U == Units
<1>0. Message = [data : Seq(U), seq : Nat, bad : BOOLEAN, close : BOOLEAN]
  BY DEF Message, Units
<1> HIDE DEF U
<1>1. NoMessage \in Message
  BY <1>0 DEF NoMessage
<1>2. \A m \in Message : m.data \in Seq(U) /\ m.seq \in Nat /\ m.bad \in BOOLEAN
  BY <1>0
<1>3. \A m \in Message, d \in Seq(U) : [m EXCEPT !.data = d] \in Message
  BY <1>0
<1>4. \A m \in Message, q \in Nat : [m EXCEPT !.seq = q] \in Message
  BY <1>0
<1>5. \A d \in Seq(U), b \in BOOLEAN, c \in BOOLEAN :
          [data |-> d, seq |-> 0, bad |-> b, close |-> c] \in Message
  BY <1>0
<1> QED BY <1>1, <1>2, <1>3, <1>4, <1>5 DEF U

LEMMA ResponseIsUnits ==
    ASSUME NEW k \in Clients, NEW n \in 1 .. MaxRequests
    PROVE  /\ Response(k, n) \in Seq(Units)
           /\ Len(Response(k, n)) = RespLen
<1>1. RespLen \in Nat
  BY SendAssumption DEF SendAssumption
<1>2. \A i \in 1 .. RespLen : <<k, n, i>> \in Units
  BY DEF Units
<1> QED BY <1>1, <1>2 DEF Response

LEMMA CloseType ==
    ASSUME StatusOK, Close
    PROVE  StatusOK'
<1>1. open' \in BOOLEAN /\ mask' \subseteq {"IN", "OUT"}
  BY DEF Close
<1>2. seqNo' \in Nat
  BY DEF Close, StatusOK
<1> QED BY <1>1, <1>2, Zenon DEF StatusOK

LEMMA ModifyType ==
    ASSUME StatusOK, EventsOK, NEW evs \in SUBSET {"IN", "OUT"}, Modify(evs),
           UNCHANGED <<open, seqNo>>
    PROVE  StatusOK' /\ EventsOK'
BY DEF StatusOK, EventsOK, Modify

LEMMA WriteType ==
    ASSUME ConnOK, SocketOK, NEW data \in Seq(Units), NEW n \in Nat, Write(data, n)
    PROVE  /\ SocketOK' /\ n \in 1 .. Len(data)
           /\ SubSeq(data, n + 1, Len(data)) \in Seq(Units)
           /\ Len(SubSeq(data, n + 1, Len(data))) = Len(data) - n
<1> DEFINE U == Units
<1>0. SockRoom \in Nat
  BY SendAssumption DEF SendAssumption
<1>1. n \in 1 .. Len(data) /\ n <= room /\ room' = room - n
  BY DEF Write
<1>2. wire' = [wire EXCEPT ![client] = wire[client] \o SubSeq(data, 1, n)]
  BY DEF Write
<1>3. data \in Seq(U) /\ client \in Clients /\ wire \in [Clients -> Seq(U)]
  BY DEF ConnOK, SocketOK
<1> HIDE DEF U
<1>4. /\ SubSeq(data, 1, n) \in Seq(U) /\ SubSeq(data, n + 1, Len(data)) \in Seq(U)
      /\ Len(SubSeq(data, n + 1, Len(data))) = Len(data) - n
  BY <1>1, <1>3
<1>5. wire[client] \o SubSeq(data, 1, n) \in Seq(U)
  BY <1>3, <1>4
<1>6. wire' \in [Clients -> Seq(U)]
  BY <1>2, <1>3, <1>5
<1>7. room' \in 0 .. SockRoom
  BY <1>0, <1>1 DEF SocketOK
<1> QED BY <1>1, <1>4, <1>6, <1>7 DEF SocketOK, U

LEMMA InitType == Init => TypeOK
<1> SUFFICES ASSUME Init PROVE TypeOK
  OBVIOUS
<1> USE SendAssumption DEF SendAssumption, Init
<1>1. ConnOK /\ EventsOK /\ EpollOK
  BY DEF ConnOK, EventsOK, EpollOK, Clients
<1>2. StatusOK
  BY DEF StatusOK
<1>3. <<>> \in Seq(Units) /\ <<>> \in Seq(Message)
  OBVIOUS
<1>4. SocketOK /\ BufferOK /\ QueueOK
  BY <1>3 DEF SocketOK, BufferOK, QueueOK
<1>5. WorkersOK /\ SendersOK
  BY MessageFields DEF WorkersOK, SendersOK, WorkerPoints, SenderPoints
<1> QED BY <1>1, <1>2, <1>4, <1>5, TypeParts

(* Steps that neither the client nor the buffers take part in: a program   *)
(* counter moves, and the message in hand is exchanged or kept.            *)
LEMMA SenderMoves ==
    ASSUME SendersOK, NEW s \in Senders, NEW to \in SenderPoints, NEW m \in Message,
           spc' = [spc EXCEPT ![s] = to],
           UNCHANGED cur \/ cur' = [cur EXCEPT ![s] = m]
    PROVE  SendersOK'
BY DEF SendersOK

LEMMA WorkerMoves ==
    ASSUME WorkersOK, NEW w \in Workers, NEW to \in WorkerPoints, NEW m \in Message,
           wpc' = [wpc EXCEPT ![w] = to],
           UNCHANGED job \/ job' = [job EXCEPT ![w] = m]
    PROVE  WorkersOK'
BY DEF WorkersOK

LEMMA ClientType ==
    ASSUME TypeOK, ClientStep
    PROVE  TypeOK'
<1> USE TypeParts
<1>1. CASE ClientAsks
  <2>1. /\ asked' = asked + 1 /\ asked < MaxRequests
        /\ UNCHANGED <<client, iSendCount, httpClose, handled, status, socket, buffer, events,
                       queue, workers, senders, epc>>
    BY <1>1 DEF ClientAsks
  <2>2. ConnOK'
    BY <2>1, SendAssumption DEF ConnOK, SendAssumption
  <2> QED BY <2>1, <2>2, SameType
<1>2. CASE ClientReads
  <2>1. /\ room' = SockRoom
        /\ UNCHANGED <<conn, status, wire, buffer, events, queue, workers, senders, epc>>
    BY <1>2 DEF ClientReads
  <2>2. SocketOK'
    BY <2>1, SendAssumption DEF SocketOK, SendAssumption
  <2> QED BY <2>1, <2>2, SameType
<1>3. CASE ClientLeaves
  <2>1. /\ Close
        /\ UNCHANGED <<conn, socket, buffer, events, queue, workers, senders, epc>>
    BY <1>3 DEF ClientLeaves
  <2>2. StatusOK'
    BY <2>1, CloseType
  <2> QED BY <2>1, <2>2, SameType
<1> QED BY <1>1, <1>2, <1>3 DEF ClientStep

LEMMA WorkerType ==
    ASSUME TypeOK, NEW w \in Workers, WorkerStep(w)
    PROVE  TypeOK'
<1> USE TypeParts
<1>0. NoMessage \in Message
  BY MessageFields
<1>1. CASE TakeRequest(w)
  <2>1. /\ handled < asked /\ handled' = handled + 1 /\ UNCHANGED asked
    BY <1>1 DEF TakeRequest, HasRequest
  <2>2. PICK bad \in BOOLEAN : Answer(w, handled + 1, bad)
    BY <1>1 DEF TakeRequest
  <2>3. PICK close \in BOOLEAN :
          /\ httpClose' \in {httpClose, close}
          /\ job' = [job EXCEPT ![w] = [data |-> Response(client, handled + 1), seq |-> 0,
                                       bad |-> bad, close |-> close]]
    BY <2>2 DEF Answer
  <2>4. /\ wpc' = [wpc EXCEPT ![w] = "msgSend"]
        /\ UNCHANGED <<client, iSendCount, status, socket, buffer, events, queue, senders, epc>>
    BY <2>2 DEF Answer
  <2> DEFINE r == handled + 1
             m == [data |-> Response(client, r), seq |-> 0, bad |-> bad, close |-> close]
  <2>5. ConnOK'
    <3>1. asked' \in 0 .. MaxRequests /\ handled' \in 0 .. asked'
      BY <2>1, SendAssumption DEF ConnOK, SendAssumption
    <3>2. httpClose' \in BOOLEAN
      BY <2>3 DEF ConnOK
    <3> QED BY <2>4, <3>1, <3>2 DEF ConnOK, Clients
  <2>6. r \in 1 .. MaxRequests /\ client \in Clients
    BY <2>1, SendAssumption DEF ConnOK, SendAssumption
  <2>7. Response(client, r) \in Seq(Units)
    BY <2>6, ResponseIsUnits
  <2>8. m \in Message
    BY <2>7, MessageFields
  <2>9. job' = [job EXCEPT ![w] = m]
    BY <2>3
  <2> HIDE DEF m
  <2>10. WorkersOK'
    BY <2>4, <2>8, <2>9, WorkerMoves DEF WorkerPoints
  <2> QED BY <2>4, <2>5, <2>10, SameType
<1>2. CASE MsgSendDrops(w)
  <2>1. /\ wpc' = [wpc EXCEPT ![w] = "idle"]
        /\ UNCHANGED <<conn, status, socket, buffer, events, queue, job, senders, epc>>
    BY <1>2 DEF MsgSendDrops
  <2>2. WorkersOK'
    BY <1>0, <2>1, WorkerMoves DEF WorkerPoints
  <2> QED BY <2>1, <2>2, SameType
<1>3. CASE MsgSendCuts(w)
  <2>1. /\ wpc' = [wpc EXCEPT ![w] = "idle"] /\ Close
        /\ UNCHANGED <<conn, socket, buffer, events, queue, job, senders, epc>>
    BY <1>3 DEF MsgSendCuts
  <2>2. WorkersOK'
    BY <1>0, <2>1, WorkerMoves DEF WorkerPoints
  <2>3. StatusOK'
    BY <2>1, CloseType
  <2> QED BY <2>1, <2>2, <2>3, SameType
<1>4. CASE MsgSendStamps(w)
  <2> DEFINE m == [job[w] EXCEPT !.seq = seqNo]
  <2>1. /\ wpc' = [wpc EXCEPT ![w] = "enqueue"] /\ job' = [job EXCEPT ![w] = m]
        /\ iSendCount' = iSendCount + 1
        /\ UNCHANGED <<client, httpClose, asked, handled, status, socket, buffer, events,
                       queue, senders, epc>>
    BY <1>4 DEF MsgSendStamps
  <2>2. m \in Message
    BY MessageFields DEF WorkersOK, StatusOK
  <2> HIDE DEF m
  <2>3. WorkersOK'
    BY <2>1, <2>2, WorkerMoves DEF WorkerPoints
  <2>4. ConnOK'
    BY <2>1 DEF ConnOK, Clients
  <2> QED BY <2>1, <2>3, <2>4, SameType
<1>5. CASE Enqueue(w)
  <2>1. /\ wpc' = [wpc EXCEPT ![w] = "post"] /\ sendq' = Append(sendq, job[w])
        /\ UNCHANGED <<conn, status, socket, buffer, events, sem, signals, job, senders, epc>>
    BY <1>5 DEF Enqueue
  <2>2. WorkersOK'
    BY <1>0, <2>1, WorkerMoves DEF WorkerPoints
  <2>3. QueueOK'
    BY <2>1 DEF QueueOK, WorkersOK
  <2> QED BY <2>1, <2>2, <2>3, SameType
<1>6. CASE Post(w)
  <2>1. /\ wpc' = [wpc EXCEPT ![w] = "idle"] /\ sem' = sem + 1
        /\ UNCHANGED <<conn, status, socket, buffer, events, sendq, signals, job, senders, epc>>
    BY <1>6 DEF Post
  <2>2. WorkersOK'
    BY <1>0, <2>1, WorkerMoves DEF WorkerPoints
  <2>3. QueueOK'
    BY <2>1 DEF QueueOK
  <2> QED BY <2>1, <2>2, <2>3, SameType
<1> QED BY <1>1, <1>2, <1>3, <1>4, <1>5, <1>6 DEF WorkerStep

LEMMA SenderType ==
    ASSUME TypeOK, NEW s \in Senders, SenderStep(s) \/ Interrupted(s)
    PROVE  TypeOK'
<1> USE TypeParts
<1>0. /\ NoMessage \in Message /\ cur[s] \in Message /\ cur[s].data \in Seq(Units)
      /\ cur[s].seq \in Nat
  BY MessageFields DEF SendersOK
<1>1. CASE SemWait(s)
  <2>1. /\ spc' = [spc EXCEPT ![s] = "take"] /\ sem' = sem - 1 /\ sem > 0
        /\ UNCHANGED <<conn, status, socket, buffer, events, sendq, signals, workers, cur, epc>>
    BY <1>1 DEF SemWait
  <2>2. SendersOK'
    BY <1>0, <2>1, SenderMoves DEF SenderPoints
  <2>3. QueueOK'
    BY <2>1 DEF QueueOK
  <2> QED BY <2>1, <2>2, <2>3, SameType
<1>2. CASE Interrupted(s)
  <2>1. /\ spc' = [spc EXCEPT ![s] = "take"] /\ signals' = signals + 1 /\ signals < MaxSignals
        /\ UNCHANGED <<conn, status, socket, buffer, events, sendq, sem, workers, cur, epc>>
    BY <1>2 DEF Interrupted
  <2>2. SendersOK'
    BY <1>0, <2>1, SenderMoves DEF SenderPoints
  <2>3. QueueOK'
    BY <2>1, SendAssumption DEF QueueOK, SendAssumption
  <2> QED BY <2>1, <2>2, <2>3, SameType
<1>3. CASE TakeNothing(s)
  <2>1. /\ spc' = [spc EXCEPT ![s] = "crashed"]
        /\ UNCHANGED <<conn, status, socket, buffer, events, queue, workers, cur, epc>>
    BY <1>3 DEF TakeNothing
  <2>2. SendersOK'
    BY <1>0, <2>1, SenderMoves DEF SenderPoints
  <2> QED BY <2>1, <2>2, SameType
<1>4. CASE Take(s)
  <2> DEFINE m == Head(sendq)
  <2>1. /\ sendq # <<>> /\ sendq' = Tail(sendq)
        /\ UNCHANGED <<conn, status, socket, buffer, events, sem, signals, workers, epc>>
        /\ \/ cur' = [cur EXCEPT ![s] = m] /\ spc' = [spc EXCEPT ![s] = "send"]
           \/ UNCHANGED cur /\ spc' = [spc EXCEPT ![s] = "wait"]
    BY <1>4 DEF Take
  <2>2. m \in Message /\ Tail(sendq) \in Seq(Message)
    BY <2>1 DEF QueueOK
  <2> HIDE DEF m
  <2>3. SendersOK'
    BY <2>1, <2>2, SenderMoves DEF SenderPoints
  <2>4. QueueOK'
    BY <2>1, <2>2 DEF QueueOK
  <2> QED BY <2>1, <2>3, <2>4, SameType
<1>5. CASE Send(s)
  <2>1. /\ UNCHANGED <<conn, status, buffer, events, queue, workers, epc>>
        /\ \E n \in 1 .. RespLen :
              /\ Write(cur[s].data, n)
              /\ cur' = [cur EXCEPT ![s] =
                            [cur[s] EXCEPT !.data = SubSeq(cur[s].data, n + 1, Len(cur[s].data))]]
              /\ spc' = [spc EXCEPT ![s] = IF n = Len(cur[s].data) THEN "sent" ELSE "save"]
    BY <1>5 DEF Send
  <2>2. PICK n \in 1 .. RespLen :
              /\ Write(cur[s].data, n)
              /\ cur' = [cur EXCEPT ![s] =
                            [cur[s] EXCEPT !.data = SubSeq(cur[s].data, n + 1, Len(cur[s].data))]]
              /\ spc' = [spc EXCEPT ![s] = IF n = Len(cur[s].data) THEN "sent" ELSE "save"]
    BY <2>1
  <2>3. SocketOK' /\ SubSeq(cur[s].data, n + 1, Len(cur[s].data)) \in Seq(Units)
    BY <1>0, <2>2, WriteType
  <2> DEFINE m == [cur[s] EXCEPT !.data = SubSeq(cur[s].data, n + 1, Len(cur[s].data))]
             to == IF n = Len(cur[s].data) THEN "sent" ELSE "save"
  <2>4. m \in Message /\ to \in SenderPoints
    BY <1>0, <2>3, MessageFields DEF SenderPoints
  <2>5. spc' = [spc EXCEPT ![s] = to] /\ cur' = [cur EXCEPT ![s] = m]
    BY <2>2
  <2> HIDE DEF m, to
  <2>6. SendersOK'
    BY <2>4, <2>5, SenderMoves
  <2> QED BY <2>1, <2>3, <2>6, SameType
<1>6. CASE SendBlocked(s)
  <2>1. /\ spc' = [spc EXCEPT ![s] = "save"]
        /\ UNCHANGED <<conn, status, socket, buffer, events, queue, workers, cur, epc>>
    BY <1>6 DEF SendBlocked
  <2>2. SendersOK'
    BY <1>0, <2>1, SenderMoves DEF SenderPoints
  <2> QED BY <2>1, <2>2, SameType
<1>7. CASE SendFails(s)
  <2>1. /\ psendbuf' = <<>> /\ UNCHANGED sendCount /\ Close
        /\ cur' = [cur EXCEPT ![s] = NoMessage] /\ spc' = [spc EXCEPT ![s] = "wait"]
        /\ UNCHANGED <<conn, socket, events, queue, workers, epc>>
    BY <1>7 DEF SendFails
  <2>2. SendersOK' /\ StatusOK'
    BY <1>0, <2>1, SenderMoves, CloseType DEF SenderPoints
  <2>3. BufferOK'
    BY <2>1 DEF BufferOK
  <2> QED BY <2>1, <2>2, <2>3, SameType
<1>8. CASE Finished(s)
  <2>1. /\ Close \/ UNCHANGED status
        /\ cur' = [cur EXCEPT ![s] = NoMessage] /\ spc' = [spc EXCEPT ![s] = "wait"]
        /\ UNCHANGED <<conn, socket, buffer, events, queue, workers, epc>>
    BY <1>8 DEF Finished, Close
  <2>2. SendersOK' /\ StatusOK'
    BY <1>0, <2>1, SenderMoves, CloseType, SameType DEF SenderPoints
  <2> QED BY <2>1, <2>2, SameType
<1>9. CASE Save(s)
  <2>1. /\ psendbuf' = psendbuf \o cur[s].data /\ sendCount' = cur[s].seq
        /\ spc' = [spc EXCEPT ![s] = "arm"]
        /\ UNCHANGED <<conn, status, socket, events, queue, workers, cur, epc>>
    BY <1>9 DEF Save
  <2>2. SendersOK'
    BY <1>0, <2>1, SenderMoves DEF SenderPoints
  <2>3. BufferOK'
    BY <1>0, <2>1 DEF BufferOK
  <2> QED BY <2>1, <2>2, <2>3, SameType
<1>10. CASE Arm(s)
  <2>1. /\ Modify(events \cup {"OUT"})
        /\ cur' = [cur EXCEPT ![s] = NoMessage] /\ spc' = [spc EXCEPT ![s] = "wait"]
        /\ UNCHANGED <<open, seqNo>>
        /\ UNCHANGED <<conn, socket, buffer, queue, workers, epc>>
    BY <1>10 DEF Arm
  <2>2. events \cup {"OUT"} \in SUBSET {"IN", "OUT"}
    BY DEF EventsOK
  <2>3. SendersOK' /\ StatusOK' /\ EventsOK'
    BY <1>0, <2>1, <2>2, SenderMoves, ModifyType DEF SenderPoints
  <2> QED BY <2>1, <2>3, SameType
<1> QED BY <1>1, <1>2, <1>3, <1>4, <1>5, <1>6, <1>7, <1>8, <1>9, <1>10 DEF SenderStep

LEMMA EpollType ==
    ASSUME TypeOK, WriteStep
    PROVE  TypeOK'
<1> USE TypeParts
<1>1. CASE WriteEvent
  <2>1. /\ epc' = "write"
        /\ UNCHANGED <<conn, status, socket, buffer, events, queue, workers, senders>>
    BY <1>1 DEF WriteEvent
  <2>2. EpollOK'
    BY <2>1 DEF EpollOK
  <2> QED BY <2>1, <2>2, SameType
<1>2. CASE WriteOut
  <2>1. PICK n \in 1 .. Len(psendbuf) :
          /\ Write(psendbuf, n)
          /\ psendbuf' = SubSeq(psendbuf, n + 1, Len(psendbuf))
          /\ epc' = IF n = Len(psendbuf) THEN "disarm" ELSE "write"
    BY <1>2 DEF WriteOut
  <2>2. UNCHANGED <<conn, status, sendCount, events, queue, workers, senders>>
    BY <1>2 DEF WriteOut
  <2>3. psendbuf \in Seq(Units) /\ n \in Nat
    BY DEF BufferOK
  <2>4. SocketOK' /\ SubSeq(psendbuf, n + 1, Len(psendbuf)) \in Seq(Units)
    BY <2>1, <2>3, WriteType
  <2>5. BufferOK' /\ EpollOK'
    BY <2>1, <2>2, <2>4 DEF BufferOK, EpollOK
  <2> QED BY <2>2, <2>4, <2>5, SameType
<1>3. CASE WriteBlocked
  <2>1. /\ Modify(events \cup {"OUT"}) /\ UNCHANGED <<open, seqNo>>
        /\ epc' = "idle" /\ UNCHANGED <<conn, socket, buffer, queue, workers, senders>>
    BY <1>3 DEF WriteBlocked
  <2>2. events \cup {"OUT"} \in SUBSET {"IN", "OUT"}
    BY DEF EventsOK
  <2>3. EpollOK' /\ StatusOK' /\ EventsOK'
    BY <2>1, <2>2, ModifyType DEF EpollOK
  <2> QED BY <2>1, <2>3, SameType
<1>4. CASE WriteFails
  <2>1. /\ Close /\ epc' = "idle"
        /\ UNCHANGED <<conn, socket, buffer, events, queue, workers, senders>>
    BY <1>4 DEF WriteFails
  <2>2. EpollOK' /\ StatusOK'
    BY <2>1, CloseType DEF EpollOK
  <2> QED BY <2>1, <2>2, SameType
<1>5. CASE Disarm
  <2>1. /\ Modify(events \ {"OUT"}) /\ UNCHANGED <<open, seqNo>>
        /\ epc' = "finish" /\ UNCHANGED <<conn, socket, buffer, queue, workers, senders>>
    BY <1>5 DEF Disarm
  <2>2. events \ {"OUT"} \in SUBSET {"IN", "OUT"}
    BY DEF EventsOK
  <2>3. EpollOK' /\ StatusOK' /\ EventsOK'
    BY <2>1, <2>2, ModifyType DEF EpollOK
  <2> QED BY <2>1, <2>3, SameType
<1>6. CASE WriteFinished
  <2>1. /\ Close \/ UNCHANGED status
        /\ epc' = "idle" /\ UNCHANGED <<conn, socket, buffer, events, queue, workers, senders>>
    BY <1>6 DEF WriteFinished
  <2>2. EpollOK' /\ StatusOK'
    BY <2>1, CloseType, SameType DEF EpollOK
  <2> QED BY <2>1, <2>2, SameType
<1> QED BY <1>1, <1>2, <1>3, <1>4, <1>5, <1>6 DEF WriteStep

LEMMA ReuseType ==
    ASSUME TypeOK, Reuse
    PROVE  TypeOK'
<1> USE TypeParts
<1>1. /\ client < MaxClients /\ client' = client + 1 /\ seqNo' = seqNo + 2
      /\ iSendCount' = 0 /\ httpClose' = TRUE /\ open' = TRUE /\ mask' = {"IN"}
      /\ room' = SockRoom /\ asked' = 0 /\ handled' = 0
      /\ UNCHANGED <<wire, buffer, events, queue, workers, senders, epc>>
  BY DEF Reuse
<1>2. ConnOK'
  BY <1>1, SendAssumption DEF ConnOK, SendAssumption, Clients
<1>3. StatusOK'
  <2>1. seqNo' \in Nat
    BY <1>1 DEF StatusOK
  <2>2. open' \in BOOLEAN /\ mask' \subseteq {"IN", "OUT"}
    BY <1>1
  <2> QED BY <2>1, <2>2, Zenon DEF StatusOK
<1>4. SocketOK'
  BY <1>1, SendAssumption DEF SocketOK, SendAssumption, Clients
<1> QED BY <1>1, <1>2, <1>3, <1>4, SameType

LEMMA NextType ==
    ASSUME TypeOK, [Next]_vars
    PROVE  TypeOK'
<1>1. CASE UNCHANGED vars
  BY <1>1, TypeParts, SameType DEF vars
<1>2. CASE Next
  BY <1>2, ClientType, WorkerType, SenderType, EpollType, ReuseType DEF Next
<1> QED BY <1>1, <1>2

(* Every variable keeps its type, whatever the threads and the kernel do.  *)
THEOREM SendTypes == Spec => []TypeOK
<1>1. TypeOK /\ [Next]_vars => TypeOK'
  BY NextType
<1> QED BY InitType, <1>1, PTL DEF Spec

-----------------------------------------------------------------------------
(* The tickets for sendq: who may take a message without asking again.     *)
Taking == {s \in Senders : spc[s] = "take"}
Posting == {w \in Workers : wpc[w] = "post"}

LEMMA Counts ==
    /\ Cardinality(Taking) \in Nat /\ Cardinality(Posting) \in Nat
    /\ SemaphoreMatchesQueue <=>
          /\ Len(sendq) <= sem + Cardinality(Taking) + Cardinality(Posting)
          /\ sem + Cardinality(Taking) + Cardinality(Posting) <= Len(sendq) + signals
    /\ SemaphoreMatchesQueue' <=>
          /\ Len(sendq') <= sem' + Cardinality(Taking') + Cardinality(Posting')
          /\ sem' + Cardinality(Taking') + Cardinality(Posting') <= Len(sendq') + signals'
<1>1. IsFiniteSet(Senders) /\ IsFiniteSet(Workers)
  BY SendAssumption DEF SendAssumption
<1>2. Taking \in SUBSET Senders /\ Posting \in SUBSET Workers
  BY DEF Taking, Posting
<1>3. IsFiniteSet(Taking) /\ IsFiniteSet(Posting)
  BY <1>1, <1>2, FS_Subset
<1>4. Cardinality(Taking) \in Nat /\ Cardinality(Posting) \in Nat
  BY <1>3, FS_CardinalityType
<1> QED BY <1>4 DEF SemaphoreMatchesQueue, Taking, Posting

(* A sender that moves changes the number of those past sem_wait only by   *)
(* itself.                                                                 *)
LEMMA TakingMoves ==
    ASSUME SendersOK, NEW s \in Senders, NEW to \in SenderPoints,
           spc' = [spc EXCEPT ![s] = to]
    PROVE  /\ spc[s] # "take" /\ to = "take" => Cardinality(Taking') = Cardinality(Taking) + 1
           /\ spc[s] = "take" /\ to # "take" => Cardinality(Taking') = Cardinality(Taking) - 1
           /\ spc[s] # "take" /\ to # "take" => Cardinality(Taking') = Cardinality(Taking)
           /\ Cardinality(Taking') \in Nat
<1>1. IsFiniteSet(Taking)
  BY FS_Subset, SendAssumption DEF SendAssumption, Taking
<1>2. \A x \in Senders : spc'[x] = IF x = s THEN to ELSE spc[x]
  BY DEF SendersOK
<1>3. Cardinality(Taking) \in Nat
  BY <1>1, FS_CardinalityType
<1>4. CASE to = "take"
  <2>1. Taking' = Taking \cup {s}
    BY <1>2, <1>4 DEF Taking
  <2>2. Cardinality(Taking \cup {s}) = IF s \in Taking THEN Cardinality(Taking)
                                                      ELSE Cardinality(Taking) + 1
    BY <1>1, FS_AddElement
  <2>3. s \in Taking <=> spc[s] = "take"
    BY DEF Taking
  <2> QED BY <1>3, <1>4, <2>1, <2>2, <2>3
<1>5. CASE to # "take"
  <2>1. Taking' = Taking \ {s}
    BY <1>2, <1>5 DEF Taking
  <2>2. Cardinality(Taking \ {s}) = IF s \in Taking THEN Cardinality(Taking) - 1
                                                   ELSE Cardinality(Taking)
    BY <1>1, FS_RemoveElement
  <2>3. s \in Taking <=> spc[s] = "take"
    BY DEF Taking
  <2>4. IsFiniteSet(Taking \ {s})
    BY <1>1, FS_RemoveElement
  <2>5. Cardinality(Taking \ {s}) \in Nat
    BY <2>4, FS_CardinalityType
  <2> QED BY <1>3, <1>5, <2>1, <2>2, <2>3, <2>5
<1> QED BY <1>4, <1>5

LEMMA PostingMoves ==
    ASSUME WorkersOK, NEW w \in Workers, NEW to \in WorkerPoints,
           wpc' = [wpc EXCEPT ![w] = to]
    PROVE  /\ wpc[w] # "post" /\ to = "post" => Cardinality(Posting') = Cardinality(Posting) + 1
           /\ wpc[w] = "post" /\ to # "post" => Cardinality(Posting') = Cardinality(Posting) - 1
           /\ wpc[w] # "post" /\ to # "post" => Cardinality(Posting') = Cardinality(Posting)
           /\ Cardinality(Posting') \in Nat
<1>1. IsFiniteSet(Posting)
  BY FS_Subset, SendAssumption DEF SendAssumption, Posting
<1>2. \A x \in Workers : wpc'[x] = IF x = w THEN to ELSE wpc[x]
  BY DEF WorkersOK
<1>3. Cardinality(Posting) \in Nat
  BY <1>1, FS_CardinalityType
<1>4. CASE to = "post"
  <2>1. Posting' = Posting \cup {w}
    BY <1>2, <1>4 DEF Posting
  <2>2. Cardinality(Posting \cup {w}) = IF w \in Posting THEN Cardinality(Posting)
                                                        ELSE Cardinality(Posting) + 1
    BY <1>1, FS_AddElement
  <2>3. w \in Posting <=> wpc[w] = "post"
    BY DEF Posting
  <2> QED BY <1>3, <1>4, <2>1, <2>2, <2>3
<1>5. CASE to # "post"
  <2>1. Posting' = Posting \ {w}
    BY <1>2, <1>5 DEF Posting
  <2>2. Cardinality(Posting \ {w}) = IF w \in Posting THEN Cardinality(Posting) - 1
                                                     ELSE Cardinality(Posting)
    BY <1>1, FS_RemoveElement
  <2>3. w \in Posting <=> wpc[w] = "post"
    BY DEF Posting
  <2>4. IsFiniteSet(Posting \ {w})
    BY <1>1, FS_RemoveElement
  <2>5. Cardinality(Posting \ {w}) \in Nat
    BY <2>4, FS_CardinalityType
  <2> QED BY <1>3, <1>5, <2>1, <2>2, <2>3, <2>5
<1> QED BY <1>4, <1>5

(* What a step does to the queue, the semaphore and the threads between    *)
(* them: it leaves them alone, or it is one of these.                      *)
LEMMA NextTickets ==
    ASSUME Next
    PROVE  \/ UNCHANGED <<queue, wpc, spc>>
           \/ \E w \in Workers :
                 /\ UNCHANGED <<sem, signals, spc>>
                 /\ wpc[w] = "enqueue" /\ wpc' = [wpc EXCEPT ![w] = "post"]
                 /\ sendq' = Append(sendq, job[w])
           \/ \E w \in Workers :
                 /\ UNCHANGED <<sendq, signals, spc>>
                 /\ wpc[w] = "post" /\ wpc' = [wpc EXCEPT ![w] = "idle"]
                 /\ sem' = sem + 1
           \/ \E w \in Workers, to \in {"idle", "msgSend", "enqueue"} :
                 /\ UNCHANGED <<queue, spc>>
                 /\ wpc[w] # "post" /\ wpc' = [wpc EXCEPT ![w] = to]
           \/ \E s \in Senders :
                 /\ UNCHANGED <<sendq, signals, wpc>>
                 /\ spc[s] = "wait" /\ spc' = [spc EXCEPT ![s] = "take"]
                 /\ sem > 0 /\ sem' = sem - 1
           \/ \E s \in Senders :
                 /\ UNCHANGED <<sendq, sem, wpc>>
                 /\ spc[s] = "wait" /\ spc' = [spc EXCEPT ![s] = "take"]
                 /\ signals' = signals + 1
           \/ \E s \in Senders :
                 /\ UNCHANGED <<queue, wpc>>
                 /\ spc[s] = "take" /\ spc' = [spc EXCEPT ![s] = "crashed"]
                 /\ sendq = <<>>
           \/ \E s \in Senders, to \in {"send", "wait"} :
                 /\ UNCHANGED <<sem, signals, wpc>>
                 /\ spc[s] = "take" /\ spc' = [spc EXCEPT ![s] = to]
                 /\ sendq # <<>> /\ sendq' = Tail(sendq)
           \/ \E s \in Senders, to \in {"sent", "save", "arm", "wait"} :
                 /\ UNCHANGED <<queue, wpc>>
                 /\ spc[s] # "take" /\ spc' = [spc EXCEPT ![s] = to]
<1> USE DEF queue, workers, senders
<1>1. CASE ClientStep \/ WriteStep \/ Reuse
  BY <1>1 DEF ClientStep, ClientAsks, ClientReads, ClientLeaves, WriteStep, WriteEvent,
              WriteOut, WriteBlocked, WriteFails, Disarm, WriteFinished, Reuse
<1>2. ASSUME NEW w \in Workers, WorkerStep(w)
      PROVE  \/ /\ UNCHANGED <<sem, signals, spc>>
                /\ wpc[w] = "enqueue" /\ wpc' = [wpc EXCEPT ![w] = "post"]
                /\ sendq' = Append(sendq, job[w])
             \/ /\ UNCHANGED <<sendq, signals, spc>>
                /\ wpc[w] = "post" /\ wpc' = [wpc EXCEPT ![w] = "idle"]
                /\ sem' = sem + 1
             \/ \E to \in {"idle", "msgSend", "enqueue"} :
                   /\ UNCHANGED <<queue, spc>>
                   /\ wpc[w] # "post" /\ wpc' = [wpc EXCEPT ![w] = to]
  BY <1>2 DEF WorkerStep, TakeRequest, Answer, MsgSendDrops, MsgSendCuts, MsgSendStamps,
              Enqueue, Post
<1>3. ASSUME NEW s \in Senders, SemWait(s) \/ Interrupted(s)
      PROVE  \/ /\ UNCHANGED <<sendq, signals, wpc>>
                /\ spc[s] = "wait" /\ spc' = [spc EXCEPT ![s] = "take"]
                /\ sem > 0 /\ sem' = sem - 1
             \/ /\ UNCHANGED <<sendq, sem, wpc>>
                /\ spc[s] = "wait" /\ spc' = [spc EXCEPT ![s] = "take"]
                /\ signals' = signals + 1
  BY <1>3 DEF SemWait, Interrupted
<1>4. ASSUME NEW s \in Senders, TakeNothing(s) \/ Take(s)
      PROVE  \/ /\ UNCHANGED <<queue, wpc>>
                /\ spc[s] = "take" /\ spc' = [spc EXCEPT ![s] = "crashed"]
                /\ sendq = <<>>
             \/ \E to \in {"send", "wait"} :
                   /\ UNCHANGED <<sem, signals, wpc>>
                   /\ spc[s] = "take" /\ spc' = [spc EXCEPT ![s] = to]
                   /\ sendq # <<>> /\ sendq' = Tail(sendq)
  BY <1>4 DEF TakeNothing, Take
<1>5. ASSUME NEW s \in Senders,
             Send(s) \/ SendBlocked(s) \/ SendFails(s) \/ Finished(s) \/ Save(s) \/ Arm(s)
      PROVE  \E to \in {"sent", "save", "arm", "wait"} :
                 /\ UNCHANGED <<queue, wpc>>
                 /\ spc[s] # "take" /\ spc' = [spc EXCEPT ![s] = to]
  BY <1>5 DEF Send, SendBlocked, SendFails, Finished, Save, Arm
<1> QED BY <1>1, <1>2, <1>3, <1>4, <1>5 DEF Next, SenderStep

LEMMA NextSemaphore ==
    ASSUME TypeOK, SemaphoreMatchesQueue, [Next]_vars
    PROVE  SemaphoreMatchesQueue'
<1> DEFINE T == Cardinality(Taking)
           P == Cardinality(Posting)
<1>0. /\ SendersOK /\ WorkersOK
      /\ sendq \in Seq(Message) /\ sem \in Nat /\ signals \in Nat /\ job \in [Workers -> Message]
      /\ T \in Nat /\ P \in Nat
      /\ Len(sendq) <= sem + T + P /\ sem + T + P <= Len(sendq) + signals
  BY TypeParts, Counts DEF QueueOK, WorkersOK
<1>1. UNCHANGED spc => Taking' = Taking
  BY DEF Taking
<1>2. UNCHANGED wpc => Posting' = Posting
  BY DEF Posting
<1> HIDE DEF T, P
<1>3. CASE UNCHANGED <<queue, wpc, spc>> \/ UNCHANGED vars
  <2>1. UNCHANGED <<sendq, sem, signals, wpc, spc>>
    BY <1>3 DEF vars, queue, workers, senders
  <2> QED BY <1>0, <1>1, <1>2, <2>1, Counts DEF T, P
<1>4. ASSUME NEW w \in Workers, UNCHANGED <<sem, signals, spc>>,
             wpc[w] = "enqueue", wpc' = [wpc EXCEPT ![w] = "post"],
             sendq' = Append(sendq, job[w])
      PROVE  SemaphoreMatchesQueue'
  <2>1. Cardinality(Posting') = P + 1
    BY <1>0, <1>4, PostingMoves DEF WorkerPoints, P
  <2>2. Len(sendq') = Len(sendq) + 1 /\ Len(sendq) \in Nat
    BY <1>0, <1>4
  <2> QED BY <1>0, <1>1, <1>4, <2>1, <2>2, Counts, SMTT(30) DEF T
<1>5. ASSUME NEW w \in Workers, UNCHANGED <<sendq, signals, spc>>,
             wpc[w] = "post", wpc' = [wpc EXCEPT ![w] = "idle"], sem' = sem + 1
      PROVE  SemaphoreMatchesQueue'
  <2>1. Cardinality(Posting') = P - 1 /\ Cardinality(Posting') \in Nat
    BY <1>0, <1>5, PostingMoves DEF WorkerPoints, P
  <2>2. Len(sendq) \in Nat
    BY <1>0
  <2> QED BY <1>0, <1>1, <1>5, <2>1, <2>2, Counts DEF T
<1>6. ASSUME NEW w \in Workers, NEW to \in {"idle", "msgSend", "enqueue"},
             UNCHANGED <<queue, spc>>, wpc[w] # "post", wpc' = [wpc EXCEPT ![w] = to]
      PROVE  SemaphoreMatchesQueue'
  <2>1. Cardinality(Posting') = P
    BY <1>0, <1>6, PostingMoves DEF WorkerPoints, P
  <2> QED BY <1>0, <1>1, <1>6, <2>1, Counts DEF T, queue
<1>7. ASSUME NEW s \in Senders, spc[s] = "wait", spc' = [spc EXCEPT ![s] = "take"],
             UNCHANGED <<sendq, wpc>>,
             \/ UNCHANGED signals /\ sem > 0 /\ sem' = sem - 1
             \/ UNCHANGED sem /\ signals' = signals + 1
      PROVE  SemaphoreMatchesQueue'
  <2>1. Cardinality(Taking') = T + 1
    BY <1>0, <1>7, TakingMoves DEF SenderPoints, T
  <2>2. Len(sendq) \in Nat
    BY <1>0
  <2> QED BY <1>0, <1>2, <1>7, <2>1, <2>2, Counts, SMTT(30) DEF P
<1>8. ASSUME NEW s \in Senders, NEW to \in SenderPoints, UNCHANGED <<sem, signals, wpc>>,
             spc[s] = "take", to # "take", spc' = [spc EXCEPT ![s] = to],
             \/ UNCHANGED sendq /\ sendq = <<>>
             \/ sendq # <<>> /\ sendq' = Tail(sendq)
      PROVE  SemaphoreMatchesQueue'
  <2>1. Cardinality(Taking') = T - 1 /\ Cardinality(Taking') \in Nat
    BY <1>0, <1>8, TakingMoves DEF T
  <2>2. Len(sendq) \in Nat
    BY <1>0
  <2>3. \/ Len(sendq) = 0 /\ Len(sendq') = 0
        \/ Len(sendq') = Len(sendq) - 1
    BY <1>0, <1>8
  <2> QED BY <1>0, <1>2, <1>8, <2>1, <2>2, <2>3, Counts, SMTT(30) DEF P
<1>9. ASSUME NEW s \in Senders, NEW to \in SenderPoints, UNCHANGED <<queue, wpc>>,
             spc[s] # "take", to # "take", spc' = [spc EXCEPT ![s] = to]
      PROVE  SemaphoreMatchesQueue'
  <2>1. Cardinality(Taking') = T
    BY <1>0, <1>9, TakingMoves DEF T
  <2> QED BY <1>0, <1>2, <1>9, <2>1, Counts DEF P, queue
<1> QED
  <2> SUFFICES ASSUME Next PROVE SemaphoreMatchesQueue'
    BY <1>3
  <2> QED BY NextTickets, <1>3, <1>4, <1>5, <1>6, <1>7, <1>8, <1>9 DEF SenderPoints, queue

(* For any number of threads and signals: there is a ticket for every      *)
(* queued message, and no more tickets than messages and signals.          *)
THEOREM TicketForEveryMessage == Spec => []SemaphoreMatchesQueue
<1>1. Init => SemaphoreMatchesQueue
  <2> SUFFICES ASSUME Init PROVE SemaphoreMatchesQueue
    OBVIOUS
  <2>1. Taking = {} /\ Posting = {} /\ sendq = <<>> /\ sem = 0 /\ signals = 0
    BY DEF Init, Taking, Posting
  <2> QED BY <2>1, Counts, FS_EmptySet
<1>2. TypeOK /\ SemaphoreMatchesQueue /\ [Next]_vars => SemaphoreMatchesQueue'
  BY NextSemaphore
<1> QED BY SendTypes, <1>1, <1>2, PTL DEF Spec

(* Without a signal no sender takes from an empty queue: the null pConn of *)
(* an empty header is met only by a sender that a signal let past          *)
(* sem_wait.                                                               *)
NullNeedsSignal == \A s \in Senders : spc[s] = "take" /\ sendq = <<>> => signals > 0

THEOREM NullOnlyAfterSignal == Spec => []NullNeedsSignal
<1>1. TypeOK /\ SemaphoreMatchesQueue => NullNeedsSignal
  <2> SUFFICES ASSUME TypeOK, SemaphoreMatchesQueue, NEW s \in Senders, spc[s] = "take",
                      sendq = <<>>
               PROVE  signals > 0
    BY DEF NullNeedsSignal
  <2>1. s \in Taking /\ IsFiniteSet(Taking)
    BY FS_Subset, SendAssumption DEF SendAssumption, Taking
  <2>2. Cardinality(Taking) # 0
    BY <2>1, FS_EmptySet
  <2>3. sem \in Nat /\ signals \in Nat
    BY TypeParts DEF QueueOK
  <2> QED BY <2>2, <2>3, Counts
<1> QED BY SendTypes, TicketForEveryMessage, <1>1, PTL
===============================================================================
