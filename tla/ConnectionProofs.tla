--------------------------- MODULE ConnectionProofs ---------------------------
(***************************************************************************)
(* Proofs about Connection for every number of receive and send threads,   *)
(* every length of a request and of a response, every limit and every      *)
(* number of requests.                                                     *)
(***************************************************************************)
EXTENDS Connection, TLAPS

USE DEF Recv!Goto

(* Before a connection is closed, its number is the one it got when it was *)
(* made; from then on the next one.                                        *)
Closing == open' = FALSE /\ seqNo' = IF open THEN seqNo + 1 ELSE seqNo

(* What a step of the connection is for the receive path.                  *)
LEMMA RecvSteps ==
    ASSUME [Next]_vars
    PROVE  \/ ClientSends
           \/ Recv!Read
           \/ \E w \in Workers : Assemble(w)
           \/ \E w \in Workers : Recv!Respond(w)
           \/ \E w \in Workers : Recv!Reset(w)
           \/ UNCHANGED recvOnly /\ (Closing \/ UNCHANGED <<open, seqNo>>)
<1> DEFINE Other == UNCHANGED recvOnly /\ (Closing \/ UNCHANGED <<open, seqNo>>)
<1>1. ASSUME NEW w \in Workers, MsgSend(w) PROVE Other
  BY <1>1 DEF MsgSend, Send!MsgSendDrops, Send!MsgSendCuts, Send!MsgSendStamps, Send!Enqueue,
     Send!Post, Send!Close, Send!status, Closing
<1>2. ASSUME NEW s \in Senders, SendStep(s) PROVE Other
  BY <1>2 DEF SendStep, Send!SenderStep, Send!SemWait, Send!TakeNothing, Send!Take, Send!Send,
     Send!SendBlocked, Send!SendFails, Send!Finished, Send!Save, Send!Arm, Send!Close,
     Send!Modify, Send!status, Closing
<1>3. CASE WriteStep
  BY <1>3 DEF WriteStep, Send!WriteStep, Send!WriteEvent, Send!WriteOut, Send!WriteBlocked,
     Send!WriteFails, Send!Disarm, Send!WriteFinished, Send!Close, Send!Modify, Send!status,
     Closing
<1>4. CASE ClientReads \/ ClientLeaves
  BY <1>4 DEF ClientReads, ClientLeaves, Send!ClientReads, Send!ClientLeaves, Send!Close,
     Send!status, Closing
<1>5. CASE UNCHANGED vars
  BY <1>5 DEF vars
<1>6. ASSUME NEW w \in Workers, WorkerStep(w)
      PROVE  Assemble(w) \/ Recv!Respond(w) \/ Recv!Reset(w) \/ Other
  BY <1>1, <1>6 DEF WorkerStep, Respond, Reset
<1> QED BY <1>2, <1>3, <1>4, <1>5, <1>6 DEF Next, Read

-----------------------------------------------------------------------------
(* The order of the chunks.                                                *)
Chunk == [seq : Nat, no : Nat, from : Nat, to : Nat]
Points == {"idle", "check", "wait", "parse", "advance", "respond", "reset"}

Types ==
    /\ open \in BOOLEAN /\ seqNo \in Nat
    /\ sent \in Nat /\ read \in Nat /\ sequence \in Nat /\ expected \in Nat
    /\ recvq \in Seq(Chunk) /\ chunk \in [Workers -> Chunk]
    /\ pc \in [Workers -> Points]
    /\ fed \in Seq(Nat)

(* Every chunk ever read is of the one client, and what the parser got of  *)
(* it is in order.                                                         *)
Always ==
    /\ seqNo = IF open THEN 2 ELSE 3
    /\ \A i \in 1 .. Len(fed) : fed[i] = i
    /\ \A w \in Workers : pc[w] # "idle" => chunk[w].seq = 2
    /\ \A i \in 1 .. Len(recvq) : recvq[i].seq = 2

Taken == sequence - Len(recvq)
Holds(w) == pc[w] \in {"check", "wait", "parse", "advance"}
HasTurn(w) == pc[w] \in {"parse", "advance"}

(* While the connection is open, chunk j holds the bytes from cut[j] + 1   *)
(* to cut[j + 1]: those that are queued, those that a worker holds, and    *)
(* every chunk from the expected one on is one of these.                   *)
Cuts(cut) ==
    /\ cut[0] = 0 /\ cut[sequence] = read
    /\ \A i, j \in Nat : i < j /\ j <= sequence => cut[i] < cut[j]
Queued(cut) ==
    \A i \in 1 .. Len(recvq) :
        /\ recvq[i].no = Taken + i - 1
        /\ recvq[i].from = cut[recvq[i].no] + 1 /\ recvq[i].to = cut[recvq[i].no + 1]
Held(cut) ==
    \A w \in Workers : Holds(w) =>
        /\ chunk[w].seq = 2
        /\ expected <= chunk[w].no /\ chunk[w].no < Taken
        /\ chunk[w].from = cut[chunk[w].no] + 1 /\ chunk[w].to = cut[chunk[w].no + 1]
        /\ HasTurn(w) => chunk[w].no = expected
HeldByOne ==
    \A v, w \in Workers : Holds(v) /\ Holds(w) /\ chunk[v].no = chunk[w].no => v = w
NoneLost ==
    /\ expected <= Taken
    /\ \A j \in Nat : expected <= j /\ j < Taken =>
          \E w \in Workers : Holds(w) /\ chunk[w].no = j
Parsed(cut) ==
    /\ (\A w \in Workers : pc[w] # "advance") => Len(fed) = cut[expected]
    /\ \A w \in Workers : pc[w] = "advance" => Len(fed) = cut[expected + 1]

Turns(cut) ==
    Cuts(cut) /\ Queued(cut) /\ Held(cut) /\ HeldByOne /\ NoneLost /\ Parsed(cut)

OrderInv ==
    /\ Types /\ Always
    /\ open => \E cut \in [Nat -> Nat] : Turns(cut)

LEMMA ChunkFields ==
    \A c \in Chunk : c.seq \in Nat /\ c.no \in Nat /\ c.from \in Nat /\ c.to \in Nat
BY DEF Chunk

LEMMA Concat ==
    ASSUME NEW S, NEW s \in Seq(S), NEW t \in Seq(S)
    PROVE  /\ s \o t \in Seq(S) /\ Len(s \o t) = Len(s) + Len(t)
           /\ \A i \in 1 .. Len(s) : (s \o t)[i] = s[i]
           /\ \A i \in Len(s) + 1 .. Len(s) + Len(t) : (s \o t)[i] = t[i - Len(s)]
<1>1. Len(s) \in Nat /\ Len(t) \in Nat
  OBVIOUS
<1> QED BY <1>1

(* A function on the numbers up to n is a sequence of that length.         *)
LEMMA Listed ==
    ASSUME NEW S, NEW n \in Nat, NEW s \in [1 .. n -> S]
    PROVE  s \in Seq(S) /\ Len(s) = n
OBVIOUS

LEMMA Successor == \A m, n \in Nat : m + 1 <= n => m + 1 \in Nat /\ m <= n
OBVIOUS

LEMMA InitOrder == Init => OrderInv
<1> SUFFICES ASSUME Init PROVE OrderInv
  OBVIOUS
<1> USE DEF Init, Recv!Init, Recv!NoChunk
<1>1. Types
  BY DEF Types, Chunk, Points
<1>2. Always
  BY DEF Always
<1> DEFINE zero == [j \in Nat |-> 0]
<1>3. zero \in [Nat -> Nat] /\ Turns(zero)
  BY DEF Turns, Cuts, Queued, Held, HeldByOne, NoneLost, Parsed, Holds, HasTurn, Taken
<1> QED BY <1>1, <1>2, <1>3 DEF OrderInv

(* What a step leaves alone of what the invariant speaks of.               *)
LEMMA SameOrder ==
    ASSUME OrderInv, UNCHANGED <<read, sequence, recvq, expected, pc, chunk, fed>>,
           sent' \in Nat, Closing \/ UNCHANGED <<open, seqNo>>
    PROVE  OrderInv'
<1>1. Types'
  <2>1. open \in BOOLEAN /\ seqNo \in Nat
    BY DEF OrderInv, Types
  <2>2. open' \in BOOLEAN
    BY <2>1 DEF Closing
  <2>3. seqNo' \in Nat
    BY <2>1 DEF Closing
  <2> QED BY <2>2, <2>3 DEF OrderInv, Types
<1>2. Always'
  BY DEF OrderInv, Types, Always, Closing
<1>3. ASSUME open' PROVE \E cut \in [Nat -> Nat] : Turns(cut)'
  <2>1. open
    BY <1>3 DEF OrderInv, Closing
  <2>2. PICK cut \in [Nat -> Nat] : Turns(cut)
    BY <2>1 DEF OrderInv
  <2>3. Turns(cut)'
    BY <2>2 DEF Turns, Cuts, Queued, Held, HeldByOne, NoneLost, Parsed, Holds, HasTurn, Taken
  <2> QED BY <2>3
<1> QED BY <1>1, <1>2, <1>3 DEF OrderInv

(* The epoll thread reads the bytes that have arrived as one more chunk.   *)
LEMMA ReadOrder == ASSUME OrderInv, Recv!Read PROVE OrderInv'
<1> DEFINE new == [seq |-> seqNo, no |-> sequence, from |-> read + 1, to |-> sent]
<1>0. /\ open /\ read < sent /\ recvq' = Append(recvq, new)
      /\ sequence' = sequence + 1 /\ read' = sent
      /\ UNCHANGED <<sent, open, seqNo, expected, pc, chunk, fed>>
  BY DEF Recv!Read, Recv!stream, Recv!context, Recv!workers, Recv!ghosts
<1>n. sequence \in Nat /\ read \in Nat /\ sent \in Nat /\ expected \in Nat
  BY DEF OrderInv, Types
<1> USE <1>n
<1>1. /\ recvq \in Seq(Chunk) /\ seqNo = 2 /\ seqNo \in Nat
      /\ Types /\ Always /\ chunk \in [Workers -> Chunk]
  BY <1>0 DEF OrderInv, Types, Always
<1>2. new \in Chunk /\ new.no = sequence /\ new.from = read + 1 /\ new.to = sent
      /\ new.seq = 2
  BY <1>1 DEF Chunk
<1> HIDE DEF new
<1>3. /\ recvq' \in Seq(Chunk) /\ Len(recvq') = Len(recvq) + 1 /\ Len(recvq) \in Nat
      /\ \A i \in 1 .. Len(recvq) : recvq'[i] = recvq[i]
      /\ recvq'[Len(recvq) + 1] = new
  BY <1>0, <1>1, <1>2
<1>4. Types'
  BY <1>0, <1>1, <1>3 DEF Types
<1>5. Always'
  BY <1>0, <1>1, <1>2, <1>3 DEF Always
<1>6. PICK cut \in [Nat -> Nat] : Turns(cut)
  BY <1>0 DEF OrderInv
<1>7. PICK more \in [Nat -> Nat] : /\ more[sequence + 1] = sent
                                  /\ \A j \in Nat : j <= sequence => more[j] = cut[j]
  <2>1. /\ [cut EXCEPT ![sequence + 1] = sent] \in [Nat -> Nat]
        /\ [cut EXCEPT ![sequence + 1] = sent][sequence + 1] = sent
        /\ \A j \in Nat : j <= sequence => [cut EXCEPT ![sequence + 1] = sent][j] = cut[j]
    BY <1>1
  <2> QED BY <2>1
<1>8. Taken' = Taken /\ Taken \in Int /\ Taken + Len(recvq) = sequence /\ Taken <= sequence
  BY <1>0, <1>1, <1>3 DEF Taken
<1>9. Cuts(more)'
  <2>1. more[0] = 0 /\ more[sequence] = read
    BY <1>1, <1>6, <1>7 DEF Turns, Cuts
  <2>2. ASSUME NEW i \in Nat, NEW j \in Nat, i < j, j <= sequence + 1
        PROVE  more[i] < more[j]
    <3>1. CASE j <= sequence
      <4>1. i <= sequence /\ cut[i] < cut[j]
        BY <1>6, <2>2, <3>1 DEF Turns, Cuts
      <4> QED BY <1>7, <3>1, <4>1
    <3>2. CASE j = sequence + 1
      <4>1. i <= sequence
        BY <2>2, <3>2
      <4>2. cut[i] <= read
        <5>1. CASE i = sequence
          BY <1>6, <5>1 DEF Turns, Cuts
        <5>2. CASE i < sequence
          BY <1>6, <5>2 DEF Turns, Cuts
        <5> QED BY <2>2, <4>1, <5>1, <5>2
      <4>3. more[i] = cut[i] /\ more[j] = sent /\ cut[i] \in Nat
        BY <1>7, <3>2, <4>1
      <4>4. read < sent
        BY <1>0
      <4> QED BY ONLY <1>n, <4>2, <4>3, <4>4
    <3> QED BY <2>2, <3>1, <3>2
  <2> QED BY <1>0, <1>7, <2>1, <2>2 DEF Cuts
<1>10. Queued(more)'
  <2> SUFFICES ASSUME NEW i \in 1 .. Len(recvq) + 1
               PROVE  /\ recvq'[i].no = Taken + i - 1
                      /\ recvq'[i].from = more[recvq'[i].no] + 1
                      /\ recvq'[i].to = more[recvq'[i].no + 1]
    BY <1>3, <1>8 DEF Queued
  <2>1. CASE i = Len(recvq) + 1
    <3>1. recvq'[i] = new /\ Taken + i - 1 = sequence
      BY <1>1, <1>3, <1>8, <2>1
    <3>2. more[sequence] = read
      BY <1>1, <1>6, <1>7 DEF Turns, Cuts
    <3>3. new.no = sequence /\ new.from = read + 1 /\ new.to = sent
      BY ONLY <1>2
    <3>4. more[sequence + 1] = sent
      BY <1>1, <1>7
    <3> QED BY ONLY <3>1, <3>2, <3>3, <3>4
  <2>2. CASE i \in 1 .. Len(recvq)
    <3>1. /\ recvq'[i] = recvq[i] /\ recvq[i].no = Taken + i - 1
          /\ recvq[i].from = cut[recvq[i].no] + 1 /\ recvq[i].to = cut[recvq[i].no + 1]
      BY <1>3, <1>6, <2>2 DEF Turns, Queued
    <3>2. recvq[i].no \in Nat
      <4>1. recvq[i] \in Chunk
        BY <1>1, <2>2
      <4> QED BY <4>1, ChunkFields
    <3>3. recvq[i].no + 1 <= sequence
      <4>1. recvq[i].no = Taken + i - 1
        BY ONLY <3>1
      <4>2. Taken = sequence - Len(recvq) /\ Len(recvq) \in Nat /\ sequence \in Nat
        BY <1>3 DEF Taken
      <4> DEFINE l == Len(recvq)
      <4>3. recvq[i].no = (sequence - l) + i - 1 /\ l \in Nat /\ i \in 1 .. l
        BY ONLY <2>2, <4>1, <4>2, Zenon
      <4> HIDE DEF l
      <4> QED BY ONLY <4>2, <4>3
    <3>4. recvq[i].no + 1 \in Nat /\ recvq[i].no <= sequence /\ sequence \in Nat
      BY ONLY <3>2, <3>3, <1>n, Successor, Zenon
    <3>5. /\ more[recvq[i].no] = cut[recvq[i].no]
          /\ more[recvq[i].no + 1] = cut[recvq[i].no + 1]
      BY <1>7, <3>2, <3>3, <3>4
    <3> QED BY <3>1, <3>5
  <2> QED BY <1>3, <2>1, <2>2, SMTT(30)
<1>11. Held(more)'
  <2> SUFFICES ASSUME NEW w \in Workers, Holds(w)
               PROVE  /\ chunk[w].seq = 2
                      /\ expected <= chunk[w].no /\ chunk[w].no < Taken
                      /\ chunk[w].from = more[chunk[w].no] + 1
                      /\ chunk[w].to = more[chunk[w].no + 1]
                      /\ HasTurn(w) => chunk[w].no = expected
    BY <1>0, <1>8 DEF Held, Holds, HasTurn
  <2>1. chunk[w].no \in Nat
    BY <1>1, ChunkFields
  <2>2. /\ chunk[w].seq = 2
        /\ expected <= chunk[w].no /\ chunk[w].no < Taken
        /\ chunk[w].from = cut[chunk[w].no] + 1 /\ chunk[w].to = cut[chunk[w].no + 1]
        /\ HasTurn(w) => chunk[w].no = expected
    BY <1>6 DEF Turns, Held
  <2>3. chunk[w].no <= sequence /\ chunk[w].no + 1 <= sequence /\ chunk[w].no + 1 \in Nat
    <3>1. Taken <= sequence /\ Taken \in Int /\ sequence \in Nat
      BY <1>1, <1>8
    <3>2. chunk[w].no < Taken
      BY <2>2
    <3> QED BY ONLY <2>1, <3>1, <3>2
  <2>4. more[chunk[w].no] = cut[chunk[w].no] /\ more[chunk[w].no + 1] = cut[chunk[w].no + 1]
    BY <1>7, <2>1, <2>3
  <2> QED BY <2>2, <2>4
<1>12. HeldByOne' /\ NoneLost'
  BY <1>0, <1>6, <1>8 DEF Turns, HeldByOne, NoneLost, Holds
<1>13. Parsed(more)'
  <2>1. expected <= sequence
    BY <1>1, <1>6, <1>8 DEF Turns, NoneLost
  <2>2. \A w \in Workers : pc[w] = "advance" => expected + 1 <= sequence
    <3> SUFFICES ASSUME NEW w \in Workers, pc[w] = "advance"
                 PROVE  expected + 1 <= sequence
      OBVIOUS
    <3>1. expected <= chunk[w].no /\ chunk[w].no < Taken
      BY <1>6 DEF Turns, Held, Holds
    <3>2. chunk[w].no \in Nat
      BY <1>1, ChunkFields
    <3>3. Taken <= sequence /\ Taken \in Int /\ sequence \in Nat /\ expected \in Nat
      BY <1>1, <1>8
    <3> QED BY ONLY <3>1, <3>2, <3>3
  <2>3. Parsed(cut)
    BY <1>6 DEF Turns
  <2>4. more[expected] = cut[expected]
    BY <1>1, <1>7, <2>1
  <2>5. ASSUME NEW w \in Workers, pc[w] = "advance"
        PROVE  more[expected + 1] = cut[expected + 1]
    <3>1. expected + 1 \in Nat /\ expected + 1 <= sequence
      BY <2>2, <2>5
    <3> QED BY <1>7, <3>1
  <2> QED BY <1>0, <2>3, <2>4, <2>5 DEF Parsed
<1>14. Turns(more)'
  BY <1>9, <1>10, <1>11, <1>12, <1>13 DEF Turns
<1> QED BY <1>4, <1>5, <1>7, <1>14 DEF OrderInv

(* Who waits, waits for a chunk that a worker has in hand.                 *)
LEMMA TurnComes ==
    ASSUME OrderInv, open, NEW w \in Workers, pc[w] = "wait"
    PROVE  Recv!Coming
<1>1. PICK cut \in [Nat -> Nat] : Turns(cut)
  BY DEF OrderInv
<1>2. expected \in Nat /\ chunk[w].no \in Nat /\ seqNo = 2 /\ Taken \in Int
  <2>1. chunk[w] \in Chunk /\ expected \in Nat /\ seqNo = 2
    BY DEF OrderInv, Types, Always
  <2>2. sequence \in Nat /\ recvq \in Seq(Chunk)
    BY DEF OrderInv, Types
  <2>3. Taken \in Int
    BY <2>2 DEF Taken
  <2> QED BY <2>1, <2>3, ChunkFields
<1>3. expected <= chunk[w].no /\ chunk[w].no < Taken
  BY <1>1 DEF Turns, Held, Holds
<1>4. expected < Taken
  BY ONLY <1>2, <1>3
<1>5. PICK u \in Workers : Holds(u) /\ chunk[u].no = expected
  BY <1>1, <1>2, <1>4 DEF Turns, NoneLost
<1>6. chunk[u].seq = 2
  BY <1>1, <1>5 DEF Turns, Held
<1> QED BY <1>2, <1>5, <1>6 DEF Recv!Coming, Recv!IsTurn, Holds

(* A worker goes on with what it holds.                                    *)
LEMMA MoveOrder ==
    ASSUME OrderInv, NEW w \in Workers, NEW to \in Points \ {"advance"},
           pc[w] \notin {"idle", "advance"}, pc' = [pc EXCEPT ![w] = to],
           open => (Holds(w)' <=> Holds(w)),
           open /\ to = "parse" => chunk[w].no = expected,
           UNCHANGED <<open, seqNo, sent, read, sequence, recvq, expected, chunk, fed>>
    PROVE  OrderInv'
<1>1. pc \in [Workers -> Points]
  BY DEF OrderInv, Types
<1>2. Types' /\ Always'
  BY <1>1 DEF OrderInv, Types, Always
<1>3. ASSUME open PROVE \E cut \in [Nat -> Nat] : Turns(cut)'
  <2>1. PICK cut \in [Nat -> Nat] : Turns(cut)
    BY <1>3 DEF OrderInv
  <2>2. \A v \in Workers : Holds(v)' <=> Holds(v)
    BY <1>1, <1>3 DEF Holds
  <2>3. \A v \in Workers : HasTurn(v)' => HasTurn(v) \/ chunk[v].no = expected
    BY <1>1, <1>3 DEF HasTurn, Points
  <2>4. \A v \in Workers : pc'[v] = "advance" <=> pc[v] = "advance"
    BY <1>1
  <2>5. Cuts(cut)' /\ Queued(cut)' /\ NoneLost' /\ HeldByOne' /\ Taken' = Taken
    BY <2>1, <2>2 DEF Turns, Cuts, Queued, NoneLost, HeldByOne, Taken
  <2>6. Held(cut)'
    BY <2>1, <2>2, <2>3, <2>5 DEF Turns, Held
  <2>7. Parsed(cut)'
    BY <2>1, <2>4 DEF Turns, Parsed
  <2> QED BY <2>5, <2>6, <2>7 DEF Turns
<1> QED BY <1>2, <1>3 DEF OrderInv

LEMMA OtherOrder ==
    ASSUME OrderInv, NEW w \in Workers,
           \/ Recv!Check(w) \/ Recv!Proceed(w) \/ Recv!TimeOut(w)
           \/ Recv!Respond(w) \/ Recv!Reset(w)
    PROVE  OrderInv'
<1> USE DEF Recv!connection, Recv!stream, Recv!context, Recv!workers, Recv!ghosts, Points
<1>0. pc \in [Workers -> Points] /\ Always
  BY DEF OrderInv, Types
<1>1. CASE Recv!Check(w)
  <2> DEFINE to == IF Recv!IsStale(w) THEN "idle" ELSE "wait"
  <2>1. pc[w] = "check" /\ pc' = [pc EXCEPT ![w] = to]
        /\ UNCHANGED <<open, seqNo, sent, read, sequence, recvq, expected, chunk, fed>>
    BY <1>1 DEF Recv!Check
  <2>2. open => ~Recv!IsStale(w)
    <3>1. SUFFICES ASSUME open PROVE chunk[w].seq = seqNo
      BY DEF Recv!IsStale
    <3>2. PICK cut \in [Nat -> Nat] : Turns(cut)
      BY <3>1 DEF OrderInv
    <3> QED BY <1>0, <2>1, <3>1, <3>2 DEF Turns, Held, Holds, Always
  <2>3. to \in Points \ {"advance"} /\ to # "parse"
    OBVIOUS
  <2>4. open => (Holds(w)' <=> Holds(w))
    BY <1>0, <2>1, <2>2 DEF Holds
  <2> QED BY <2>1, <2>3, <2>4, MoveOrder
<1>2. CASE Recv!Proceed(w) \/ Recv!TimeOut(w)
  <2>1. pc[w] = "wait" /\ pc' = [pc EXCEPT ![w] = "parse"]
        /\ UNCHANGED <<open, seqNo, sent, read, sequence, recvq, expected, chunk, fed>>
    BY <1>2 DEF Recv!Proceed, Recv!TimeOut
  <2>2. open => chunk[w].no = expected
    BY <1>2, <2>1, TurnComes DEF Recv!Proceed, Recv!TimeOut, Recv!IsTurn
  <2>3. Holds(w)' <=> Holds(w)
    BY <1>0, <2>1 DEF Holds
  <2> QED BY <2>1, <2>2, <2>3, MoveOrder
<1>3. CASE Recv!Respond(w) \/ Recv!Reset(w)
  <2>1. PICK to \in {"idle", "reset"} :
           /\ pc[w] \in {"respond", "reset"} /\ pc' = [pc EXCEPT ![w] = to]
           /\ UNCHANGED <<open, seqNo, sent, read, sequence, recvq, expected, chunk, fed>>
    BY <1>3 DEF Recv!Respond, Recv!Reset
  <2>2. Holds(w)' <=> Holds(w)
    BY <1>0, <2>1 DEF Holds
  <2>3. to \in Points \ {"advance"} /\ to # "parse" /\ pc[w] # "advance"
    BY <2>1
  <2> QED BY <2>1, <2>2, <2>3, MoveOrder
<1> QED BY <1>1, <1>2, <1>3

(* The oldest chunk in the queue passes to a worker.                       *)
LEMMA TakeOrder == ASSUME OrderInv, NEW w \in Workers, Recv!Take(w) PROVE OrderInv'
<1> DEFINE c == Head(recvq)
<1>0. /\ pc[w] = "idle" /\ recvq # <<>> /\ recvq' = Tail(recvq)
      /\ chunk' = [chunk EXCEPT ![w] = c] /\ pc' = [pc EXCEPT ![w] = "check"]
      /\ UNCHANGED <<open, seqNo, sent, read, sequence, expected, fed>>
  BY DEF Recv!Take, Recv!stream, Recv!context, Recv!ghosts
<1>n. sequence \in Nat /\ expected \in Nat
  BY DEF OrderInv, Types
<1>1. /\ recvq \in Seq(Chunk) /\ chunk \in [Workers -> Chunk] /\ pc \in [Workers -> Points]
      /\ Types /\ Always
  BY DEF OrderInv, Types
<1>2. /\ recvq' \in Seq(Chunk) /\ Len(recvq) \in Nat /\ Len(recvq') = Len(recvq) - 1
      /\ 1 \in 1 .. Len(recvq) /\ c = recvq[1] /\ c \in Chunk
      /\ \A i \in 1 .. Len(recvq') : recvq'[i] = recvq[i + 1]
  BY <1>0, <1>1
<1>3. c.seq = 2
  BY <1>1, <1>2 DEF Always
<1> HIDE DEF c
<1>4. chunk' \in [Workers -> Chunk] /\ pc' \in [Workers -> Points]
  BY <1>0, <1>1, <1>2 DEF Points
<1>5. Types'
  BY <1>0, <1>1, <1>2, <1>4 DEF Types
<1>6. Always'
  <2>1. \A v \in Workers : pc'[v] # "idle" => chunk'[v].seq = 2
    BY <1>0, <1>1, <1>3 DEF Always
  <2>2. \A i \in 1 .. Len(recvq') : i + 1 \in 1 .. Len(recvq)
    BY <1>2
  <2>3. \A i \in 1 .. Len(recvq') : recvq'[i].seq = 2
    BY <1>1, <1>2, <2>2 DEF Always
  <2> QED BY <1>0, <1>1, <2>1, <2>3 DEF Always
<1>7. ASSUME open PROVE \E cut \in [Nat -> Nat] : Turns(cut)'
  <2>1. PICK cut \in [Nat -> Nat] : Turns(cut)
    BY <1>7 DEF OrderInv
  <2>2. Taken' = Taken + 1 /\ Taken \in Int
    BY <1>n, <1>0, <1>2 DEF Taken
  <2>3. c.no = Taken /\ c.from = cut[c.no] + 1 /\ c.to = cut[c.no + 1]
    <3>1. c.no = Taken + 1 - 1 /\ c.from = cut[c.no] + 1 /\ c.to = cut[c.no + 1]
      BY <1>2, <2>1 DEF Turns, Queued
    <3> QED BY <2>2, <3>1
  <2>4. expected <= Taken
    BY <2>1 DEF Turns, NoneLost
  <2>5. /\ \A v \in Workers \ {w} : chunk'[v] = chunk[v] /\ (Holds(v)' <=> Holds(v))
                                    /\ (HasTurn(v)' <=> HasTurn(v))
        /\ chunk'[w] = c /\ Holds(w)' /\ ~HasTurn(w)' /\ ~Holds(w)
    BY <1>0, <1>1 DEF Holds, HasTurn
  <2>6. Cuts(cut)'
    BY <1>0, <2>1 DEF Turns, Cuts
  <2>7. Queued(cut)'
    <3> SUFFICES ASSUME NEW i \in 1 .. Len(recvq')
                 PROVE  /\ recvq'[i].no = Taken' + i - 1
                        /\ recvq'[i].from = cut[recvq'[i].no] + 1
                        /\ recvq'[i].to = cut[recvq'[i].no + 1]
      BY DEF Queued
    <3>1. i + 1 \in 1 .. Len(recvq) /\ recvq'[i] = recvq[i + 1]
      BY <1>2
    <3>2. /\ recvq[i + 1].no = Taken + (i + 1) - 1
          /\ recvq[i + 1].from = cut[recvq[i + 1].no] + 1
          /\ recvq[i + 1].to = cut[recvq[i + 1].no + 1]
      BY <2>1, <3>1 DEF Turns, Queued
    <3>3. Taken + (i + 1) - 1 = Taken' + i - 1
      BY <2>2
    <3> QED BY <3>1, <3>2, <3>3
  <2>8. Held(cut)'
    <3> SUFFICES ASSUME NEW v \in Workers, Holds(v)'
                 PROVE  /\ chunk'[v].seq = 2
                        /\ expected <= chunk'[v].no /\ chunk'[v].no < Taken'
                        /\ chunk'[v].from = cut[chunk'[v].no] + 1
                        /\ chunk'[v].to = cut[chunk'[v].no + 1]
                        /\ HasTurn(v)' => chunk'[v].no = expected
      BY <1>0 DEF Held
    <3>1. CASE v = w
      <4>1. Taken < Taken'
        BY <2>2
      <4> QED BY <1>3, <2>3, <2>4, <2>5, <3>1, <4>1
    <3>2. CASE v # w
      <4>1. /\ chunk[v].seq = 2 /\ expected <= chunk[v].no /\ chunk[v].no < Taken
            /\ chunk[v].from = cut[chunk[v].no] + 1 /\ chunk[v].to = cut[chunk[v].no + 1]
            /\ HasTurn(v) => chunk[v].no = expected
        BY <2>1, <2>5, <3>2 DEF Turns, Held
      <4>2. chunk[v].no < Taken'
        <5>1. chunk[v].no \in Nat
          BY <1>1, ChunkFields
        <5> QED BY ONLY <2>2, <4>1, <5>1
      <4> QED BY <2>5, <3>2, <4>1, <4>2
    <3> QED BY <3>1, <3>2
  <2>9. HeldByOne'
    <3>1. \A v \in Workers \ {w} : Holds(v) => chunk[v].no # Taken
      <4> SUFFICES ASSUME NEW v \in Workers \ {w}, Holds(v) PROVE chunk[v].no # Taken
        OBVIOUS
      <4>1. chunk[v].no < Taken
        BY <2>1 DEF Turns, Held
      <4>2. chunk[v].no \in Nat
        BY <1>1, ChunkFields
      <4> QED BY ONLY <2>2, <4>1, <4>2
    <3>2. HeldByOne
      BY <2>1 DEF Turns
    <3> QED BY <2>3, <2>5, <3>1, <3>2 DEF HeldByOne
  <2>10. NoneLost'
    <3> SUFFICES ASSUME NEW j \in Nat, expected <= j, j < Taken'
                 PROVE  \E v \in Workers : Holds(v)' /\ chunk'[v].no = j
      <4>1. expected <= Taken'
        BY ONLY <1>n, <2>2, <2>4
      <4> QED BY <1>0, <4>1 DEF NoneLost
    <3>1. CASE j = Taken
      BY <2>3, <2>5, <3>1
    <3>2. CASE j # Taken
      <4>1. j < Taken
        BY <2>2, <3>2
      <4>2. PICK v \in Workers : Holds(v) /\ chunk[v].no = j
        BY <2>1, <4>1 DEF Turns, NoneLost
      <4> QED BY <2>5, <4>2
    <3> QED BY <3>1, <3>2
  <2>11. Parsed(cut)'
    <3>1. \A v \in Workers : pc'[v] = "advance" <=> pc[v] = "advance"
      BY <1>0, <1>1
    <3> QED BY <1>0, <2>1, <3>1, SMTT(30) DEF Turns, Parsed
  <2> QED BY <2>6, <2>7, <2>8, <2>9, <2>10, <2>11 DEF Turns
<1> QED BY <1>0, <1>5, <1>6, <1>7 DEF OrderInv

(* Only one worker has the expected chunk, and only that one has its turn. *)
LEMMA OneHasTurn ==
    ASSUME NEW cut \in [Nat -> Nat], Turns(cut), NEW w \in Workers, HasTurn(w)
    PROVE  /\ chunk[w].no = expected
           /\ \A v \in Workers : HasTurn(v) => v = w
BY DEF Turns, Held, HeldByOne, Holds, HasTurn

(* The parser gets the bytes that follow those it has got.                 *)
LEMMA ParseOrder == ASSUME OrderInv, NEW w \in Workers, Recv!Parse(w) PROVE OrderInv'
<1> DEFINE bytes == [i \in 1 .. chunk[w].to - chunk[w].from + 1 |-> chunk[w].from + i - 1]
<1>0. /\ pc[w] = "parse" /\ pc' = [pc EXCEPT ![w] = "advance"]
      /\ fed' = IF chunk[w].seq = seqNo THEN fed \o bytes ELSE fed
      /\ UNCHANGED <<open, seqNo, sent, read, sequence, recvq, expected, chunk>>
  BY DEF Recv!Parse, Recv!stream, Recv!connection
<1>1. /\ Types /\ Always /\ pc \in [Workers -> Points] /\ fed \in Seq(Nat)
      /\ chunk[w] \in Chunk /\ expected \in Nat
  BY DEF OrderInv, Types
<1>2. pc' \in [Workers -> Points]
  BY <1>0, <1>1 DEF Points
<1>3. CASE ~open
  <2>1. chunk[w].seq # seqNo
    <3>1. chunk[w].seq = 2
      BY <1>0, <1>1 DEF Always
    <3>2. seqNo = 3
      BY <1>1, <1>3 DEF Always
    <3> QED BY <3>1, <3>2
  <2>2. fed' = fed
    BY <1>0, <2>1
  <2>3. Types' /\ Always'
    BY <1>0, <1>1, <1>2, <2>2 DEF Types, Always
  <2> QED BY <1>0, <1>3, <2>3 DEF OrderInv
<1>4. CASE open
  <2>1. PICK cut \in [Nat -> Nat] : Turns(cut)
    BY <1>4 DEF OrderInv
  <2>2. chunk[w].no = expected /\ \A v \in Workers : HasTurn(v) => v = w
    BY <1>0, <2>1, OneHasTurn DEF HasTurn
  <2>3. /\ chunk[w].from = cut[expected] + 1 /\ chunk[w].to = cut[expected + 1]
        /\ chunk[w].seq = 2 /\ expected < Taken
    BY <1>0, <2>1, <2>2 DEF Turns, Held, Holds
  <2>4. Len(fed) = cut[expected]
    BY <1>0, <2>1, <2>2 DEF Turns, Parsed, HasTurn
  <2>5. cut[expected] \in Nat /\ cut[expected + 1] \in Nat /\ cut[expected] < cut[expected + 1]
    <3>1. expected < sequence
      <4>1. sequence \in Nat /\ recvq \in Seq(Chunk)
        BY <1>1 DEF Types
      <4>2. Len(recvq) \in Nat
        BY <4>1
      <4> QED BY <1>1, <2>3, <4>1, <4>2 DEF Taken
    <3>2. expected + 1 \in Nat /\ expected < expected + 1 /\ expected + 1 <= sequence
      <4>1. sequence \in Nat
        BY <1>1 DEF Types
      <4> QED BY <1>1, <3>1, <4>1
    <3> QED BY <1>1, <2>1, <3>2 DEF Turns, Cuts
  <2> DEFINE m == cut[expected]
             n == cut[expected + 1]
  <2>6. bytes = [i \in 1 .. n - m |-> m + i]
    <3>1. chunk[w].to - chunk[w].from + 1 = n - m
      BY <2>3, <2>5
    <3>2. \A i \in 1 .. n - m : chunk[w].from + i - 1 = m + i
      BY <2>3, <2>5
    <3> QED BY <3>1, <3>2
  <2>7. m \in Nat /\ n \in Nat /\ m < n /\ Len(fed) = m
    BY <2>4, <2>5
  <2> HIDE DEF m, n, bytes
  <2>8. bytes \in Seq(Nat) /\ Len(bytes) = n - m /\ \A i \in 1 .. n - m : bytes[i] = m + i
    BY <2>6, <2>7
  <2>9. fed' = fed \o bytes
    BY <1>0, <1>1, <1>4, <2>3 DEF Always
  <2>10. /\ fed' \in Seq(Nat) /\ Len(fed') = n
         /\ \A i \in 1 .. m : fed'[i] = fed[i]
         /\ \A i \in m + 1 .. n : fed'[i] = bytes[i - m]
    <3>1. fed \in Seq(Nat) /\ m + (n - m) = n
      BY <1>1, <2>7
    <3>2. /\ fed \o bytes \in Seq(Nat) /\ Len(fed \o bytes) = Len(fed) + Len(bytes)
          /\ \A i \in 1 .. Len(fed) : (fed \o bytes)[i] = fed[i]
          /\ \A i \in Len(fed) + 1 .. Len(fed) + Len(bytes) :
                (fed \o bytes)[i] = bytes[i - Len(fed)]
      BY <2>8, <3>1, Concat
    <3> QED BY ONLY <2>7, <2>8, <2>9, <3>1, <3>2
  <2>11. \A i \in 1 .. n : fed'[i] = i
    <3> SUFFICES ASSUME NEW i \in 1 .. n PROVE fed'[i] = i
      OBVIOUS
    <3>1. CASE i \in 1 .. m
      BY <1>1, <2>7, <2>10, <3>1 DEF Always
    <3>2. CASE i \in m + 1 .. n
      <4>1. i - m \in 1 .. n - m /\ m + (i - m) = i
        BY <2>7, <3>2
      <4> QED BY <2>8, <2>10, <3>2, <4>1
    <3> QED BY <2>7, <3>1, <3>2
  <2>12. Types' /\ Always'
    BY <1>0, <1>1, <1>2, <2>10, <2>11 DEF Types, Always
  <2>13. /\ \A v \in Workers : (Holds(v)' <=> Holds(v)) /\ (HasTurn(v)' <=> HasTurn(v))
         /\ pc'[w] = "advance"
    BY <1>0, <1>1 DEF Holds, HasTurn
  <2>14. Cuts(cut)' /\ Queued(cut)' /\ NoneLost' /\ HeldByOne' /\ Held(cut)'
    BY <1>0, <2>1, <2>13 DEF Turns, Cuts, Queued, NoneLost, HeldByOne, Held, Taken
  <2>15. Parsed(cut)'
    BY <1>0, <2>10, <2>13 DEF Parsed, n
  <2> QED BY <2>12, <2>14, <2>15 DEF OrderInv, Turns
<1> QED BY <1>3, <1>4, SMTT(30)

(* The chunk is done with, and the next one has its turn.                  *)
LEMMA AdvanceOrder == ASSUME OrderInv, NEW w \in Workers, Recv!Advance(w) PROVE OrderInv'
<1>0. PICK to \in {"idle", "respond"} :
         /\ pc[w] = "advance" /\ pc' = [pc EXCEPT ![w] = to] /\ expected' = expected + 1
         /\ UNCHANGED <<open, seqNo, sent, read, sequence, recvq, chunk, fed>>
  BY DEF Recv!Advance, Recv!stream, Recv!connection, Recv!ghosts
<1>n. expected \in Nat /\ expected' \in Nat
  BY <1>0 DEF OrderInv, Types
<1>1. /\ Types /\ Always /\ pc \in [Workers -> Points] /\ chunk \in [Workers -> Chunk]
      /\ sequence \in Nat /\ recvq \in Seq(Chunk)
  BY DEF OrderInv, Types
<1>2. pc' \in [Workers -> Points]
  BY <1>0, <1>1 DEF Points
<1>3. Types' /\ Always'
  BY <1>0, <1>n, <1>1, <1>2 DEF Types, Always
<1>4. ASSUME open PROVE \E cut \in [Nat -> Nat] : Turns(cut)'
  <2>1. PICK cut \in [Nat -> Nat] : Turns(cut)
    BY <1>4 DEF OrderInv
  <2>2. chunk[w].no = expected /\ \A v \in Workers : HasTurn(v) => v = w
    BY <1>0, <2>1, OneHasTurn DEF HasTurn
  <2>3. Taken \in Int /\ Taken' = Taken /\ expected < Taken /\ Len(fed) = cut[expected + 1]
    <3>1. Len(recvq) \in Nat
      BY <1>1
    <3>2. Taken \in Int /\ Taken' = Taken
      BY <1>0, <1>1, <3>1 DEF Taken
    <3>3. expected < Taken /\ Len(fed) = cut[expected + 1]
      BY <1>0, <2>1, <2>2 DEF Turns, Held, Holds, Parsed
    <3> QED BY <3>2, <3>3
  <2>4. expected' <= Taken'
    BY ONLY <1>n, <1>0, <2>3
  <2>5. /\ ~Holds(w)' /\ ~HasTurn(w)' /\ Holds(w) /\ pc'[w] # "advance"
        /\ \A v \in Workers \ {w} : /\ Holds(v)' <=> Holds(v)
                                    /\ ~HasTurn(v) /\ ~HasTurn(v)' /\ pc'[v] # "advance"
    BY <1>0, <1>1, <2>2 DEF Holds, HasTurn
  <2>6. Cuts(cut)' /\ Queued(cut)' /\ HeldByOne'
    BY <1>0, <2>1, <2>3, <2>5 DEF Turns, Cuts, Queued, HeldByOne
  <2>7. Held(cut)'
    <3> SUFFICES ASSUME NEW v \in Workers, Holds(v)'
                 PROVE  /\ chunk[v].seq = 2
                        /\ expected' <= chunk[v].no /\ chunk[v].no < Taken
                        /\ chunk[v].from = cut[chunk[v].no] + 1
                        /\ chunk[v].to = cut[chunk[v].no + 1]
                        /\ HasTurn(v)' => chunk[v].no = expected'
      BY <1>0, <2>3 DEF Held
    <3>1. v # w /\ Holds(v) /\ ~HasTurn(v)'
      BY <2>5
    <3>2. /\ chunk[v].seq = 2 /\ expected <= chunk[v].no /\ chunk[v].no < Taken
          /\ chunk[v].from = cut[chunk[v].no] + 1 /\ chunk[v].to = cut[chunk[v].no + 1]
      BY <2>1, <3>1 DEF Turns, Held
    <3>3. chunk[v].no # expected
      BY <2>1, <2>2, <2>5, <3>1 DEF Turns, HeldByOne
    <3>4. expected' <= chunk[v].no
      <4>1. chunk[v].no \in Nat
        BY <1>1, ChunkFields
      <4>2. expected' = expected + 1
        BY <1>0
      <4> QED BY ONLY <1>n, <3>2, <3>3, <4>1, <4>2
    <3> QED BY <3>1, <3>2, <3>4
  <2>8. NoneLost'
    <3> SUFFICES ASSUME NEW j \in Nat, expected' <= j, j < Taken
                 PROVE  \E v \in Workers : Holds(v)' /\ chunk[v].no = j
      BY <1>0, <2>3, <2>4 DEF NoneLost
    <3>1. expected <= j /\ j # expected
      BY <1>n, <1>0
    <3>2. PICK v \in Workers : Holds(v) /\ chunk[v].no = j
      BY <2>1, <3>1 DEF Turns, NoneLost
    <3>3. v # w
      BY <2>2, <3>1, <3>2
    <3> QED BY <2>5, <3>2, <3>3
  <2>9. Parsed(cut)'
    BY <1>0, <2>3, <2>5 DEF Parsed
  <2> QED BY <2>6, <2>7, <2>8, <2>9 DEF Turns
<1> QED BY <1>0, <1>3, <1>4 DEF OrderInv

LEMMA NextOrder == ASSUME OrderInv, [Next]_vars PROVE OrderInv'
<1> USE DEF recvOnly
<1>1. CASE ClientSends
  <2>1. /\ sent' = sent + 1
        /\ UNCHANGED <<open, seqNo, read, sequence, recvq, expected, pc, chunk, fed>>
    BY <1>1 DEF ClientSends, Recv!ClientSends, Recv!connection, Recv!context, Recv!workers,
       Recv!ghosts
  <2>2. sent' \in Nat
    BY <2>1 DEF OrderInv, Types
  <2> QED BY <2>1, <2>2, SameOrder
<1>2. CASE UNCHANGED recvOnly /\ (Closing \/ UNCHANGED <<open, seqNo>>)
  <2>1. sent' \in Nat
    BY <1>2 DEF OrderInv, Types
  <2> QED BY <1>2, <2>1, SameOrder
<1>3. ASSUME NEW w \in Workers, Assemble(w) PROVE OrderInv'
  BY <1>3, TakeOrder, OtherOrder, ParseOrder, AdvanceOrder DEF Assemble
<1> QED BY <1>1, <1>2, <1>3, ReadOrder, OtherOrder, RecvSteps

THEOREM ChunksInTurn == Spec => []OrderInv
<1>1. Init => OrderInv
  BY InitOrder
<1>2. OrderInv /\ [Next]_vars => OrderInv'
  BY NextOrder
<1> QED BY <1>1, <1>2, PTL DEF Spec

(* my_slogic.cpp: however the chunks are spread over the threads of the    *)
(* receive pool, the parser is given the bytes of the client in order.     *)
THEOREM BytesInOrder == Spec => []Reassembles
<1>1. OrderInv => Reassembles
  <2> SUFFICES ASSUME OrderInv, NEW i \in DOMAIN fed PROVE fed[i] = i
    BY DEF Reassembles, Recv!Reassembles, Recv!ReassemblesEver, Recv!Ordered
  <2>1. fed \in Seq(Nat)
    BY DEF OrderInv, Types
  <2> QED BY <2>1 DEF OrderInv, Always
<1> QED BY <1>1, ChunksInTurn, PTL

(* my_slogic.cpp: a thread that waits for its turn waits for a chunk that  *)
(* another thread has in hand, so wait_for never gives up for good.        *)
THEOREM TurnsCome == Spec => []WaitsForAnother
<1>1. OrderInv => WaitsForAnother
  <2> SUFFICES ASSUME OrderInv, NEW w \in Workers, pc[w] = "wait", chunk[w].seq = seqNo
               PROVE  Recv!Coming
    BY DEF WaitsForAnother, Recv!WaitsForAnother
  <2>1. open
    BY SMTT(30) DEF OrderInv, Types, Always
  <2> QED BY <2>1, TurnComes
<1> QED BY <1>1, ChunksInTurn, PTL

-----------------------------------------------------------------------------
(* Multiples of a length.                                                  *)
LEMMA Multiples ==
    ASSUME NEW P \in Nat \ {0}, NEW n \in Nat
    PROVE  /\ n * P \in Nat /\ (n + 1) * P = n * P + P
           /\ \A m \in Nat : m <= n => m * P <= n * P
           /\ \A m \in Nat : m < n => m * P + P <= n * P
<1>1. n * P \in Nat /\ (n + 1) * P = n * P + P
  OBVIOUS
<1>2. ASSUME NEW m \in Nat, m <= n PROVE m * P <= n * P
  <2>1. n * P = m * P + (n - m) * P /\ (n - m) * P \in Nat /\ m * P \in Nat
    BY <1>2
  <2> QED BY <1>1, <2>1
<1>3. ASSUME NEW m \in Nat, m < n PROVE m * P + P <= n * P
  <2>1. n * P = m * P + P + (n - m - 1) * P /\ (n - m - 1) * P \in Nat /\ m * P \in Nat
    BY <1>3
  <2> QED BY <1>1, <2>1
<1> QED BY <1>1, <1>2, <1>3

LEMMA DivMod ==
    ASSUME NEW P \in Nat \ {0}, NEW n \in Nat, NEW k \in 0 .. P - 1
    PROVE  (n * P + k) \div P = n /\ (n * P + k) % P = k
<1> DEFINE x == n * P + k
           q == x \div P
           r == x % P
<1>1. n * P \in Nat /\ x \in Nat
  BY Multiples
<1> HIDE DEF x
<1>2. q \in Int /\ r \in 0 .. P - 1 /\ x = q * P + r
  BY <1>1
<1>3. q \in Nat
  BY <1>1
<1> HIDE DEF q, r
<1>4. q = n
  <2>1. ~(q < n)
    <3>1. q < n => q * P + P <= n * P
      BY <1>3, Multiples
    <3>2. q * P \in Nat
      BY <1>3, Multiples
    <3> QED BY <1>1, <1>2, <3>1, <3>2 DEF x
  <2>2. ~(n < q)
    <3>1. n < q => n * P + P <= q * P
      BY <1>3, Multiples
    <3>2. q * P \in Nat
      BY <1>3, Multiples
    <3> QED BY <1>1, <1>2, <3>1, <3>2 DEF x
  <2> QED BY <1>3, <2>1, <2>2
<1> QED BY <1>1, <1>2, <1>4 DEF x, q, r

Bytes(n) == n * Parts
Owed(n) == n * RespLen

LEMMA Lengths == Parts \in Nat \ {0} /\ RespLen \in Nat \ {0}
BY ConnectionAssumption
   DEF ConnectionAssumption, Recv!RecvAssumption, Send!SendAssumption

LEMMA BytesOfRequests ==
    ASSUME NEW n \in Nat
    PROVE  /\ Bytes(n) \in Nat /\ Bytes(n + 1) = Bytes(n) + Parts
           /\ Bytes(n) \div Parts = n /\ Bytes(n) % Parts = 0
           /\ \A k \in 1 .. Parts : /\ Recv!Request(Bytes(n) + k) = n + 1
                                    /\ (Bytes(n) + k) % Parts = k % Parts
           /\ \A x \in Nat : Bytes(n) <= x /\ x <= Bytes(n) + Parts /\ x % Parts = 0
                             => x = Bytes(n) \/ x = Bytes(n) + Parts
<1>1. Bytes(n) \in Nat /\ Bytes(n + 1) = Bytes(n) + Parts
  BY Lengths, Multiples DEF Bytes
<1>2. Bytes(n) \div Parts = n /\ Bytes(n) % Parts = 0
  <2>1. 0 \in 0 .. Parts - 1 /\ Bytes(n) = n * Parts + 0
    BY Lengths, <1>1 DEF Bytes
  <2> QED BY <2>1, Lengths, DivMod
<1>3. ASSUME NEW k \in 1 .. Parts
      PROVE  Recv!Request(Bytes(n) + k) = n + 1 /\ (Bytes(n) + k) % Parts = k % Parts
  <2>1. k - 1 \in 0 .. Parts - 1 /\ (Bytes(n) + k) - 1 = n * Parts + (k - 1)
    BY Lengths, <1>1 DEF Bytes
  <2>2. ((Bytes(n) + k) - 1) \div Parts = n
    BY <2>1, Lengths, DivMod
  <2>3. Recv!Request(Bytes(n) + k) = n + 1
    BY <2>2 DEF Recv!Request
  <2>4. CASE k < Parts
    <3>1. k \in 0 .. Parts - 1 /\ Bytes(n) + k = n * Parts + k /\ k = 0 * Parts + k
      BY Lengths, <1>1, <2>4 DEF Bytes
    <3>2. (n * Parts + k) % Parts = k
      BY <3>1, Lengths, DivMod
    <3>3. (0 * Parts + k) % Parts = k
      BY <3>1, Lengths, DivMod
    <3> QED BY <2>3, <3>1, <3>2, <3>3
  <2>5. CASE k = Parts
    <3>1. /\ 0 \in 0 .. Parts - 1 /\ n + 1 \in Nat /\ 1 \in Nat
          /\ Bytes(n) + k = (n + 1) * Parts + 0 /\ k = 1 * Parts + 0
      BY Lengths, <1>1, <2>5 DEF Bytes
    <3>2. ((n + 1) * Parts + 0) % Parts = 0
      BY <3>1, Lengths, DivMod
    <3>3. (1 * Parts + 0) % Parts = 0
      BY <3>1, Lengths, DivMod
    <3> QED BY <2>3, <3>1, <3>2, <3>3
  <2>6. k < Parts \/ k = Parts
    BY Lengths
  <2> QED BY <2>4, <2>5, <2>6
<1>4. ASSUME NEW x \in Nat, Bytes(n) <= x, x <= Bytes(n) + Parts, x % Parts = 0
      PROVE  x = Bytes(n) \/ x = Bytes(n) + Parts
  <2>1. SUFFICES ASSUME x < Bytes(n) + Parts PROVE x = Bytes(n)
    BY <1>1, <1>4, Lengths
  <2>2. x - Bytes(n) \in 0 .. Parts - 1 /\ x = n * Parts + (x - Bytes(n))
    BY <1>1, <1>4, <2>1, Lengths DEF Bytes
  <2>3. x % Parts = x - Bytes(n)
    BY <2>2, Lengths, DivMod
  <2> QED BY <1>1, <1>4, <2>3
<1> QED BY <1>1, <1>2, <1>3, <1>4

-----------------------------------------------------------------------------
(* The requests.                                                           *)
Served == Len(answered)
Slice(n, k) == [i \in 1 .. k |-> Bytes(n) + i]

ParserTypes ==
    /\ answered \in Seq(Int) /\ buffer \in Seq(Int)
    /\ gotAll \in BOOLEAN /\ outcome \in [Workers -> {"more", "all", "error"}]

(* A worker that the parser has told that the request is complete, or bad, *)
(* until it is ready for the next one.                                     *)
Decides(w) ==
    \/ pc[w] \in {"respond", "reset"}
    \/ pc[w] = "advance" /\ outcome[w] # "more"

(* The client asks one request at a time.  No worker decides: the context  *)
(* holds the beginning of the next request, and nothing else.  One does:   *)
(* it holds the whole request, or none if it was bad; and when it has been *)
(* answered, nothing is parsed before the reset.                           *)
RequestInv ==
    /\ Bytes(Served) <= Len(fed) /\ read <= sent /\ sent <= Bytes(Served) + Parts
    /\ \A v, w \in Workers : Decides(v) /\ Decides(w) => v = w
    /\ (\A w \in Workers : ~Decides(w)) =>
          /\ gotAll = FALSE /\ Len(fed) < Bytes(Served) + Parts
          /\ buffer = Slice(Served, Len(fed) - Bytes(Served))
    /\ \A w \in Workers : pc[w] = "reset" => Len(fed) = Bytes(Served) /\ gotAll = TRUE
    /\ \A w \in Workers : Decides(w) /\ pc[w] # "reset" =>
          /\ Len(fed) = Bytes(Served) + Parts
          /\ \/ outcome[w] = "all" /\ gotAll = TRUE /\ buffer = Slice(Served, Parts)
             \/ outcome[w] = "error" /\ gotAll = FALSE /\ buffer = <<>>
                /\ chunk[w].to = Len(fed)

(* What is parsed was read, and what is read was sent.                     *)
LEMMA ParsedWasSent ==
    ASSUME OrderInv, open
    PROVE  /\ Len(fed) \in Nat /\ read \in Nat /\ sent \in Nat
           /\ Len(fed) <= read
<1>0. expected \in Nat /\ sequence \in Nat /\ recvq \in Seq(Chunk) /\ fed \in Seq(Nat)
      /\ read \in Nat /\ sent \in Nat
  BY DEF OrderInv, Types
<1>1. PICK cut \in [Nat -> Nat] : Turns(cut)
  BY DEF OrderInv
<1>2. \A j \in Nat : j <= sequence => cut[j] <= read
  <2> SUFFICES ASSUME NEW j \in Nat, j <= sequence PROVE cut[j] <= read
    OBVIOUS
  <2>1. CASE j = sequence
    BY <1>0, <1>1, <2>1 DEF Turns, Cuts
  <2>2. CASE j < sequence
    BY <1>0, <1>1, <2>2 DEF Turns, Cuts
  <2> QED BY <1>0, <2>1, <2>2
<1>3. Len(recvq) \in Nat /\ Len(fed) \in Nat
  BY <1>0, SMTT(30)
<1>4. CASE \A w \in Workers : pc[w] # "advance"
  <2>1. expected <= Taken
    BY <1>1 DEF Turns, NoneLost
  <2>2. expected <= sequence
    BY <1>0, <1>3, <2>1 DEF Taken
  <2>3. Len(fed) = cut[expected]
    BY <1>1, <1>4 DEF Turns, Parsed
  <2> QED BY <1>0, <1>2, <1>3, <2>2, <2>3
<1>5. ASSUME NEW w \in Workers, pc[w] = "advance"
      PROVE  Len(fed) <= read
  <2>1. Len(fed) = cut[expected + 1]
    BY <1>1, <1>5 DEF Turns, Parsed
  <2>2. chunk[w].no = expected /\ chunk[w].no < Taken
    BY <1>1, <1>5 DEF Turns, Held, Holds, HasTurn
  <2>3. expected + 1 \in Nat /\ expected + 1 <= sequence
    BY <1>0, <1>3, <2>2 DEF Taken
  <2> QED BY <1>2, <2>1, <2>3
<1> QED BY <1>0, <1>3, <1>4, <1>5

(* A chunk that has its turn begins where the parsed bytes end.            *)
LEMMA TurnBrings ==
    ASSUME OrderInv, open, NEW w \in Workers, HasTurn(w)
    PROVE  /\ chunk[w].seq = seqNo /\ chunk[w].from \in Nat /\ chunk[w].to \in Nat
           /\ chunk[w].to <= read
           /\ pc[w] = "parse" => /\ chunk[w].from = Len(fed) + 1
                                 /\ Len(fed) < chunk[w].to
           /\ pc[w] = "advance" => chunk[w].to = Len(fed)
           /\ \A v \in Workers : HasTurn(v) => v = w
<1>0. /\ chunk[w] \in Chunk /\ expected \in Nat /\ seqNo = 2 /\ sequence \in Nat
      /\ recvq \in Seq(Chunk) /\ read \in Nat
  BY DEF OrderInv, Types, Always
<1>1. PICK cut \in [Nat -> Nat] : Turns(cut)
  BY DEF OrderInv
<1>2. chunk[w].no = expected /\ \A v \in Workers : HasTurn(v) => v = w
  BY <1>1, OneHasTurn
<1>3. /\ chunk[w].from = cut[expected] + 1 /\ chunk[w].to = cut[expected + 1]
      /\ chunk[w].seq = 2 /\ expected < Taken
  BY <1>1, <1>2 DEF Turns, Held, Holds, HasTurn
<1>4. expected + 1 \in Nat /\ expected < expected + 1 /\ expected + 1 <= sequence
  <2>1. Len(recvq) \in Nat
    BY <1>0
  <2> QED BY <1>0, <1>3, <2>1 DEF Taken
<1>5. cut[expected] < cut[expected + 1]
  BY <1>0, <1>1, <1>4 DEF Turns, Cuts
<1>6. cut[expected + 1] <= read
  <2>1. CASE expected + 1 = sequence
    BY <1>0, <1>1, <2>1 DEF Turns, Cuts
  <2>2. CASE expected + 1 < sequence
    BY <1>0, <1>1, <1>4, <2>2 DEF Turns, Cuts
  <2> QED BY <1>0, <1>4, <2>1, <2>2
<1>7. pc[w] = "parse" => Len(fed) = cut[expected]
  BY <1>1, <1>2 DEF Turns, Parsed, HasTurn
<1>8. pc[w] = "advance" => Len(fed) = cut[expected + 1]
  BY <1>1 DEF Turns, Parsed
<1> QED BY <1>0, <1>2, <1>3, <1>5, <1>6, <1>7, <1>8, ChunkFields

(* What the parser is given, and what a complete request looks like to it. *)
LEMMA SliceGrows ==
    ASSUME NEW n \in Nat, NEW k \in Nat, NEW m \in Nat
    PROVE  /\ Slice(n, k) \in Seq(Int) /\ Len(Slice(n, k)) = k
           /\ Slice(n, k) \o [i \in 1 .. m |-> Bytes(n) + k + i] = Slice(n, k + m)
<1> DEFINE t == [i \in 1 .. m |-> Bytes(n) + k + i]
           u == Slice(n, k) \o t
<1>1. Bytes(n) \in Nat
  BY BytesOfRequests
<1>2. /\ Slice(n, k) \in Seq(Int) /\ Len(Slice(n, k)) = k
      /\ \A i \in 1 .. k : Slice(n, k)[i] = Bytes(n) + i
  BY <1>1 DEF Slice
<1>3. t \in Seq(Int) /\ Len(t) = m /\ \A i \in 1 .. m : t[i] = Bytes(n) + k + i
  BY <1>1
<1> HIDE DEF t
<1>4. /\ u \in Seq(Int) /\ Len(u) = k + m
      /\ \A i \in 1 .. k : u[i] = Slice(n, k)[i]
      /\ \A i \in k + 1 .. k + m : u[i] = t[i - k]
  <2>1. /\ Slice(n, k) \o t \in Seq(Int)
        /\ Len(Slice(n, k) \o t) = Len(Slice(n, k)) + Len(t)
        /\ \A i \in 1 .. Len(Slice(n, k)) : (Slice(n, k) \o t)[i] = Slice(n, k)[i]
        /\ \A i \in Len(Slice(n, k)) + 1 .. Len(Slice(n, k)) + Len(t) :
              (Slice(n, k) \o t)[i] = t[i - Len(Slice(n, k))]
    BY <1>2, <1>3, Concat, ZenonT(60)
  <2> QED BY <1>2, <1>3, <2>1
<1> HIDE DEF u
<1>5. ASSUME NEW i \in 1 .. k + m PROVE u[i] = Bytes(n) + i
  <2>1. CASE i \in 1 .. k
    BY <1>2, <1>4, <2>1
  <2>2. CASE i \in k + 1 .. k + m
    <3>1. i - k \in 1 .. m /\ Bytes(n) + k + (i - k) = Bytes(n) + i
      BY <1>1, <2>2
    <3> QED BY <1>3, <1>4, <2>2, <3>1
  <2> QED BY <2>1, <2>2
<1>6. u = Slice(n, k + m)
  <2>1. u = [i \in 1 .. k + m |-> u[i]]
    BY <1>4
  <2> QED BY <1>5, <2>1 DEF Slice
<1> QED BY <1>2, <1>6 DEF u, t

LEMMA SliceInPlace ==
    ASSUME NEW n \in Nat, NEW k \in Nat PROVE Recv!InPlace(Slice(n, k))
<1>1. /\ DOMAIN Slice(n, k) = 1 .. k
      /\ \A i \in 1 .. k : Slice(n, k)[i] = Bytes(n) + i
  BY DEF Slice
<1> SUFFICES ASSUME NEW i \in 1 .. k, i <= Parts
             PROVE  /\ Slice(n, k)[i] % Parts = i % Parts
                    /\ Recv!Request(Slice(n, k)[i]) = Recv!Request(Slice(n, k)[1])
  BY <1>1 DEF Recv!InPlace
<1>2. i \in 1 .. Parts /\ 1 \in 1 .. Parts /\ 1 \in 1 .. k
  BY Lengths
<1>3. /\ Recv!Request(Bytes(n) + i) = n + 1 /\ Recv!Request(Bytes(n) + 1) = n + 1
      /\ (Bytes(n) + i) % Parts = i % Parts
  BY <1>2, BytesOfRequests
<1> QED BY <1>1, <1>2, <1>3

(* The number of the request that a worker answers is a number.            *)
LEMMA AnswersType ==
    ASSUME OrderInv, ParserTypes, NEW w \in Workers PROVE Answers(w) \in Int
<1>1. chunk[w].to \in Nat
  BY ChunkFields DEF OrderInv, Types
<1>2. buffer # <<>> => buffer[1] \in Int
  BY DEF ParserTypes
<1>3. \A k \in Int : Recv!Request(k) \in Int
  BY Lengths DEF Recv!Request
<1>4. CASE outcome[w] = "all" /\ buffer # <<>>
  <2>1. Answers(w) = Recv!Request(buffer[1]) /\ buffer[1] \in Int
    BY <1>2, <1>4 DEF Answers
  <2> QED BY ONLY <1>3, <2>1
<1>5. CASE ~(outcome[w] = "all" /\ buffer # <<>>)
  <2>1. Answers(w) = Recv!Request(chunk[w].to)
    BY <1>5 DEF Answers
  <2> QED BY ONLY <1>1, <1>3, <2>1
<1> QED BY <1>4, <1>5

LEMMA NextParserTypes ==
    ASSUME OrderInv, ParserTypes, [Next]_vars PROVE ParserTypes'
<1> USE DEF Recv!connection, Recv!stream, Recv!context, Recv!workers, Recv!ghosts, recvOnly
<1>1. CASE UNCHANGED <<answered, buffer, gotAll, outcome>>
  BY <1>1 DEF ParserTypes
<1>2. ASSUME NEW w \in Workers, Recv!Parse(w) PROVE ParserTypes'
  <2> DEFINE bytes == [i \in 1 .. chunk[w].to - chunk[w].from + 1 |-> chunk[w].from + i - 1]
  <2>1. /\ answered' = answered
        /\ buffer' \in {buffer \o bytes, <<>>} /\ gotAll' \in BOOLEAN
        /\ \E v \in {"more", "all", "error"} : outcome' = [outcome EXCEPT ![w] = v]
    BY <1>2 DEF Recv!Parse
  <2>2. chunk[w].to - chunk[w].from + 1 \in Int /\ chunk[w].from \in Nat
    BY ChunkFields DEF OrderInv, Types
  <2>3. bytes \in Seq(Int)
    <3>1. CASE chunk[w].to - chunk[w].from + 1 \in Nat
      BY <2>2, <3>1
    <3>2. CASE chunk[w].to - chunk[w].from + 1 < 0
      BY <2>2, <3>2
    <3> QED BY <2>2, <3>1, <3>2
  <2> HIDE DEF bytes
  <2>4. buffer' \in Seq(Int)
    <3>1. buffer \in Seq(Int)
      BY DEF ParserTypes
    <3>2. buffer \o bytes \in Seq(Int)
      BY <2>3, <3>1, Concat
    <3>3. <<>> \in Seq(Int)
      OBVIOUS
    <3> QED BY <2>1, <3>2, <3>3
  <2>5. outcome' \in [Workers -> {"more", "all", "error"}]
    BY <2>1 DEF ParserTypes
  <2> QED BY <2>1, <2>4, <2>5, SMTT(30) DEF ParserTypes
<1>3. ASSUME NEW w \in Workers, Recv!Respond(w) PROVE ParserTypes'
  <2>1. /\ UNCHANGED <<buffer, gotAll, outcome>>
        /\ answered' \in {answered, Append(answered, Answers(w))}
    BY <1>3 DEF Recv!Respond, Answers
  <2>2. Append(answered, Answers(w)) \in Seq(Int)
    BY AnswersType DEF ParserTypes
  <2> QED BY <2>1, <2>2 DEF ParserTypes
<1>4. ASSUME NEW w \in Workers, Recv!Reset(w) PROVE ParserTypes'
  <2>1. /\ buffer' = <<>> /\ gotAll' = FALSE
        /\ UNCHANGED <<answered, outcome>>
    BY <1>4 DEF Recv!Reset
  <2>2. buffer' \in Seq(Int)
    BY <2>1
  <2>3. gotAll' \in BOOLEAN
    BY <2>1, Zenon
  <2> QED BY <2>1, <2>2, <2>3 DEF ParserTypes
<1>5. ASSUME NEW w \in Workers, Assemble(w), ~Recv!Parse(w)
      PROVE  UNCHANGED <<answered, buffer, gotAll, outcome>>
  BY <1>5 DEF Assemble, Recv!Take, Recv!Check, Recv!Proceed, Recv!TimeOut, Recv!Advance
<1>6. CASE ClientSends \/ Recv!Read
  BY <1>1, <1>6 DEF ClientSends, Recv!ClientSends, Recv!Read
<1> QED BY <1>1, <1>2, <1>3, <1>4, <1>5, <1>6, RecvSteps

(* A worker that decides nothing, before or after, leaves the rest as it   *)
(* was.                                                                    *)
LEMMA SameRequests ==
    ASSUME RequestInv, UNCHANGED <<sent, fed, answered, buffer, gotAll>>,
           read' \in {read, sent}, sent \in Nat,
           \A w \in Workers :
              /\ Decides(w)' <=> Decides(w)
              /\ Decides(w) => /\ pc'[w] = "reset" <=> pc[w] = "reset"
                               /\ outcome'[w] = outcome[w] /\ chunk'[w] = chunk[w]
    PROVE  RequestInv'
<1>1. \A w \in Workers : pc'[w] = "reset" => Decides(w) /\ pc[w] = "reset"
  BY DEF Decides
<1>2. \A w \in Workers : Decides(w)' /\ pc'[w] # "reset" => Decides(w) /\ pc[w] # "reset"
  OBVIOUS
<1>3. Served' = Served
  BY DEF Served
<1>4. /\ Bytes(Served') <= Len(fed') /\ read' <= sent' /\ sent' <= Bytes(Served') + Parts
      /\ \A v, w \in Workers : Decides(v)' /\ Decides(w)' => v = w
      /\ (\A w \in Workers : ~Decides(w)') => \A w \in Workers : ~Decides(w)
  BY <1>3 DEF RequestInv
<1>5. \A w \in Workers : pc'[w] = "reset" => Len(fed') = Bytes(Served') /\ gotAll' = TRUE
  BY <1>1, <1>3 DEF RequestInv
<1>6. \A w \in Workers : Decides(w)' /\ pc'[w] # "reset" =>
          /\ Len(fed') = Bytes(Served') + Parts
          /\ \/ outcome'[w] = "all" /\ gotAll' = TRUE /\ buffer' = Slice(Served', Parts)
             \/ outcome'[w] = "error" /\ gotAll' = FALSE /\ buffer' = <<>>
                /\ chunk'[w].to = Len(fed')
  BY <1>2, <1>3 DEF RequestInv
<1>7. (\A w \in Workers : ~Decides(w)') =>
          /\ gotAll' = FALSE /\ Len(fed') < Bytes(Served') + Parts
          /\ buffer' = Slice(Served', Len(fed') - Bytes(Served'))
  BY <1>3, <1>4 DEF RequestInv
<1> QED BY <1>4, <1>5, <1>6, <1>7 DEF RequestInv, Bytes, Slice

LEMMA AskRequests ==
    ASSUME OrderInv, open, RequestInv, Recv!ClientSends
    PROVE  RequestInv'
<1>1. /\ sent' = sent + 1
      /\ sent % Parts = 0 => Served >= sent \div Parts
      /\ UNCHANGED <<read, fed, answered, buffer, gotAll, pc, outcome, chunk>>
  BY DEF Recv!ClientSends, Recv!connection, Recv!context, Recv!workers, Recv!ghosts, Served
<1>2. /\ sent \in Nat /\ read \in Nat /\ Len(fed) \in Nat /\ Len(fed) <= read
      /\ Served \in Nat
  BY ParsedWasSent DEF Served
<1>3. Bytes(Served) <= sent /\ sent <= Bytes(Served) + Parts /\ Bytes(Served) \in Nat
  BY <1>2, BytesOfRequests, SMTT(30) DEF RequestInv
<1>4. sent # Bytes(Served) + Parts
  <2> SUFFICES ASSUME sent = Bytes(Served) + Parts PROVE FALSE
    OBVIOUS
  <2>1. sent = Bytes(Served + 1) /\ Served + 1 \in Nat
    BY <1>2, BytesOfRequests
  <2>2. sent \div Parts = Served + 1 /\ sent % Parts = 0
    BY <2>1, BytesOfRequests
  <2> QED BY <1>1, <1>2, <2>2
<1>5. sent' <= Bytes(Served) + Parts /\ read <= sent'
  <2>1. read <= sent
    BY DEF RequestInv
  <2>2. sent' = sent + 1
    BY <1>1
  <2> QED BY ONLY <1>2, <1>3, <1>4, <2>1, <2>2, Lengths
<1> QED BY <1>1, <1>5 DEF RequestInv, Served, Decides, Bytes, Slice

LEMMA ParseRequests ==
    ASSUME OrderInv, ParserTypes, open, RequestInv, NEW w \in Workers, Recv!Parse(w),
           ~overlapped'
    PROVE  RequestInv'
<1> DEFINE bytes == [i \in 1 .. chunk[w].to - chunk[w].from + 1 |-> chunk[w].from + i - 1]
           all == buffer \o bytes
           verdict(v) == outcome' = [outcome EXCEPT ![w] = v]
<1>0. /\ pc[w] = "parse" /\ pc' = [pc EXCEPT ![w] = "advance"]
      /\ fed' = IF chunk[w].seq = seqNo THEN fed \o bytes ELSE fed
      /\ UNCHANGED <<sent, read, chunk, answered>>
      /\ \/ /\ gotAll \/ (Recv!InPlace(all) /\ Len(all) >= Parts)
            /\ buffer' = all /\ gotAll' = TRUE /\ verdict("all")
         \/ /\ ~gotAll /\ Recv!InPlace(all) /\ Len(all) < Parts
            /\ buffer' = all /\ gotAll' = FALSE /\ verdict("more")
         \/ /\ ~gotAll /\ (Recv!InPlace(all) => Len(all) >= Parts)
            /\ buffer' = <<>> /\ gotAll' = FALSE /\ verdict("error")
  BY DEF Recv!Parse, Recv!stream, Recv!connection
<1>1. /\ chunk[w].seq = seqNo /\ chunk[w].from = Len(fed) + 1 /\ Len(fed) < chunk[w].to
      /\ chunk[w].to \in Nat /\ chunk[w].to <= read
      /\ \A v \in Workers : HasTurn(v) => v = w
  BY <1>0, TurnBrings DEF HasTurn
<1>2. /\ Len(fed) \in Nat /\ read \in Nat /\ sent \in Nat
      /\ Served \in Nat /\ Bytes(Served) \in Nat
      /\ Bytes(Served) <= Len(fed) /\ read <= sent /\ sent <= Bytes(Served) + Parts
  <2>1. Served \in Nat
    BY DEF ParserTypes, Served
  <2>2. Bytes(Served) <= Len(fed) /\ read <= sent /\ sent <= Bytes(Served) + Parts
    BY DEF RequestInv
  <2> QED BY <2>1, <2>2, ParsedWasSent, BytesOfRequests
<1>3. pc \in [Workers -> Points] /\ outcome \in [Workers -> {"more", "all", "error"}]
  BY DEF OrderInv, Types, ParserTypes
<1> HIDE DEF bytes, verdict
<1>g. gotAll = FALSE
  <2>1. overlapped' = (overlapped \/ gotAll)
    BY DEF Recv!Parse
  <2>2. gotAll \in BOOLEAN
    BY DEF ParserTypes
  <2> QED BY <2>1, <2>2, Zenon
(* Nobody decides, so the context holds what has been parsed of a request. *)
<1>4. \A v \in Workers : ~Decides(v)
  <2> SUFFICES ASSUME NEW v \in Workers, Decides(v) PROVE FALSE
    OBVIOUS
  <2>1. pc[v] # "reset"
    BY <1>g DEF RequestInv
  <2>2. pc[v] # "reset" => Len(fed) = Bytes(Served) + Parts
    BY DEF RequestInv
  <2> QED BY <1>1, <1>2, <2>1, <2>2, Lengths, SMTT(30)
<1> DEFINE k == Len(fed) - Bytes(Served)
           m == chunk[w].to - Len(fed)
<1>5. /\ k \in Nat /\ m \in Nat /\ m > 0 /\ k + m <= Parts /\ Bytes(Served) + k = Len(fed)
      /\ Bytes(Served) + (k + m) = chunk[w].to /\ Len(fed) + m = chunk[w].to
  <2>1. Len(fed) < chunk[w].to /\ chunk[w].to \in Nat /\ chunk[w].to <= read
    BY <1>1
  <2>2. Parts \in Nat
    BY Lengths
  <2>3. /\ Bytes(Served) <= Len(fed) /\ Len(fed) < chunk[w].to /\ chunk[w].to <= read
        /\ read <= sent /\ sent <= Bytes(Served) + Parts
    BY <1>2, <2>1
  <2>4. /\ Bytes(Served) \in Nat /\ Len(fed) \in Nat /\ read \in Nat /\ sent \in Nat
    BY <1>2
  <2> DEFINE b == Bytes(Served)
             f == Len(fed)
             t == chunk[w].to
  <2>5. /\ b \in Nat /\ f \in Nat /\ read \in Nat /\ sent \in Nat /\ t \in Nat
        /\ b <= f /\ f < t /\ t <= read /\ read <= sent /\ sent <= b + Parts
        /\ k = f - b /\ m = t - f
    BY <2>1, <2>3, <2>4
  <2> HIDE DEF b, f, t, k, m
  <2>6. /\ k \in Nat /\ m \in Nat /\ m > 0 /\ k + m <= Parts /\ b + k = f
        /\ b + (k + m) = t /\ f + m = t
    BY ONLY <2>2, <2>5
  <2> QED BY <2>6 DEF b, f, t
<1>6. gotAll = FALSE /\ buffer = Slice(Served, k)
  BY <1>4 DEF RequestInv
<1>7. bytes = [i \in 1 .. m |-> Bytes(Served) + k + i]
  <2>1. chunk[w].to - chunk[w].from + 1 = m
    BY <1>1, <1>2
  <2>2. \A i \in 1 .. m : chunk[w].from + i - 1 = Bytes(Served) + k + i
    BY <1>1, <1>2
  <2> QED BY <2>1, <2>2 DEF bytes
<1> HIDE DEF k
<1>8. all = Slice(Served, k + m)
  <2> HIDE DEF m
  <2>1. Served \in Nat /\ k \in Nat /\ m \in Nat
    BY <1>2, <1>5
  <2>2. Slice(Served, k) \o [i \in 1 .. m |-> Bytes(Served) + k + i] = Slice(Served, k + m)
    BY ONLY <2>1, SliceGrows
  <2>3. all = Slice(Served, k) \o bytes
    BY <1>6
  <2> QED BY ONLY <1>7, <2>2, <2>3
<1>9. Recv!InPlace(all) /\ Len(all) = k + m
  <2>1. k + m \in Nat
    BY <1>5
  <2>2. Recv!InPlace(Slice(Served, k + m)) /\ Len(Slice(Served, k + m)) = k + m
    BY <1>2, <2>1, SliceInPlace, SliceGrows
  <2> QED BY <1>8, <2>2
<1> HIDE DEF all
<1>10. Len(fed') = Bytes(Served) + (k + m) /\ chunk[w].to = Bytes(Served) + (k + m)
  <2>1. bytes \in Seq(Nat) /\ Len(bytes) = m /\ fed \in Seq(Nat)
    <3>1. \A i \in 1 .. m : Bytes(Served) + k + i \in Nat
      <4> HIDE DEF m
      <4> QED BY <1>2, <1>5, SMTT(30)
    <3>2. fed \in Seq(Nat)
      BY DEF OrderInv, Types
    <3> HIDE DEF m
    <3>3. m \in Nat
      BY <1>5
    <3>4. bytes \in [1 .. m -> Nat]
      BY ONLY <1>7, <3>1
    <3> HIDE DEF bytes
    <3> QED BY ONLY <3>2, <3>3, <3>4, Listed
  <2>2. fed' = fed \o bytes
    BY <1>0, <1>1
  <2>3. Len(fed') = Len(fed) + m
    BY <2>1, <2>2, Concat
  <2> HIDE DEF m
  <2> QED BY <1>5, <2>3
<1> HIDE DEF m
<1>11. /\ Served' = Served /\ Bytes(Served)' = Bytes(Served)
       /\ \A v \in Workers \ {w} : Decides(v)' <=> Decides(v)
       /\ \A v \in Workers : pc'[v] # "reset"
  <2>1. Served' = Served
    BY <1>0 DEF Served
  <2>2. \A v \in Workers \ {w} : pc'[v] = pc[v] /\ outcome'[v] = outcome[v]
    BY <1>0, <1>3 DEF verdict
  <2>3. \A v \in Workers : pc'[v] # "reset"
    BY <1>0, <1>3, <1>4, <2>2 DEF Decides
  <2> QED BY <2>1, <2>2, <2>3 DEF Bytes, Decides
<1>12. pc'[w] = "advance"
  BY <1>0, <1>3
<1>13. /\ Bytes(Served) <= Len(fed') /\ UNCHANGED <<read, sent, chunk>>
  BY <1>0, <1>2, <1>5, <1>10
<1>14. CASE k + m = Parts
  <2>1. /\ Decides(w)'
        /\ \/ outcome'[w] = "all" /\ gotAll' = TRUE /\ buffer' = Slice(Served, Parts)
           \/ outcome'[w] = "error" /\ gotAll' = FALSE /\ buffer' = <<>>
    BY <1>0, <1>3, <1>5, <1>6, <1>8, <1>9, <1>12, <1>14, Lengths DEF verdict, Decides
  <2> QED BY <1>2, <1>4, <1>10, <1>11, <1>13, <1>14, <2>1 DEF RequestInv, Slice, Bytes
<1>15. CASE k + m < Parts
  <2>1. outcome'[w] = "more" /\ gotAll' = FALSE /\ buffer' = Slice(Served, k + m)
    BY <1>0, <1>3, <1>5, <1>6, <1>8, <1>9, <1>15, Lengths DEF verdict
  <2>2. \A v \in Workers : ~Decides(v)'
    BY <1>4, <1>11, <1>12, <2>1 DEF Decides
  <2>3. Len(fed') - Bytes(Served) = k + m /\ Len(fed') < Bytes(Served) + Parts
    BY ONLY <1>2, <1>5, <1>10, <1>15, Lengths, SMTT(30)
  <2> QED BY <1>2, <1>11, <1>13, <2>1, <2>2, <2>3 DEF RequestInv, Slice, Bytes
<1> QED BY <1>5, <1>14, <1>15, Lengths, SMTT(30)

LEMMA MoveRequests ==
    ASSUME OrderInv, ParserTypes, open, RequestInv, NEW w \in Workers,
           \/ Recv!Take(w) \/ Recv!Check(w) \/ Recv!Proceed(w) \/ Recv!TimeOut(w)
           \/ Recv!Advance(w)
    PROVE  RequestInv'
<1> USE DEF Recv!connection, Recv!stream, Recv!context, Recv!workers, Recv!ghosts
<1>0. pc \in [Workers -> Points] /\ chunk \in [Workers -> Chunk] /\ sent \in Nat
  BY DEF OrderInv, Types
<1>1. UNCHANGED <<sent, read, fed, answered, buffer, gotAll, outcome>>
  BY DEF Recv!Take, Recv!Check, Recv!Proceed, Recv!TimeOut, Recv!Advance
<1>2. /\ \E to \in Points : pc' = [pc EXCEPT ![w] = to]
      /\ \A v \in Workers \ {w} : chunk'[v] = chunk[v]
  BY <1>0 DEF Recv!Take, Recv!Check, Recv!Proceed, Recv!TimeOut, Recv!Advance, Points
<1>3. /\ Decides(w)' <=> Decides(w)
      /\ Decides(w) => pc'[w] # "reset" /\ pc[w] # "reset" /\ chunk'[w] = chunk[w]
  <2>1. CASE Recv!Advance(w)
    BY <1>0, <1>1, <2>1 DEF Recv!Advance, Decides
  <2>2. CASE Recv!Take(w) \/ Recv!Check(w) \/ Recv!Proceed(w) \/ Recv!TimeOut(w)
    <3>1. /\ pc[w] \in {"idle", "check", "wait"}
          /\ \E to \in {"idle", "check", "wait", "parse"} : pc' = [pc EXCEPT ![w] = to]
      BY <2>2 DEF Recv!Take, Recv!Check, Recv!Proceed, Recv!TimeOut
    <3>2. ~Decides(w) /\ ~Decides(w)'
      BY <1>0, <3>1 DEF Decides
    <3> QED BY <3>2
  <2> QED BY <2>1, <2>2
<1>4. \A v \in Workers : /\ Decides(v)' <=> Decides(v)
                         /\ Decides(v) => /\ pc'[v] = "reset" <=> pc[v] = "reset"
                                          /\ outcome'[v] = outcome[v] /\ chunk'[v] = chunk[v]
  <2> SUFFICES ASSUME NEW v \in Workers
               PROVE  /\ Decides(v)' <=> Decides(v)
                      /\ Decides(v) => /\ pc'[v] = "reset" <=> pc[v] = "reset"
                                       /\ outcome'[v] = outcome[v] /\ chunk'[v] = chunk[v]
    OBVIOUS
  <2>1. CASE v = w
    BY <1>1, <1>3, <2>1
  <2>2. CASE v # w
    BY <1>0, <1>1, <1>2, <2>2 DEF Decides
  <2> QED BY <2>1, <2>2
<1> QED BY <1>0, <1>1, <1>4, SameRequests

(* The worker that answers answers the next request, which is all that has *)
(* been read.                                                              *)
LEMMA RespondsToNext ==
    ASSUME OrderInv, ParserTypes, open, RequestInv, NEW w \in Workers, pc[w] = "respond"
    PROVE  /\ Served \in Nat /\ Answers(w) = Served + 1
           /\ Len(fed) = Bytes(Served) + Parts /\ read = Len(fed) /\ sent = Len(fed)
           /\ chunk[w].seq = seqNo
<1>1. /\ Decides(w) /\ pc[w] # "reset"
      /\ chunk[w].seq = seqNo
  BY DEF Decides, OrderInv, Always
<1>2. /\ Len(fed) = Bytes(Served) + Parts
      /\ \/ outcome[w] = "all" /\ gotAll = TRUE /\ buffer = Slice(Served, Parts)
         \/ outcome[w] = "error" /\ gotAll = FALSE /\ buffer = <<>>
            /\ chunk[w].to = Len(fed)
      /\ read <= sent /\ sent <= Bytes(Served) + Parts
  BY <1>1 DEF RequestInv
<1>3. /\ Served \in Nat /\ Bytes(Served) \in Nat /\ Parts \in 1 .. Parts /\ 1 \in 1 .. Parts
      /\ Recv!Request(Bytes(Served) + Parts) = Served + 1
      /\ Recv!Request(Bytes(Served) + 1) = Served + 1
  <2>1. Served \in Nat
    BY DEF Served, ParserTypes
  <2>2. Parts \in 1 .. Parts /\ 1 \in 1 .. Parts
    BY Lengths
  <2> QED BY <2>1, <2>2, BytesOfRequests
<1>4. Answers(w) = Served + 1
  <2>1. CASE outcome[w] = "all" /\ buffer = Slice(Served, Parts)
    <3>1. buffer # <<>> /\ buffer[1] = Bytes(Served) + 1
      BY <1>3, <2>1 DEF Slice
    <3> QED BY <1>3, <2>1, <3>1 DEF Answers
  <2>2. CASE outcome[w] = "error" /\ chunk[w].to = Len(fed)
    BY <1>2, <1>3, <2>2 DEF Answers
  <2> QED BY <1>2, <2>1, <2>2
<1>5. read = Len(fed) /\ sent = Len(fed)
  <2>1. Len(fed) \in Nat /\ read \in Nat /\ sent \in Nat /\ Len(fed) <= read
    BY ParsedWasSent
  <2>2. Len(fed) = Bytes(Served) + Parts /\ read <= sent /\ sent <= Bytes(Served) + Parts
    BY <1>2
  <2> QED BY ONLY <2>1, <2>2, <1>3
<1> QED BY <1>1, <1>2, <1>3, <1>4, <1>5

LEMMA RespondRequests ==
    ASSUME OrderInv, ParserTypes, open, RequestInv, NEW w \in Workers, Recv!Respond(w)
    PROVE  RequestInv'
<1>0. PICK to \in {"idle", "reset"} :
         /\ pc[w] = "respond" /\ pc' = [pc EXCEPT ![w] = to]
         /\ to = IF outcome[w] = "all" THEN "reset" ELSE "idle"
         /\ answered' = IF chunk[w].seq = seqNo THEN Append(answered, Answers(w)) ELSE answered
         /\ UNCHANGED <<sent, read, fed, buffer, gotAll, outcome, chunk>>
  BY DEF Recv!Respond, Recv!stream, Recv!connection, Recv!context, Answers
<1>1. /\ Served \in Nat /\ Answers(w) = Served + 1 /\ chunk[w].seq = seqNo
      /\ Len(fed) = Bytes(Served) + Parts /\ read = Len(fed) /\ sent = Len(fed)
  BY <1>0, RespondsToNext
<1>2. Served' = Served + 1
  BY <1>0, <1>1, AnswersType DEF Served, ParserTypes
<1>3. Bytes(Served + 1) = Bytes(Served) + Parts /\ Bytes(Served) \in Nat
  BY <1>1, BytesOfRequests
<1>4. /\ Len(fed') = Bytes(Served + 1) /\ sent' = Bytes(Served + 1)
      /\ read' = Bytes(Served + 1) /\ Bytes(Served + 1) \in Nat
  BY <1>0, <1>1, <1>3, Lengths
<1>5. /\ pc \in [Workers -> Points] /\ Decides(w)
      /\ \A v \in Workers : Decides(v) => v = w
  BY <1>0 DEF OrderInv, Types, Decides, RequestInv
<1>6. \A v \in Workers : Decides(v)' => v = w /\ pc'[v] = "reset"
  BY <1>0, <1>5 DEF Decides
<1>7. /\ Bytes(Served)' <= Len(fed') /\ read' <= sent' /\ sent' <= Bytes(Served)' + Parts
      /\ Len(fed') < Bytes(Served)' + Parts /\ Len(fed') = Bytes(Served)'
      /\ Len(fed') - Bytes(Served)' = 0
  BY <1>2, <1>4, Lengths DEF Bytes
<1>9. ASSUME NEW v \in Workers, pc'[v] = "reset" PROVE gotAll' = TRUE
  <2>1. v = w /\ to = "reset"
    BY <1>0, <1>5, <1>6, <1>9 DEF Decides
  <2>2. outcome[w] = "all"
    BY <1>0, <2>1
  <2>3. gotAll = TRUE
    BY <1>0, <1>5, <2>2 DEF RequestInv
  <2> QED BY <1>0, <2>3
<1>8. ASSUME \A v \in Workers : ~Decides(v)'
      PROVE  gotAll' = FALSE /\ buffer' = Slice(Served, Len(fed) - Bytes(Served))'
  <2>1. ~(to = "reset")
    BY <1>0, <1>5, <1>8 DEF Decides
  <2>2. outcome[w] # "all"
    BY <1>0, <2>1
  <2>3. gotAll = FALSE /\ buffer = <<>>
    BY <1>0, <1>5, <2>2 DEF RequestInv
  <2>4. Slice(Served, Len(fed) - Bytes(Served))' = <<>>
    BY <1>7 DEF Slice
  <2> QED BY <1>0, <2>3, <2>4
<1> QED BY <1>6, <1>7, <1>8, <1>9 DEF RequestInv

LEMMA ResetRequests ==
    ASSUME OrderInv, ParserTypes, open, RequestInv, NEW w \in Workers, Recv!Reset(w)
    PROVE  RequestInv'
<1>0. /\ pc[w] = "reset" /\ pc' = [pc EXCEPT ![w] = "idle"] /\ buffer' = <<>> /\ gotAll' = FALSE
      /\ UNCHANGED <<sent, read, fed, answered, outcome, chunk>>
  BY DEF Recv!Reset, Recv!stream, Recv!connection, Recv!context, Recv!ghosts
<1>1. /\ pc \in [Workers -> Points] /\ Decides(w)
      /\ \A v \in Workers : Decides(v) => v = w
  BY <1>0 DEF OrderInv, Types, Decides, RequestInv
<1>2. \A v \in Workers : ~Decides(v)'
  BY <1>0, <1>1 DEF Decides
<1>3. /\ Len(fed) = Bytes(Served) /\ read <= sent /\ sent <= Bytes(Served) + Parts
  BY <1>0 DEF RequestInv
<1>4. Served \in Nat /\ Served' = Served
  BY <1>0 DEF ParserTypes, Served
<1>5. Len(fed) = Bytes(Served) /\ Bytes(Served) \in Nat
  BY <1>3, <1>4, BytesOfRequests
<1>6. Len(fed) - Bytes(Served) = 0 /\ Len(fed) < Bytes(Served) + Parts
  BY ONLY <1>5, Lengths
<1>7. buffer' = Slice(Served, Len(fed) - Bytes(Served))
  BY <1>0, <1>6 DEF Slice
<1>8. \A v \in Workers : pc'[v] # "reset"
  BY <1>2 DEF Decides
<1> QED BY <1>0, <1>2, <1>3, <1>4, <1>6, <1>7, <1>8 DEF RequestInv, Bytes, Slice

LEMMA NextRequests ==
    ASSUME OrderInv, ParserTypes, open, RequestInv, [Next]_vars, ~overlapped'
    PROVE  RequestInv'
<1>1. CASE ClientSends
  BY <1>1, AskRequests DEF ClientSends
<1>2. CASE Recv!Read
  <2>1. /\ UNCHANGED <<sent, fed, answered, buffer, gotAll, pc, outcome, chunk>>
        /\ read' = sent /\ sent \in Nat
    BY <1>2 DEF Recv!Read, Recv!stream, Recv!context, Recv!workers, Recv!ghosts, OrderInv, Types
  <2> QED BY <2>1, SameRequests DEF Decides
<1>3. ASSUME NEW w \in Workers, Assemble(w) PROVE RequestInv'
  BY <1>3, MoveRequests, ParseRequests DEF Assemble
<1>4. CASE UNCHANGED recvOnly
  <2>1. UNCHANGED <<sent, read, fed, answered, buffer, gotAll, pc, outcome, chunk>>
        /\ sent \in Nat
    BY <1>4 DEF recvOnly, OrderInv, Types
  <2> QED BY <2>1, SameRequests DEF Decides
<1> QED BY <1>1, <1>2, <1>3, <1>4, RespondRequests, ResetRequests, RecvSteps

-----------------------------------------------------------------------------
(* The responses.                                                          *)
Units == Int \X Int \X Int
Messages == [data : Seq(Units), seq : Nat, bad : BOOLEAN, close : BOOLEAN]
WorkerPoints == {"idle", "msgSend", "enqueue", "post"}
SenderPoints == {"wait", "take", "send", "sent", "save", "arm", "crashed"}

SendTypes ==
    /\ wire \in [1 .. 1 -> Seq(Units)] /\ psendbuf \in Seq(Units)
    /\ sendq \in Seq(Messages)
    /\ wpc \in [Workers -> WorkerPoints] /\ job \in [Workers -> Messages]
    /\ spc \in [Senders -> SenderPoints] /\ cur \in [Senders -> Messages]

LEMMA MessageFields ==
    /\ Send!NoMessage \in Messages
    /\ \A m \in Messages : m.data \in Seq(Units)
    /\ \A m \in Messages, d \in Seq(Units) :
          [m EXCEPT !.data = d] \in Messages /\ [m EXCEPT !.data = d].data = d
    /\ \A m \in Messages, q \in Nat :
          [m EXCEPT !.seq = q] \in Messages /\ [m EXCEPT !.seq = q].data = m.data
    /\ \A d \in Seq(Units), b \in BOOLEAN, c \in BOOLEAN :
          [data |-> d, seq |-> 0, bad |-> b, close |-> c] \in Messages
<1> DEFINE U == Units
<1>0. Messages = [data : Seq(U), seq : Nat, bad : BOOLEAN, close : BOOLEAN]
  BY DEF Messages
<1> HIDE DEF U
<1>1. Send!NoMessage \in Messages
  BY <1>0 DEF Send!NoMessage
<1>2. \A m \in Messages : m.data \in Seq(U)
  BY <1>0
<1>3. \A m \in Messages, d \in Seq(U) :
          [m EXCEPT !.data = d] \in Messages /\ [m EXCEPT !.data = d].data = d
  BY <1>0
<1>4. \A m \in Messages, q \in Nat :
          [m EXCEPT !.seq = q] \in Messages /\ [m EXCEPT !.seq = q].data = m.data
  BY <1>0
<1>5. \A d \in Seq(U), b \in BOOLEAN, c \in BOOLEAN :
          [data |-> d, seq |-> 0, bad |-> b, close |-> c] \in Messages
  BY <1>0
<1> QED BY <1>1, <1>2, <1>3, <1>4, <1>5 DEF U

LEMMA ResponseType ==
    ASSUME NEW k \in Int, NEW r \in Int PROVE Send!Response(k, r) \in Seq(Units)
<1>1. RespLen \in Nat
  BY Lengths
<1>2. \A i \in 1 .. RespLen : <<k, r, i>> \in Units
  BY DEF Units
<1> QED BY <1>1, <1>2 DEF Send!Response

(* What the kernel takes of the data, and what it leaves.                  *)
LEMMA WriteTypes ==
    ASSUME SendTypes, NEW d \in Seq(Units), NEW n, Send!Write(d, n)
    PROVE  /\ n \in 1 .. Len(d)
           /\ wire' = [wire EXCEPT ![1] = wire[1] \o SubSeq(d, 1, n)]
           /\ wire' \in [1 .. 1 -> Seq(Units)]
           /\ SubSeq(d, n + 1, Len(d)) \in Seq(Units)
<1>1. n \in 1 .. Len(d) /\ wire' = [wire EXCEPT ![1] = wire[1] \o SubSeq(d, 1, n)]
  BY DEF Send!Write
<1> DEFINE U == Units
<1>2. wire \in [1 .. 1 -> Seq(U)] /\ d \in Seq(U)
  BY DEF SendTypes
<1> HIDE DEF U
<1>3. SubSeq(d, 1, n) \in Seq(U) /\ SubSeq(d, n + 1, Len(d)) \in Seq(U)
  BY <1>1, <1>2
<1>4. wire[1] \in Seq(U)
  BY <1>2
<1>5. wire[1] \o SubSeq(d, 1, n) \in Seq(U)
  BY <1>3, <1>4, Concat
<1> QED BY <1>1, <1>2, <1>3, <1>5 DEF U

(* A worker, or a sender, moves on; the rest is as it was.                 *)
LEMMA WorkerMoves ==
    ASSUME SendTypes, NEW w \in Workers, NEW to \in WorkerPoints, NEW m \in Messages,
           wpc' = [wpc EXCEPT ![w] = to], UNCHANGED job \/ job' = [job EXCEPT ![w] = m],
           UNCHANGED <<wire, psendbuf, spc, cur>>, sendq' \in Seq(Messages)
    PROVE  SendTypes'
BY DEF SendTypes

LEMMA SenderMoves ==
    ASSUME SendTypes, NEW s \in Senders, NEW to \in SenderPoints, NEW m \in Messages,
           spc' = [spc EXCEPT ![s] = to], UNCHANGED cur \/ cur' = [cur EXCEPT ![s] = m],
           UNCHANGED <<wpc, job>>, wire' \in [1 .. 1 -> Seq(Units)],
           psendbuf' \in Seq(Units), sendq' \in Seq(Messages)
    PROVE  SendTypes'
BY DEF SendTypes

LEMMA NextSendTypes ==
    ASSUME OrderInv, ParserTypes, SendTypes, [Next]_vars PROVE SendTypes'
<1> USE DEF Send!conn, Send!status, Send!socket, Send!buffer, Send!queue, Send!workers,
            Send!senders, sendOnly, WorkerPoints, SenderPoints
<1>0. /\ Send!NoMessage \in Messages /\ sendq \in Seq(Messages)
      /\ wire \in [1 .. 1 -> Seq(Units)] /\ psendbuf \in Seq(Units)
  BY MessageFields DEF SendTypes
<1>1. ASSUME UNCHANGED <<wire, psendbuf, sendq, wpc, job, spc, cur>> PROVE SendTypes'
  BY <1>1 DEF SendTypes
<1>2. ASSUME NEW w \in Workers, Respond(w) PROVE SendTypes'
  <2> DEFINE d == Send!Response(1, Answers(w))
             m(c) == [data |-> d, seq |-> 0, bad |-> outcome[w] = "error", close |-> c]
  <2>1. PICK c \in BOOLEAN :
           /\ wpc' = [wpc EXCEPT ![w] = "msgSend"] /\ job' = [job EXCEPT ![w] = m(c)]
           /\ UNCHANGED <<wire, psendbuf, spc, cur, sendq>>
    BY <1>2 DEF Respond, Send!Answer
  <2>2. d \in Seq(Units)
    BY AnswersType, ResponseType
  <2>3. (outcome[w] = "error") \in BOOLEAN
    OBVIOUS
  <2> HIDE DEF d
  <2>4. m(c) \in Messages
    BY <2>2, <2>3, MessageFields
  <2> HIDE DEF m
  <2> QED BY <1>0, <2>1, <2>4, WorkerMoves
<1>3. ASSUME NEW w \in Workers, MsgSend(w) PROVE SendTypes'
  <2>1. CASE Send!MsgSendDrops(w) \/ Send!MsgSendCuts(w) \/ Send!Post(w)
    <3>1. wpc' = [wpc EXCEPT ![w] = "idle"] /\ UNCHANGED <<wire, psendbuf, spc, cur, sendq, job>>
      BY <2>1 DEF Send!MsgSendDrops, Send!MsgSendCuts, Send!Post
    <3> QED BY <1>0, <3>1, WorkerMoves
  <2>2. CASE Send!MsgSendStamps(w)
    <3>1. /\ wpc' = [wpc EXCEPT ![w] = "enqueue"]
          /\ job' = [job EXCEPT ![w] = [job[w] EXCEPT !.seq = seqNo]]
          /\ UNCHANGED <<wire, psendbuf, spc, cur, sendq>>
      BY <2>2 DEF Send!MsgSendStamps
    <3>2. [job[w] EXCEPT !.seq = seqNo] \in Messages
      <4>1. job[w] \in Messages /\ seqNo \in Nat
        BY DEF SendTypes, OrderInv, Types
      <4> QED BY <4>1, MessageFields
    <3> QED BY <1>0, <3>1, <3>2, WorkerMoves
  <2>3. CASE Send!Enqueue(w)
    <3>1. /\ wpc' = [wpc EXCEPT ![w] = "post"] /\ sendq' = Append(sendq, job[w])
          /\ UNCHANGED <<wire, psendbuf, spc, cur, job>>
      BY <2>3 DEF Send!Enqueue
    <3>2. sendq' \in Seq(Messages)
      <4>1. job[w] \in Messages
        BY DEF SendTypes
      <4> QED BY <1>0, <3>1, <4>1
    <3> QED BY <1>0, <3>1, <3>2, WorkerMoves
  <2> QED BY <1>3, <2>1, <2>2, <2>3 DEF MsgSend
<1>4. ASSUME NEW s \in Senders, SendStep(s) PROVE SendTypes'
  <2>1. CASE \/ Send!SemWait(s) \/ Send!TakeNothing(s) \/ Send!SendBlocked(s) \/ Send!SendFails(s)
             \/ Send!Finished(s) \/ Send!Arm(s)
    <3>1. PICK to \in SenderPoints :
             /\ spc' = [spc EXCEPT ![s] = to]
             /\ UNCHANGED cur \/ cur' = [cur EXCEPT ![s] = Send!NoMessage]
             /\ UNCHANGED <<wpc, job, wire, sendq>> /\ psendbuf' \in {psendbuf, <<>>}
      BY <2>1 DEF Send!SemWait, Send!TakeNothing, Send!SendBlocked, Send!SendFails,
         Send!Finished, Send!Arm
    <3>2. psendbuf' \in Seq(Units)
      <4>1. <<>> \in Seq(Units)
        OBVIOUS
      <4> QED BY <1>0, <3>1, <4>1
    <3> QED BY <1>0, <3>1, <3>2, SenderMoves
  <2>2. CASE Send!Take(s)
    <3>1. PICK to \in SenderPoints :
             /\ spc' = [spc EXCEPT ![s] = to] /\ sendq # <<>> /\ sendq' = Tail(sendq)
             /\ UNCHANGED cur \/ cur' = [cur EXCEPT ![s] = Head(sendq)]
             /\ UNCHANGED <<wpc, job, wire, psendbuf>>
      BY <2>2 DEF Send!Take
    <3>2. Head(sendq) \in Messages /\ sendq' \in Seq(Messages)
      BY <1>0, <3>1
    <3> QED BY <1>0, <3>1, <3>2, SenderMoves
  <2>3. CASE Send!Send(s)
    <3>1. PICK n \in 1 .. RespLen :
             /\ Send!Write(cur[s].data, n)
             /\ cur' = [cur EXCEPT ![s] = [cur[s] EXCEPT !.data =
                                              SubSeq(cur[s].data, n + 1, Len(cur[s].data))]]
             /\ spc' = [spc EXCEPT ![s] = IF n = Len(cur[s].data) THEN "sent" ELSE "save"]
             /\ UNCHANGED <<wpc, job, sendq, psendbuf>>
      BY <2>3 DEF Send!Send
    <3>2. cur[s] \in Messages /\ cur[s].data \in Seq(Units)
      BY MessageFields DEF SendTypes
    <3>3. /\ wire' \in [1 .. 1 -> Seq(Units)]
          /\ SubSeq(cur[s].data, n + 1, Len(cur[s].data)) \in Seq(Units)
      BY <3>1, <3>2, WriteTypes
    <3>4. [cur[s] EXCEPT !.data = SubSeq(cur[s].data, n + 1, Len(cur[s].data))] \in Messages
      BY <3>2, <3>3, MessageFields
    <3>5. (IF n = Len(cur[s].data) THEN "sent" ELSE "save") \in SenderPoints
      OBVIOUS
    <3> QED BY <1>0, <3>1, <3>3, <3>4, <3>5, SenderMoves
  <2>4. CASE Send!Save(s)
    <3>1. /\ spc' = [spc EXCEPT ![s] = "arm"] /\ psendbuf' = psendbuf \o cur[s].data
          /\ UNCHANGED <<wpc, job, wire, sendq, cur>>
      BY <2>4 DEF Send!Save
    <3>2. cur[s].data \in Seq(Units)
      BY MessageFields DEF SendTypes
    <3>3. psendbuf' \in Seq(Units)
      <4>1. psendbuf \o cur[s].data \in Seq(Units)
        BY <1>0, <3>2, Concat
      <4> QED BY <3>1, <4>1
    <3> QED BY <1>0, <3>1, <3>3, SenderMoves
  <2> QED BY <1>4, <2>1, <2>2, <2>3, <2>4 DEF SendStep, Send!SenderStep
<1>5. CASE WriteStep
  <2>1. CASE Send!WriteOut
    <3>1. PICK n \in 1 .. Len(psendbuf) :
             /\ Send!Write(psendbuf, n) /\ psendbuf' = SubSeq(psendbuf, n + 1, Len(psendbuf))
             /\ UNCHANGED <<sendq, wpc, job, spc, cur>>
      BY <2>1 DEF Send!WriteOut
    <3>2. wire' \in [1 .. 1 -> Seq(Units)] /\ psendbuf' \in Seq(Units)
      BY <1>0, <3>1, WriteTypes
    <3> QED BY <3>1, <3>2 DEF SendTypes
  <2>2. CASE ~Send!WriteOut
    BY <1>1, <1>5, <2>2 DEF WriteStep, Send!WriteStep, Send!WriteEvent, Send!WriteBlocked,
       Send!WriteFails, Send!Disarm, Send!WriteFinished
  <2> QED BY <2>1, <2>2
<1>6. CASE ClientReads \/ ClientLeaves \/ ClientSends \/ Read
  BY <1>1, <1>6 DEF ClientReads, ClientLeaves, ClientSends, Read, Send!ClientReads,
     Send!ClientLeaves
<1>7. CASE UNCHANGED vars
  BY <1>1, <1>7 DEF vars
<1>8. ASSUME NEW w \in Workers, Assemble(w) \/ Reset(w) PROVE SendTypes'
  BY <1>1, <1>8 DEF Assemble, Reset
<1> QED BY <1>2, <1>3, <1>4, <1>5, <1>6, <1>7, <1>8 DEF Next, WorkerStep

(* Unit k of all that is owed to the client, and m units from the one      *)
(* after l on.                                                             *)
Unit(k) == <<1, ((k - 1) \div RespLen) + 1, ((k - 1) % RespLen) + 1>>
Piece(l, m) == [i \in 1 .. m |-> Unit(l + i)]

Sofar == Len(wire[1])
Rest == Piece(Sofar, Owed(Served) - Sofar)

(* Where the rest of a response can be: with a worker that queues it, in   *)
(* the queue, with a sender, or in psendbuf.                               *)
Writes(w) == wpc[w] \in {"msgSend", "enqueue"}
Sends(s) == spc[s] \in {"send", "save"}

Carried ==
    /\ \A w \in Workers : Writes(w) => job[w].data = Rest
    /\ \A i \in 1 .. Len(sendq) : sendq[i].data = Rest
    /\ \A s \in Senders : Sends(s) => cur[s].data = Rest
    /\ psendbuf # <<>> => psendbuf = Rest
OneCarrier ==
    /\ \A v, w \in Workers : Writes(v) /\ Writes(w) => v = w
    /\ \A s, t \in Senders : Sends(s) /\ Sends(t) => s = t
    /\ Len(sendq) <= 1
    /\ (\E w \in Workers : Writes(w)) =>
          sendq = <<>> /\ psendbuf = <<>> /\ \A s \in Senders : ~Sends(s)
    /\ sendq # <<>> => psendbuf = <<>> /\ \A s \in Senders : ~Sends(s)
    /\ (\E s \in Senders : Sends(s)) => psendbuf = <<>>
NoCarrier ==
    /\ \A w \in Workers : ~Writes(w)
    /\ \A s \in Senders : ~Sends(s)
    /\ sendq = <<>> /\ psendbuf = <<>>

(* While the connection is open, at most one carrier has what is missing   *)
(* of the last response, nobody has anything else, and while something is  *)
(* missing the client asks nothing new.                                    *)
FlowInv ==
    /\ Carried /\ OneCarrier
    /\ Sofar <= Owed(Served) /\ (Sofar = Owed(Served) => NoCarrier)
    /\ Sofar < Owed(Served) => sent = Bytes(Served)
    /\ epc = "write" => psendbuf # <<>>
    /\ epc \in {"disarm", "finish"} => Sofar = Owed(Served) /\ read = Bytes(Served)

LEMMA OwedLengths ==
    ASSUME NEW n \in Nat
    PROVE  /\ Owed(n) \in Nat /\ Owed(n + 1) = Owed(n) + RespLen /\ Owed(n) < Owed(n + 1)
           /\ \A m \in Nat : m <= n => Owed(m) <= Owed(n)
           /\ Send!Response(1, n + 1) = Piece(Owed(n), RespLen)
<1>1. /\ Owed(n) \in Nat /\ Owed(n + 1) = Owed(n) + RespLen
      /\ \A m \in Nat : m <= n => Owed(m) <= Owed(n)
  BY Lengths, Multiples DEF Owed
<1>2. \A i \in 1 .. RespLen : Unit(Owed(n) + i) = <<1, n + 1, i>>
  <2> SUFFICES ASSUME NEW i \in 1 .. RespLen PROVE Unit(Owed(n) + i) = <<1, n + 1, i>>
    OBVIOUS
  <2>1. i - 1 \in 0 .. RespLen - 1 /\ (Owed(n) + i) - 1 = n * RespLen + (i - 1)
    BY Lengths, <1>1 DEF Owed
  <2>2. ((Owed(n) + i) - 1) \div RespLen = n /\ ((Owed(n) + i) - 1) % RespLen = i - 1
    BY <2>1, Lengths, DivMod
  <2>3. (i - 1) + 1 = i
    OBVIOUS
  <2> QED BY <2>2, <2>3 DEF Unit
<1>3. Send!Response(1, n + 1) = Piece(Owed(n), RespLen)
  BY <1>2 DEF Send!Response, Piece
<1>4. Owed(n) < Owed(n + 1)
  BY <1>1, Lengths
<1> QED BY <1>1, <1>3, <1>4

(* A part of what is left goes out.                                        *)
LEMMA PieceSplits ==
    ASSUME NEW l \in Nat, NEW m \in Nat, NEW n \in 1 .. m
    PROVE  /\ Len(Piece(l, m)) = m /\ Len(Piece(0, l)) = l
           /\ Piece(0, l) \o SubSeq(Piece(l, m), 1, n) = Piece(0, l + n)
           /\ SubSeq(Piece(l, m), n + 1, m) = Piece(l + n, m - n)
<1> DEFINE U == Units
<1>0. RespLen \in Nat \ {0}
  BY Lengths
<1>1. \A k \in Int : Unit(k) \in U
  BY <1>0 DEF Unit, Units
<1> HIDE DEF U
<1>2. /\ Piece(l, m) \in Seq(U) /\ Len(Piece(l, m)) = m
      /\ \A i \in 1 .. m : Piece(l, m)[i] = Unit(l + i)
  BY <1>1 DEF Piece
<1>3. /\ Piece(0, l) \in Seq(U) /\ Len(Piece(0, l)) = l
      /\ \A i \in 1 .. l : Piece(0, l)[i] = Unit(0 + i)
  BY <1>1 DEF Piece
<1> DEFINE a == SubSeq(Piece(l, m), 1, n)
           b == SubSeq(Piece(l, m), n + 1, m)
<1>4. a \in Seq(U) /\ Len(a) = n /\ \A i \in 1 .. n : a[i] = Unit(l + i)
  BY <1>2
<1>5. b \in Seq(U) /\ Len(b) = m - n /\ \A i \in 1 .. m - n : b[i] = Unit(l + n + i)
  <2>1. b \in Seq(U) /\ Len(b) = m - n /\ \A i \in 1 .. m - n : b[i] = Piece(l, m)[n + i]
    BY <1>2
  <2>2. \A i \in 1 .. m - n : n + i \in 1 .. m /\ l + (n + i) = l + n + i
    OBVIOUS
  <2> QED BY <1>2, <2>1, <2>2
<1> HIDE DEF a, b
<1>6. b = Piece(l + n, m - n)
  BY <1>5 DEF Piece
<1>7. Piece(0, l) \o a = Piece(0, l + n)
  <2> DEFINE c == Piece(0, l) \o a
  <2>1. /\ c \in Seq(U) /\ Len(c) = Len(Piece(0, l)) + Len(a)
        /\ \A i \in 1 .. Len(Piece(0, l)) : c[i] = Piece(0, l)[i]
        /\ \A i \in Len(Piece(0, l)) + 1 .. Len(Piece(0, l)) + Len(a) :
              c[i] = a[i - Len(Piece(0, l))]
    BY <1>3, <1>4, Concat
  <2> HIDE DEF c
  <2>2. /\ c \in Seq(U) /\ Len(c) = l + n /\ \A i \in 1 .. l : c[i] = Unit(0 + i)
        /\ \A i \in l + 1 .. l + n : c[i] = a[i - l]
    BY <1>3, <1>4, <2>1
  <2>3. ASSUME NEW i \in 1 .. l + n PROVE c[i] = Unit(0 + i)
    <3>1. CASE i \in 1 .. l
      BY <2>2, <3>1
    <3>2. CASE i \in l + 1 .. l + n
      <4>1. i - l \in 1 .. n /\ l + (i - l) = 0 + i
        BY <3>2
      <4> QED BY <1>4, <2>2, <3>2, <4>1
    <3> QED BY <3>1, <3>2
  <2> QED BY <2>2, <2>3 DEF Piece, c
<1> QED BY <1>2, <1>3, <1>6, <1>7 DEF a, b

(* A step that moves no carrier on, but may lose one.                      *)
LEMMA SameFlow ==
    ASSUME FlowInv, UNCHANGED <<wire, answered>>,
           Sofar < Owed(Served) => sent' = sent,
           \A w \in Workers : Writes(w)' => Writes(w) /\ job'[w].data = job[w].data,
           \A s \in Senders : Sends(s)' => Sends(s) /\ cur'[s] = cur[s],
           sendq' = sendq \/ sendq' = <<>>,
           psendbuf' = psendbuf,
           epc' = "write" => epc = "write" \/ psendbuf # <<>>,
           epc' \in {"disarm", "finish"} => epc \in {"disarm", "finish"} /\ read' = read
    PROVE  FlowInv'
<1>1. Served' = Served /\ Sofar' = Sofar /\ Rest' = Rest
  BY DEF Served, Sofar, Rest, Piece, Unit, Owed
<1>2. Owed(Served)' = Owed(Served) /\ Bytes(Served)' = Bytes(Served)
  BY <1>1 DEF Owed, Bytes
<1>3. Carried'
  BY <1>1 DEF FlowInv, Carried
<1>4. OneCarrier'
  BY DEF FlowInv, OneCarrier
<1>5. NoCarrier => NoCarrier'
  BY DEF NoCarrier
<1> QED BY <1>1, <1>2, <1>3, <1>4, <1>5 DEF FlowInv, Owed

(* The worker appends what it has to the queue.                            *)
LEMMA EnqueueFlow ==
    ASSUME FlowInv, SendTypes, NEW w \in Workers, Send!Enqueue(w),
           UNCHANGED <<answered, sent, read>>
    PROVE  FlowInv'
<1>0. /\ wpc[w] = "enqueue" /\ wpc' = [wpc EXCEPT ![w] = "post"]
      /\ sendq' = Append(sendq, job[w])
      /\ UNCHANGED <<wire, psendbuf, spc, cur, job, epc>>
  BY DEF Send!Enqueue, Send!socket, Send!buffer, Send!senders
<1>1. /\ Served' = Served /\ Sofar' = Sofar /\ Rest' = Rest
      /\ Owed(Served)' = Owed(Served) /\ Bytes(Served)' = Bytes(Served)
  BY <1>0 DEF Served, Sofar, Rest, Piece, Unit, Owed, Bytes
<1>2. /\ wpc \in [Workers -> WorkerPoints] /\ Writes(w)
      /\ \A v \in Workers : Writes(v) => v = w
      /\ sendq = <<>> /\ psendbuf = <<>> /\ \A s \in Senders : ~Sends(s)
  BY <1>0 DEF SendTypes, Writes, FlowInv, OneCarrier
<1>3. \A v \in Workers : ~Writes(v)'
  BY <1>0, <1>2 DEF Writes
<1>4. Len(sendq') = 1 /\ sendq'[1] = job[w] /\ sendq' # <<>>
  BY <1>0, <1>2
<1>5. job[w].data = Rest
  BY <1>2 DEF FlowInv, Carried
<1>6. \A s \in Senders : ~Sends(s)'
  BY <1>0, <1>2 DEF Sends
<1>7. \A i \in 1 .. Len(sendq') : sendq'[i] = job[w]
  BY <1>4
<1>8. Carried'
  BY <1>0, <1>1, <1>2, <1>3, <1>5, <1>6, <1>7 DEF Carried
<1>9. OneCarrier'
  BY <1>0, <1>2, <1>3, <1>4, <1>6 DEF OneCarrier
<1>10. ~NoCarrier
  BY <1>2 DEF NoCarrier
<1> QED BY <1>0, <1>1, <1>8, <1>9, <1>10 DEF FlowInv, Owed

(* The sender takes the message, or drops it.                              *)
LEMMA TakeFlow ==
    ASSUME FlowInv, SendTypes, NEW s \in Senders, Send!Take(s),
           UNCHANGED <<answered, sent, read>>
    PROVE  FlowInv'
<1>0. /\ spc[s] = "take" /\ sendq # <<>> /\ sendq' = Tail(sendq)
      /\ \/ cur' = [cur EXCEPT ![s] = Head(sendq)] /\ spc' = [spc EXCEPT ![s] = "send"]
         \/ cur' = cur /\ spc' = [spc EXCEPT ![s] = "wait"]
      /\ UNCHANGED <<wire, psendbuf, wpc, job, epc>>
  BY DEF Send!Take, Send!socket, Send!buffer, Send!workers
<1>1. /\ spc \in [Senders -> SenderPoints] /\ cur \in [Senders -> Messages]
      /\ sendq \in Seq(Messages) /\ Len(sendq) <= 1
      /\ psendbuf = <<>> /\ \A t \in Senders : ~Sends(t)
      /\ \A w \in Workers : ~Writes(w)
  BY <1>0 DEF SendTypes, FlowInv, OneCarrier
<1>2. Len(sendq) = 1 /\ Head(sendq) = sendq[1] /\ sendq' = <<>>
  <2>1. Len(sendq) \in Nat /\ Len(sendq) # 0
    BY <1>0, <1>1
  <2>2. Len(sendq) <= 1
    BY <1>1
  <2>3. Len(sendq) = 1
    <3> DEFINE n == Len(sendq)
    <3>1. n \in Nat /\ n # 0 /\ n <= 1
      BY <2>1, <2>2
    <3> HIDE DEF n
    <3>2. n = 1
      BY ONLY <3>1
    <3> QED BY <3>2 DEF n
  <2> QED BY <1>0, <1>1, <2>3
<1>3. sendq[1].data = Rest
  BY <1>2 DEF FlowInv, Carried
<1>4. CASE cur' = [cur EXCEPT ![s] = Head(sendq)] /\ spc' = [spc EXCEPT ![s] = "send"]
  <2>1. /\ Served' = Served /\ Sofar' = Sofar /\ Rest' = Rest
        /\ Owed(Served)' = Owed(Served) /\ Bytes(Served)' = Bytes(Served)
    BY <1>0 DEF Served, Sofar, Rest, Piece, Unit, Owed, Bytes
  <2>2. /\ cur'[s] = sendq[1] /\ \A t \in Senders : Sends(t)' => t = s
        /\ Sends(s)'
    BY <1>1, <1>2, <1>4 DEF Sends
  <2>3. \A w \in Workers : ~Writes(w)'
    BY <1>0, <1>1 DEF Writes
  <2>4. Carried'
    <3>1. \A i \in 1 .. Len(sendq') : FALSE
      BY <1>2
    <3>2. \A t \in Senders : Sends(t)' => cur'[t].data = Rest
      BY <1>3, <2>2
    <3>3. psendbuf' = <<>>
      BY <1>0, <1>1
    <3> QED BY <2>1, <2>3, <3>1, <3>2, <3>3 DEF Carried
  <2>5. OneCarrier'
    <3>1. sendq' = <<>> /\ Len(sendq') <= 1 /\ psendbuf' = <<>>
      <4>1. sendq' = <<>> /\ psendbuf' = <<>>
        BY <1>0, <1>1, <1>2
      <4>2. Len(<<>>) <= 1
        OBVIOUS
      <4> QED BY <4>1, <4>2
    <3>2. \A t, u \in Senders : Sends(t)' /\ Sends(u)' => t = u
      BY <2>2
    <3> QED BY <2>3, <3>1, <3>2 DEF OneCarrier
  <2>6. ~NoCarrier
    BY <1>0 DEF NoCarrier
  <2> QED BY <1>0, <2>1, <2>4, <2>5, <2>6 DEF FlowInv, Owed
<1>5. CASE cur' = cur /\ spc' = [spc EXCEPT ![s] = "wait"]
  <2>1. \A t \in Senders : Sends(t)' => Sends(t) /\ cur'[t] = cur[t]
    BY <1>1, <1>5 DEF Sends
  <2>2. \A w \in Workers : Writes(w)' => Writes(w) /\ job'[w].data = job[w].data
    BY <1>0 DEF Writes
  <2> QED BY <1>0, <1>2, <2>1, <2>2, SameFlow
<1> QED BY <1>0, <1>4, <1>5

(* What send has not taken goes to psendbuf.                               *)
LEMMA SaveFlow ==
    ASSUME FlowInv, SendTypes, NEW s \in Senders, Send!Save(s),
           UNCHANGED <<answered, sent, read>>
    PROVE  FlowInv'
<1>0. /\ spc[s] = "save" /\ spc' = [spc EXCEPT ![s] = "arm"]
      /\ psendbuf' = psendbuf \o cur[s].data
      /\ UNCHANGED <<wire, sendq, wpc, job, cur, epc>>
  BY DEF Send!Save, Send!socket, Send!queue, Send!workers
<1>1. /\ Served' = Served /\ Sofar' = Sofar /\ Rest' = Rest
      /\ Owed(Served)' = Owed(Served) /\ Bytes(Served)' = Bytes(Served)
  BY <1>0 DEF Served, Sofar, Rest, Piece, Unit, Owed, Bytes
<1>2. /\ spc \in [Senders -> SenderPoints] /\ Sends(s) /\ psendbuf = <<>> /\ sendq = <<>>
      /\ \A t \in Senders : Sends(t) => t = s
      /\ \A w \in Workers : ~Writes(w)
      /\ cur[s].data = Rest
  BY <1>0 DEF SendTypes, FlowInv, OneCarrier, Sends, Carried
<1>3. psendbuf' = Rest
  <2>1. cur[s].data \in Seq(Units)
    BY MessageFields DEF SendTypes
  <2>2. \A d \in Seq(Units) : <<>> \o d = d
    OBVIOUS
  <2> QED BY <1>0, <1>2, <2>1, <2>2
<1>4. /\ \A t \in Senders : ~Sends(t)'
      /\ \A w \in Workers : ~Writes(w)'
  BY <1>0, <1>2 DEF Sends, Writes
<1>5. Carried'
  BY <1>0, <1>1, <1>2, <1>3, <1>4 DEF Carried
<1>6. OneCarrier'
  BY <1>0, <1>2, <1>4 DEF OneCarrier
<1>7. ~NoCarrier /\ epc # "write"
  BY <1>2 DEF NoCarrier, FlowInv
<1> QED BY <1>0, <1>1, <1>4, <1>5, <1>6, <1>7 DEF FlowInv, Owed

(* The kernel takes a part of what is missing.                             *)
LEMMA RestShrinks ==
    ASSUME ParserTypes, SendTypes, wire[1] = Piece(0, Sofar), Sofar < Owed(Served),
           NEW n, Send!Write(Rest, n), answered' = answered
    PROVE  /\ n \in 1 .. Len(Rest) /\ Served' = Served /\ Owed(Served)' = Owed(Served)
           /\ Bytes(Served)' = Bytes(Served)
           /\ wire'[1] = Piece(0, Sofar)' /\ Sofar < Sofar' /\ Sofar' <= Owed(Served)
           /\ SubSeq(Rest, n + 1, Len(Rest)) = Rest'
           /\ n = Len(Rest) <=> Sofar' = Owed(Served)
           /\ n # Len(Rest) => Rest' # <<>>
<1> DEFINE l == Sofar
           m == Owed(Served) - Sofar
<1>1. Served \in Nat /\ Owed(Served) \in Nat
  <2>1. Served \in Nat
    BY DEF ParserTypes, Served
  <2> QED BY <2>1, OwedLengths
<1>2. /\ wire \in [1 .. 1 -> Seq(Units)] /\ wire[1] \in Seq(Units)
      /\ Sofar \in Nat
  BY DEF SendTypes, Sofar
<1>3. l \in Nat /\ m \in Nat /\ Owed(Served) = l + m /\ Rest = Piece(l, m)
  BY <1>1, <1>2 DEF Rest
<1>4. Served' = Served /\ Owed(Served)' = Owed(Served) /\ Bytes(Served)' = Bytes(Served)
  BY DEF Served, Owed, Bytes
<1> HIDE DEF m
<1>5. Len(Rest) = m /\ Rest \in Seq(Units)
  <2>1. \A k \in Int : Unit(k) \in Units
    BY Lengths DEF Unit, Units
  <2>2. Piece(l, m) \in Seq(Units) /\ Len(Piece(l, m)) = m
    BY <1>2, <1>3, <2>1 DEF Piece
  <2> QED BY <1>3, <2>2
<1>6. n \in 1 .. m /\ wire' = [wire EXCEPT ![1] = wire[1] \o SubSeq(Rest, 1, n)]
  BY <1>5, WriteTypes
<1>7. /\ Piece(0, l) \o SubSeq(Piece(l, m), 1, n) = Piece(0, l + n)
      /\ SubSeq(Piece(l, m), n + 1, m) = Piece(l + n, m - n)
  BY <1>2, <1>3, <1>6, PieceSplits
<1>8. wire'[1] = Piece(0, l + n)
  BY <1>2, <1>3, <1>6, <1>7, SMTT(30)
<1>9. Sofar' = l + n
  <2>1. l + n \in Nat
    BY <1>2, <1>6
  <2>2. 1 \in 1 .. 1
    OBVIOUS
  <2>3. Len(Piece(0, l + n)) = l + n
    BY <2>1 DEF Piece
  <2> QED BY <1>8, <2>3 DEF Sofar
<1>10. /\ m - n = Owed(Served) - (l + n) /\ l < l + n /\ l + n <= Owed(Served)
       /\ n = m <=> l + n = Owed(Served)
  BY <1>1, <1>2, <1>3, <1>6
<1>11. Rest' = Piece(l + n, m - n)
  <2>1. Rest' = Piece(Sofar', Owed(Served) - Sofar')
    BY <1>4 DEF Rest, Piece, Unit
  <2> QED BY <1>9, <1>10, <2>1
<1>12. n # m => Rest' # <<>>
  <2>1. SUFFICES ASSUME n # m PROVE Len(Piece(l + n, m - n)) # 0
    BY <1>11
  <2>2. m - n \in Nat /\ m - n # 0
    BY <1>3, <1>6, <2>1
  <2> QED BY <2>2 DEF Piece
<1>13. wire'[1] = Piece(0, Sofar)'
  BY <1>8, <1>9 DEF Piece, Unit
<1> HIDE DEF l
<1>14. /\ n \in 1 .. Len(Rest) /\ SubSeq(Rest, n + 1, Len(Rest)) = Rest'
       /\ n = Len(Rest) <=> l + n = Owed(Served)
       /\ n # Len(Rest) => Rest' # <<>>
  BY <1>3, <1>5, <1>6, <1>7, <1>10, <1>11, <1>12
<1> QED BY <1>4, <1>9, <1>10, <1>13, <1>14 DEF l

LEMMA SendFlow ==
    ASSUME FlowInv, ParserTypes, SendTypes, wire[1] = Piece(0, Sofar),
           NEW s \in Senders, Send!Send(s), UNCHANGED <<answered, sent, read>>
    PROVE  FlowInv' /\ wire'[1] = Piece(0, Sofar)'
<1>0. PICK n \in 1 .. RespLen :
         /\ spc[s] = "send" /\ Send!Write(cur[s].data, n)
         /\ cur' = [cur EXCEPT ![s] = [cur[s] EXCEPT !.data =
                                          SubSeq(cur[s].data, n + 1, Len(cur[s].data))]]
         /\ spc' = [spc EXCEPT ![s] = IF n = Len(cur[s].data) THEN "sent" ELSE "save"]
         /\ UNCHANGED <<psendbuf, sendq, wpc, job, epc>>
  BY DEF Send!Send, Send!buffer, Send!queue, Send!workers
<1>1. /\ spc \in [Senders -> SenderPoints] /\ Sends(s) /\ psendbuf = <<>> /\ sendq = <<>>
      /\ cur \in [Senders -> Messages]
      /\ \A t \in Senders : Sends(t) => t = s
      /\ \A w \in Workers : ~Writes(w)
      /\ cur[s].data = Rest /\ ~NoCarrier
  BY <1>0 DEF SendTypes, FlowInv, OneCarrier, Sends, Carried, NoCarrier
<1>2. Sofar < Owed(Served)
  <2>1. Served \in Nat /\ Sofar \in Nat
    BY DEF ParserTypes, Served, SendTypes, Sofar
  <2>2. Owed(Served) \in Nat
    BY <2>1, OwedLengths
  <2>3. Sofar <= Owed(Served) /\ Sofar # Owed(Served)
    BY <1>1 DEF FlowInv
  <2> QED BY ONLY <2>1, <2>2, <2>3
<1>3. /\ n \in 1 .. Len(Rest) /\ Served' = Served /\ Owed(Served)' = Owed(Served)
      /\ Bytes(Served)' = Bytes(Served)
      /\ wire'[1] = Piece(0, Sofar)' /\ Sofar < Sofar' /\ Sofar' <= Owed(Served)
      /\ SubSeq(Rest, n + 1, Len(Rest)) = Rest'
      /\ n = Len(Rest) <=> Sofar' = Owed(Served)
  BY <1>0, <1>1, <1>2, RestShrinks
<1>4. cur'[s].data = Rest'
  <2>1. cur[s] \in Messages /\ Rest' \in Seq(Units)
    <3>1. cur[s] \in Messages /\ cur[s].data \in Seq(Units)
      BY <1>1, MessageFields
    <3>2. SubSeq(Rest, n + 1, Len(Rest)) \in Seq(Units)
      BY <1>0, <1>1, <3>1, WriteTypes
    <3> QED BY <1>3, <3>1, <3>2
  <2>2. cur'[s] = [cur[s] EXCEPT !.data = Rest']
    BY <1>0, <1>1, <1>3
  <2> QED BY <1>1, <2>1, <2>2, MessageFields
<1>5. /\ \A t \in Senders : Sends(t)' => t = s /\ n # Len(Rest)
      /\ \A w \in Workers : ~Writes(w)'
  BY <1>0, <1>1 DEF Sends, Writes
<1>6. Carried' /\ OneCarrier'
  <2>1. sendq' = <<>> /\ psendbuf' = <<>> /\ Len(sendq') = Len(sendq)
    BY <1>0, <1>1
  <2>2. \A i \in 1 .. Len(sendq') : FALSE
    BY <2>1
  <2>3. \A t \in Senders : Sends(t)' => cur'[t].data = Rest'
    BY <1>3, <1>4, <1>5
  <2>4. Carried'
    BY <1>5, <2>1, <2>2, <2>3 DEF Carried
  <2>5. Len(sendq') <= 1
    BY <2>1 DEF FlowInv, OneCarrier
  <2>6. \A t, u \in Senders : Sends(t)' /\ Sends(u)' => t = u
    BY <1>5
  <2> QED BY <1>5, <2>1, <2>4, <2>5, <2>6 DEF OneCarrier
<1>7. Sofar' = Owed(Served) => NoCarrier'
  BY <1>0, <1>1, <1>3, <1>5 DEF NoCarrier
<1>8. epc' # "write" /\ epc' \notin {"disarm", "finish"}
  <2>1. Sofar # Owed(Served)
    BY <1>1 DEF FlowInv
  <2> QED BY <1>0, <1>1, <2>1 DEF FlowInv
<1>9. Sofar' < Owed(Served) => sent' = Bytes(Served)
  BY <1>2 DEF FlowInv
<1> QED BY <1>3, <1>6, <1>7, <1>8, <1>9 DEF FlowInv, Owed

LEMMA WriteOutFlow ==
    ASSUME FlowInv, OrderInv, ParserTypes, RequestInv, SendTypes, open,
           wire[1] = Piece(0, Sofar), Send!WriteOut, UNCHANGED <<answered, sent, read>>
    PROVE  FlowInv' /\ wire'[1] = Piece(0, Sofar)'
<1>0. PICK n \in 1 .. Len(psendbuf) :
         /\ epc = "write" /\ Send!Write(psendbuf, n)
         /\ psendbuf' = SubSeq(psendbuf, n + 1, Len(psendbuf))
         /\ epc' = IF n = Len(psendbuf) THEN "disarm" ELSE "write"
         /\ UNCHANGED <<sendq, wpc, job, spc, cur>>
  BY DEF Send!WriteOut, Send!queue, Send!workers, Send!senders
<1>1. /\ psendbuf # <<>> /\ psendbuf = Rest /\ sendq = <<>>
      /\ \A t \in Senders : ~Sends(t)
      /\ \A w \in Workers : ~Writes(w)
      /\ ~NoCarrier
  BY <1>0 DEF FlowInv, OneCarrier, Carried, NoCarrier
<1>n. Served \in Nat /\ Sofar \in Nat /\ Owed(Served) \in Nat /\ Bytes(Served) \in Nat
  <2>1. Served \in Nat /\ Sofar \in Nat
    BY DEF ParserTypes, Served, SendTypes, Sofar
  <2> QED BY <2>1, OwedLengths, BytesOfRequests
<1>2. Sofar < Owed(Served)
  <2>1. Sofar <= Owed(Served) /\ Sofar # Owed(Served)
    BY <1>1 DEF FlowInv
  <2> QED BY ONLY <1>n, <2>1
<1>3. /\ n \in 1 .. Len(Rest) /\ Served' = Served /\ Owed(Served)' = Owed(Served)
      /\ Bytes(Served)' = Bytes(Served)
      /\ wire'[1] = Piece(0, Sofar)' /\ Sofar < Sofar' /\ Sofar' <= Owed(Served)
      /\ SubSeq(Rest, n + 1, Len(Rest)) = Rest'
      /\ n = Len(Rest) <=> Sofar' = Owed(Served)
      /\ n # Len(Rest) => Rest' # <<>>
  BY <1>0, <1>1, <1>2, RestShrinks
<1>4. psendbuf' = Rest' /\ (Sofar' = Owed(Served) => psendbuf' = <<>>)
  <2>1. psendbuf' = Rest'
    BY <1>0, <1>1, <1>3
  <2>2. Sofar' = Owed(Served) => Rest' = <<>>
    <3>1. SUFFICES ASSUME Sofar' = Owed(Served) PROVE Rest' = <<>>
      OBVIOUS
    <3>2. Owed(Served)' - Sofar' = 0
      BY <1>n, <1>3, <3>1
    <3> QED BY <3>2 DEF Rest, Piece
  <2> QED BY <2>1, <2>2
<1>5. /\ \A t \in Senders : ~Sends(t)'
      /\ \A w \in Workers : ~Writes(w)'
      /\ sendq' = <<>>
  BY <1>0, <1>1 DEF Sends, Writes
<1>6. Carried' /\ OneCarrier'
  <2>1. Len(sendq') = Len(sendq) /\ \A i \in 1 .. Len(sendq') : FALSE
    BY <1>1, <1>5
  <2>2. Len(sendq') <= 1
    BY <2>1 DEF FlowInv, OneCarrier
  <2> QED BY <1>4, <1>5, <2>1, <2>2 DEF Carried, OneCarrier
<1>7. Sofar' = Owed(Served) => NoCarrier'
  BY <1>4, <1>5 DEF NoCarrier
<1>8. read = Bytes(Served)
  <2>1. sent = Bytes(Served) /\ Bytes(Served) <= Len(fed) /\ read <= sent
    BY <1>2 DEF FlowInv, RequestInv
  <2>2. Len(fed) \in Nat /\ read \in Nat /\ sent \in Nat /\ Len(fed) <= read
    BY ParsedWasSent
  <2> QED BY ONLY <1>n, <2>1, <2>2
<1>9. /\ epc' = "write" => psendbuf' # <<>>
      /\ epc' \in {"disarm", "finish"} => Sofar' = Owed(Served) /\ read' = Bytes(Served)
  BY <1>0, <1>1, <1>3, <1>4, <1>8
<1>10. Sofar' < Owed(Served) => sent' = Bytes(Served)
  BY <1>2 DEF FlowInv
<1> QED BY <1>3, <1>6, <1>7, <1>9, <1>10 DEF FlowInv, Owed

(* A request is answered when nothing is missing of the last response.     *)
LEMMA RespondFlow ==
    ASSUME FlowInv, OrderInv, ParserTypes, RequestInv, SendTypes, open,
           NEW w \in Workers, Respond(w)
    PROVE  FlowInv'
<1> DEFINE m(c) == [data |-> Send!Response(1, Answers(w)), seq |-> 0,
                    bad |-> outcome[w] = "error", close |-> c]
<1>0. /\ pc[w] = "respond" /\ wpc' = [wpc EXCEPT ![w] = "msgSend"]
      /\ \E c \in BOOLEAN : job' = [job EXCEPT ![w] = m(c)]
      /\ answered' = IF chunk[w].seq = seqNo THEN Append(answered, Answers(w)) ELSE answered
      /\ UNCHANGED <<wire, psendbuf, spc, cur, sendq, epc, sent, read>>
  BY DEF Respond, Recv!Respond, Send!Answer, Answers, Send!socket, Send!buffer, Send!queue,
     Send!senders, Recv!stream, Recv!connection
<1>1. /\ Served \in Nat /\ Answers(w) = Served + 1 /\ chunk[w].seq = seqNo
      /\ Len(fed) = Bytes(Served) + Parts /\ read = Len(fed) /\ sent = Len(fed)
  BY <1>0, RespondsToNext
<1>2. \A c \in BOOLEAN : m(c).data = Send!Response(1, Served + 1)
  BY <1>1
<1> HIDE DEF m
<1>3. Served' = Served + 1
  BY <1>0, <1>1 DEF Served, ParserTypes
<1>4. /\ Owed(Served) \in Nat /\ Owed(Served + 1) = Owed(Served) + RespLen
      /\ Owed(Served) < Owed(Served + 1)
      /\ Send!Response(1, Served + 1) = Piece(Owed(Served), RespLen)
      /\ Bytes(Served) \in Nat /\ Bytes(Served + 1) = Bytes(Served) + Parts
      /\ Bytes(Served) # Bytes(Served) + Parts
  <2>1. Bytes(Served) \in Nat /\ Bytes(Served + 1) = Bytes(Served) + Parts
    BY <1>1, BytesOfRequests
  <2> QED BY <1>1, <2>1, OwedLengths, Lengths
<1>5. Sofar = Owed(Served) /\ NoCarrier
  <2>1. Sofar \in Nat /\ Sofar <= Owed(Served)
    BY DEF SendTypes, Sofar, FlowInv
  <2>2. ~(Sofar < Owed(Served))
    BY <1>1, <1>4 DEF FlowInv
  <2>3. Sofar = Owed(Served)
    BY <1>4, <2>1, <2>2
  <2> QED BY <2>3 DEF FlowInv
<1>6. Sofar' = Sofar /\ Rest' = Send!Response(1, Served + 1)
  <2>1. Sofar' = Sofar
    BY <1>0 DEF Sofar
  <2>2. Owed(Served)' = Owed(Served + 1) /\ Owed(Served + 1) - Owed(Served) = RespLen
    BY <1>3, <1>4, Lengths DEF Owed
  <2>3. Rest' = Piece(Owed(Served), RespLen)
    BY <1>5, <2>1, <2>2 DEF Rest, Piece, Unit
  <2> QED BY <1>4, <2>1, <2>3
<1>7. /\ wpc \in [Workers -> WorkerPoints] /\ job \in [Workers -> Messages]
      /\ \A v \in Workers : ~Writes(v)
      /\ sendq' = <<>> /\ psendbuf' = <<>> /\ \A s \in Senders : ~Sends(s)'
  BY <1>0, <1>5 DEF SendTypes, NoCarrier, Sends
<1>8. /\ \E c \in BOOLEAN : job'[w] = m(c)
      /\ \A v \in Workers : Writes(v)' => v = w
  BY <1>0, <1>7 DEF Writes
<1>9. \A i \in 1 .. Len(sendq') : FALSE
  BY <1>7
<1>10. Carried'
  BY <1>2, <1>3, <1>6, <1>7, <1>8, <1>9 DEF Carried
<1>11. OneCarrier'
  <2>1. Len(sendq') = Len(sendq)
    BY <1>0
  <2>2. Len(sendq') <= 1
    BY <2>1 DEF FlowInv, OneCarrier
  <2> QED BY <1>7, <1>8, <2>2 DEF OneCarrier
<1>12. Owed(Served)' = Owed(Served + 1) /\ Bytes(Served)' = Bytes(Served + 1)
  BY <1>3 DEF Owed, Bytes
<1>13. /\ Sofar' <= Owed(Served)' /\ Sofar' # Owed(Served)'
       /\ sent' = Bytes(Served)'
  <2>1. Sofar' = Owed(Served)
    BY <1>5, <1>6
  <2>2. Owed(Served + 1) \in Nat
    BY <1>4, Lengths
  <2>3. Owed(Served) <= Owed(Served + 1) /\ Owed(Served) # Owed(Served + 1)
    BY ONLY <1>4, <2>2
  <2> QED BY <1>0, <1>1, <1>4, <1>12, <2>1, <2>3
<1>14. epc' # "write" /\ epc' \notin {"disarm", "finish"}
  <2>1. epc # "write"
    BY <1>0, <1>7 DEF FlowInv
  <2>2. epc \notin {"disarm", "finish"}
    BY <1>1, <1>4 DEF FlowInv
  <2> QED BY <1>0, <2>1, <2>2
<1> QED BY <1>10, <1>11, <1>13, <1>14 DEF FlowInv, Owed

(* A step of the connection that keeps it open.                            *)
LEMMA NextFlow ==
    ASSUME FlowInv, OrderInv, ParserTypes, RequestInv, SendTypes, open, open' = TRUE,
           wire[1] = Piece(0, Sofar), [Next]_vars
    PROVE  FlowInv' /\ wire'[1] = Piece(0, Sofar)'
<1> USE DEF Send!conn, Send!status, Send!socket, Send!buffer, Send!queue, Send!workers,
            Send!senders, sendOnly, recvOnly
<1> DEFINE Same == wire' = wire => wire'[1] = Piece(0, Sofar)'
<1>0. /\ wpc \in [Workers -> WorkerPoints] /\ job \in [Workers -> Messages]
      /\ spc \in [Senders -> SenderPoints] /\ cur \in [Senders -> Messages]
      /\ Same
  BY DEF SendTypes, Sofar, Piece, Unit
<1> HIDE DEF Same
<1>i. Same /\ wire' = wire => wire'[1] = Piece(0, Sofar)'
  BY DEF Same
<1>1. ASSUME UNCHANGED <<wire, answered, sendq, psendbuf, wpc, job, spc, cur>>,
             Sofar < Owed(Served) => sent' = sent,
             epc' = "write" => epc = "write" \/ psendbuf # <<>>,
             epc' \in {"disarm", "finish"} => epc \in {"disarm", "finish"} /\ read' = read
      PROVE  FlowInv' /\ wire'[1] = Piece(0, Sofar)'
  <2>1. /\ \A w \in Workers : Writes(w)' => Writes(w) /\ job'[w].data = job[w].data
        /\ \A s \in Senders : Sends(s)' => Sends(s) /\ cur'[s] = cur[s]
    BY <1>1 DEF Writes, Sends
  <2> QED BY <1>0, <1>i, <1>1, <2>1, SameFlow
<1>2. CASE ClientSends
  <2>1. /\ UNCHANGED <<wire, answered, sendq, psendbuf, wpc, job, spc, cur, epc, read>>
        /\ sent % Parts = 0 => Send!Answered
    BY <1>2 DEF ClientSends, Recv!ClientSends, Recv!connection, Recv!ghosts
  <2>2. ~(Sofar < Owed(Served))
    <3> SUFFICES ASSUME Sofar < Owed(Served) PROVE FALSE
      OBVIOUS
    <3>1. sent = Bytes(Served) /\ Served \in Nat /\ Sofar \in Nat
      BY DEF FlowInv, ParserTypes, Served, SendTypes, Sofar
    <3>2. sent % Parts = 0 /\ sent \div Parts = Served
      BY <3>1, BytesOfRequests
    <3>3. Sofar = Owed(Served)
      BY <2>1, <3>2 DEF Send!Answered, Sofar, Owed
    <3> QED BY <3>1, <3>3
  <2> QED BY <1>1, <2>1, <2>2
<1>3. CASE Read
  <2>1. /\ UNCHANGED <<wire, answered, sendq, psendbuf, wpc, job, spc, cur, epc, sent>>
        /\ epc = "idle"
    BY <1>3 DEF Read, Recv!Read, Recv!stream, Recv!ghosts
  <2> QED BY <1>1, <2>1
<1>4. ASSUME NEW w \in Workers, Assemble(w) \/ Reset(w)
      PROVE  FlowInv' /\ wire'[1] = Piece(0, Sofar)'
  <2>1. UNCHANGED <<wire, answered, sendq, psendbuf, wpc, job, spc, cur, epc, sent, read>>
    BY <1>4 DEF Assemble, Reset, Recv!Take, Recv!Check, Recv!Proceed, Recv!TimeOut,
       Recv!Parse, Recv!Advance, Recv!Reset, Recv!stream, Recv!connection, Recv!ghosts
  <2> QED BY <1>1, <2>1, SMTT(30)
<1>5. ASSUME NEW w \in Workers, Respond(w) PROVE FlowInv' /\ wire'[1] = Piece(0, Sofar)'
  <2>1. wire' = wire
    BY <1>5 DEF Respond, Send!Answer
  <2> QED BY <1>0, <1>i, <1>5, <2>1, RespondFlow
<1>6. ASSUME NEW w \in Workers, MsgSend(w) PROVE FlowInv' /\ wire'[1] = Piece(0, Sofar)'
  <2>0. UNCHANGED <<answered, sent, read>>
    BY <1>6 DEF MsgSend
  <2>1. CASE Send!MsgSendDrops(w) \/ Send!Post(w) \/ Send!MsgSendStamps(w)
    <3>1. /\ UNCHANGED <<wire, sendq, psendbuf, spc, cur, epc>>
          /\ \/ wpc' = [wpc EXCEPT ![w] = "idle"] /\ job' = job
             \/ /\ wpc[w] = "msgSend" /\ wpc' = [wpc EXCEPT ![w] = "enqueue"]
                /\ job' = [job EXCEPT ![w] = [job[w] EXCEPT !.seq = seqNo]]
      BY <2>1 DEF Send!MsgSendDrops, Send!Post, Send!MsgSendStamps
    <3>2. job[w] \in Messages /\ seqNo \in Nat
      BY <1>0 DEF OrderInv, Types
    <3>3. [job[w] EXCEPT !.seq = seqNo].data = job[w].data
      BY <3>2, MessageFields
    <3>4. \A v \in Workers : Writes(v)' => Writes(v) /\ job'[v].data = job[v].data
      BY <1>0, <3>1, <3>3 DEF Writes
    <3>5. \A s \in Senders : Sends(s)' => Sends(s) /\ cur'[s] = cur[s]
      BY <3>1 DEF Sends
    <3> QED BY <1>0, <1>i, <2>0, <3>1, <3>4, <3>5, SameFlow
  <2>2. CASE Send!Enqueue(w)
    <3>1. wire' = wire
      BY <2>2 DEF Send!Enqueue
    <3> QED BY <1>0, <1>i, <2>0, <2>2, <3>1, EnqueueFlow
  <2>3. ~Send!MsgSendCuts(w)
    BY DEF Send!MsgSendCuts, Send!Close
  <2> QED BY <1>6, <2>1, <2>2, <2>3 DEF MsgSend
<1>7. ASSUME NEW s \in Senders, SendStep(s) PROVE FlowInv' /\ wire'[1] = Piece(0, Sofar)'
  <2>0. UNCHANGED <<answered, sent, read>>
    BY <1>7 DEF SendStep
  <2>1. CASE \/ Send!SemWait(s) \/ Send!TakeNothing(s) \/ Send!Finished(s) \/ Send!Arm(s)
             \/ Send!SendBlocked(s)
    <3>1. /\ UNCHANGED <<wire, sendq, psendbuf, wpc, job, epc>>
          /\ \/ /\ UNCHANGED cur \/ cur' = [cur EXCEPT ![s] = Send!NoMessage]
                /\ \E to \in {"take", "crashed", "wait"} : spc' = [spc EXCEPT ![s] = to]
             \/ spc[s] = "send" /\ spc' = [spc EXCEPT ![s] = "save"] /\ cur' = cur
      BY <2>1 DEF Send!SemWait, Send!TakeNothing, Send!Finished, Send!Arm, Send!SendBlocked
    <3>2. \A t \in Senders : Sends(t)' => Sends(t) /\ cur'[t] = cur[t]
      BY <1>0, <3>1 DEF Sends
    <3>3. \A v \in Workers : Writes(v)' => Writes(v) /\ job'[v].data = job[v].data
      BY <3>1 DEF Writes
    <3> QED BY <1>0, <1>i, <2>0, <3>1, <3>2, <3>3, SameFlow
  <2>2. CASE Send!Take(s)
    <3>1. wire' = wire
      BY <2>2 DEF Send!Take
    <3> QED BY <1>0, <1>i, <2>0, <2>2, <3>1, TakeFlow
  <2>3. CASE Send!Send(s)
    BY <2>0, <2>3, SendFlow
  <2>4. CASE Send!Save(s)
    <3>1. wire' = wire
      BY <2>4 DEF Send!Save
    <3> QED BY <1>0, <1>i, <2>0, <2>4, <3>1, SaveFlow
  <2>5. ~Send!SendFails(s)
    BY DEF Send!SendFails, Send!Close
  <2> QED BY <1>7, <2>1, <2>2, <2>3, <2>4, <2>5 DEF SendStep, Send!SenderStep
<1>8. CASE WriteStep
  <2>0. UNCHANGED <<answered, sent, read>>
    BY <1>8 DEF WriteStep
  <2>1. CASE Send!WriteOut
    BY <2>0, <2>1, WriteOutFlow
  <2>2. CASE Send!WriteEvent \/ Send!WriteBlocked \/ Send!Disarm \/ Send!WriteFinished
    <3>1. /\ UNCHANGED <<wire, sendq, psendbuf, wpc, job, spc, cur>>
          /\ epc' = "write" => psendbuf # <<>>
          /\ epc' \in {"disarm", "finish"} => epc \in {"disarm", "finish"}
      BY <2>2 DEF Send!WriteEvent, Send!WriteBlocked, Send!Disarm, Send!WriteFinished
    <3> QED BY <1>1, <2>0, <3>1
  <2>3. ~Send!WriteFails
    BY DEF Send!WriteFails, Send!Close
  <2> QED BY <1>8, <2>1, <2>2, <2>3 DEF WriteStep, Send!WriteStep
<1>9. CASE ClientReads \/ ClientLeaves
  <2>1. UNCHANGED <<answered, sent, read, wire, sendq, psendbuf, wpc, job, spc, cur, epc>>
    BY <1>9 DEF ClientReads, ClientLeaves, Send!ClientReads, Send!ClientLeaves
  <2> QED BY <1>1, <2>1
<1>10. CASE UNCHANGED vars
  <2>1. UNCHANGED <<answered, sent, read, wire, sendq, psendbuf, wpc, job, spc, cur, epc>>
    BY <1>10 DEF vars
  <2> QED BY <1>1, <2>1
<1> QED BY <1>2, <1>3, <1>4, <1>5, <1>6, <1>7, <1>8, <1>9, <1>10 DEF Next, WorkerStep

-----------------------------------------------------------------------------
(* Nothing is sent in the step that closes the connection, nor after it.   *)
LEMMA NothingSent ==
    ASSUME OrderInv, [Next]_vars, open' = FALSE
    PROVE  wire' = wire
<1> USE DEF Send!conn, Send!status, Send!socket
<1>1. CASE ClientSends \/ ClientReads \/ ClientLeaves \/ Read
  BY <1>1 DEF ClientSends, ClientReads, ClientLeaves, Read, Send!ClientReads,
     Send!ClientLeaves, sendOnly
<1>2. ASSUME NEW w \in Workers, Assemble(w) \/ Reset(w) PROVE wire' = wire
  BY <1>2 DEF Assemble, Reset, sendOnly
<1>3. ASSUME NEW w \in Workers, Respond(w) \/ MsgSend(w) PROVE wire' = wire
  BY <1>3 DEF Respond, Send!Answer, MsgSend, Send!MsgSendDrops, Send!MsgSendCuts,
     Send!MsgSendStamps, Send!Enqueue, Send!Post
<1>4. ASSUME NEW s \in Senders, SendStep(s) PROVE wire' = wire
  <2>1. ~Send!Send(s)
    BY DEF Send!Send
  <2> QED BY <1>4, <2>1 DEF SendStep, Send!SenderStep, Send!SemWait, Send!TakeNothing,
     Send!Take, Send!SendBlocked, Send!SendFails, Send!Finished, Send!Save, Send!Arm
<1>5. CASE WriteStep
  <2>1. ~Send!WriteOut
    BY DEF Send!WriteOut
  <2> QED BY <1>5, <2>1 DEF WriteStep, Send!WriteStep, Send!WriteEvent, Send!WriteBlocked,
     Send!WriteFails, Send!Disarm, Send!WriteFinished
<1>6. CASE UNCHANGED vars
  BY <1>6 DEF vars, sendOnly
<1> QED BY <1>1, <1>2, <1>3, <1>4, <1>5, <1>6 DEF Next, WorkerStep

(* A closed connection stays closed.                                       *)
LEMMA StaysClosed == ASSUME open = FALSE, [Next]_vars PROVE open' = FALSE
<1>1. CASE ClientSends
  BY <1>1 DEF ClientSends, Recv!ClientSends
<1>2. CASE Recv!Read
  BY <1>2 DEF Recv!Read
<1>3. ASSUME NEW w \in Workers, Assemble(w) \/ Recv!Respond(w) \/ Recv!Reset(w)
      PROVE  open' = FALSE
  BY <1>3 DEF Assemble, Recv!Take, Recv!Check, Recv!Proceed, Recv!TimeOut, Recv!Parse,
     Recv!Advance, Recv!Respond, Recv!Reset, Recv!connection
<1>4. CASE Closing \/ UNCHANGED <<open, seqNo>>
  BY <1>4 DEF Closing
<1> QED BY <1>1, <1>2, <1>3, <1>4, RecvSteps

(* A request that has been handled twice stays one.                        *)
LEMMA OverlapStays == ASSUME [Next]_vars, ~overlapped' PROVE ~overlapped
<1> USE DEF Recv!ghosts
<1>1. CASE ClientSends \/ Recv!Read
  BY <1>1 DEF ClientSends, Recv!ClientSends, Recv!Read
<1>2. ASSUME NEW w \in Workers, Assemble(w) PROVE ~overlapped
  <2>1. CASE Recv!Parse(w)
    <3>1. overlapped' = (overlapped \/ gotAll)
      BY <2>1 DEF Recv!Parse
    <3> QED BY <3>1, ZenonT(60)
  <2>2. CASE ~Recv!Parse(w)
    <3>1. overlapped' = overlapped
      BY <1>2, <2>2 DEF Assemble, Recv!Take, Recv!Check, Recv!Proceed, Recv!TimeOut,
         Recv!Advance
    <3> QED BY <3>1, Zenon
  <2> QED BY <2>1, <2>2
<1>3. ASSUME NEW w \in Workers, Recv!Respond(w) \/ Recv!Reset(w) PROVE ~overlapped
  BY <1>3 DEF Recv!Respond, Recv!Reset
<1>4. CASE UNCHANGED recvOnly
  BY <1>4 DEF recvOnly
<1> QED BY <1>1, <1>2, <1>3, <1>4, RecvSteps

(* What holds of the connection, open or closed.                           *)
AnswerInv ==
    /\ OrderInv /\ ParserTypes /\ SendTypes
    /\ wire[1] = Piece(0, Sofar)
    /\ open => RequestInv /\ FlowInv

LEMMA InitAnswers == Init => AnswerInv
<1> SUFFICES ASSUME Init PROVE AnswerInv
  OBVIOUS
<1> USE DEF Init, Recv!Init, Send!Init
<1>1. OrderInv
  BY InitOrder
<1>2. ParserTypes /\ Served = 0 /\ fed = <<>>
  <2>1. /\ answered = <<>> /\ buffer = <<>> /\ fed = <<>> /\ gotAll = FALSE
        /\ outcome = [w \in Workers |-> "more"]
    OBVIOUS
  <2>2. answered \in Seq(Int) /\ buffer \in Seq(Int) /\ Len(answered) = 0
    BY ONLY <2>1
  <2>3. gotAll \in BOOLEAN /\ outcome \in [Workers -> {"more", "all", "error"}]
    BY ONLY <2>1
  <2> QED BY ONLY <2>1, <2>2, <2>3 DEF ParserTypes, Served
<1>3. SendTypes
  BY MessageFields DEF SendTypes, Send!Clients, WorkerPoints, SenderPoints
<1>4. wire[1] = <<>> /\ Sofar = 0 /\ wire[1] = Piece(0, Sofar)
  BY DEF Send!Clients, Sofar, Piece
<1>5. Bytes(0) = 0 /\ Owed(0) = 0
  BY Lengths DEF Bytes, Owed
<1>6. RequestInv
  <2>1. \A w \in Workers : ~Decides(w)
    BY DEF Decides
  <2>2. Slice(0, 0) = <<>>
    BY DEF Slice
  <2>3. \A w \in Workers : pc[w] = "idle"
    OBVIOUS
  <2> QED BY <1>2, <1>5, <2>1, <2>2, <2>3, Lengths DEF RequestInv
<1>7. FlowInv
  <2>1. (\A w \in Workers : ~Writes(w)) /\ (\A s \in Senders : ~Sends(s))
    BY DEF Writes, Sends
  <2>2. sendq = <<>> /\ psendbuf = <<>> /\ epc = "idle" /\ \A s \in Senders : spc[s] = "wait"
    OBVIOUS
  <2>3. NoCarrier /\ Carried /\ OneCarrier
    BY <2>1, <2>2 DEF NoCarrier, Carried, OneCarrier
  <2> QED BY <1>2, <1>4, <1>5, <2>2, <2>3 DEF FlowInv
<1> QED BY <1>1, <1>2, <1>3, <1>4, <1>6, <1>7 DEF AnswerInv

LEMMA NextAnswers == ASSUME AnswerInv, [Next]_vars, ~overlapped' PROVE AnswerInv'
<1>1. OrderInv' /\ ParserTypes' /\ SendTypes'
  BY NextOrder, NextParserTypes, NextSendTypes DEF AnswerInv
<1>2. open \in BOOLEAN /\ open' \in BOOLEAN
  BY <1>1 DEF AnswerInv, OrderInv, Types
<1>3. CASE open /\ open' = TRUE
  <2>1. RequestInv'
    BY <1>3, NextRequests DEF AnswerInv
  <2>2. FlowInv' /\ wire'[1] = Piece(0, Sofar)'
    BY <1>3, NextFlow DEF AnswerInv
  <2> QED BY <1>1, <1>3, <2>1, <2>2 DEF AnswerInv
<1>4. CASE open' = FALSE
  <2>1. wire' = wire
    BY <1>4, NothingSent DEF AnswerInv
  <2>2. (wire[1] = Piece(0, Sofar))'
    BY <2>1 DEF AnswerInv, Sofar, Piece, Unit
  <2> QED BY <1>1, <1>4, <2>2 DEF AnswerInv
<1> QED BY <1>2, <1>3, <1>4, StaysClosed

(* Until a chunk is parsed before the context has been reset, whatever is  *)
(* on its way to the client is what follows on what it has, and there is   *)
(* one carrier of it.                                                      *)
THEOREM OneCarrierInv == Spec => [](overlapped \/ AnswerInv)
<1>1. Init => AnswerInv
  BY InitAnswers
<1>2. (overlapped \/ AnswerInv) /\ [Next]_vars => (overlapped \/ AnswerInv)'
  BY NextAnswers, OverlapStays
<1> QED BY <1>1, <1>2, PTL DEF Spec

(* my_slogic.cpp, my_socket.cpp: the client gets the answers to its        *)
(* requests, one each, complete and in the order in which it asked,        *)
(* whichever threads assembled, answered and sent them, however the kernel *)
(* cut them and however quick the client is, as long as no chunk is parsed *)
(* before the reset of the request before it.                              *)
THEOREM AnswersComeInOrder == Spec => []AnswersInOrder
<1>1. (overlapped \/ AnswerInv) => AnswersInOrder
  <2> SUFFICES ASSUME AnswerInv, NEW i \in 1 .. Len(wire[1]) PROVE wire[1][i] = Unit(i)
    BY DEF AnswersInOrder, Send!WireInOrder, Send!Ordered, Send!Clients, Unit
  <2>1. i \in 1 .. Sofar /\ 0 + i = i
    BY DEF Sofar
  <2>2. wire[1] = [j \in 1 .. Sofar |-> Unit(0 + j)]
    BY DEF AnswerInv, Piece
  <2> QED BY <2>1, <2>2
<1> QED BY <1>1, OneCarrierInv, PTL
=============================================================================
